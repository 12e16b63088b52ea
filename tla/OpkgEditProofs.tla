--------------------------- MODULE OpkgEditProofs ---------------------------
(***************************************************************************)
(* The proof that opkg keeps what a user wrote into a configuration file   *)
(* (Opkg!EditKept).  It takes an invariant that relates the md5sums in the *)
(* package database, the file lists, the owners in file_hash and the       *)
(* backups at every step of an installation.                               *)
(***************************************************************************)
EXTENDS OpkgProofs

Trusted == ConfFile \ torn

(* The sums of a package whose conffiles have all been resolved; of one that   *)
(* has none yet, or only those that Prepare enters.                            *)
Good(p, m, T) == \A f \in Conf[p] \cap T : f \in DOMAIN m.sum[p] /\ m.sum[p][f] # "" /\ m.sum[p][f] # "null"
Blank(p, m) == m.sum[p] = NoSums \/ m.sum[p] = [f \in Conf[p] |-> "null"]
SumsKept(m, T) ==
  \A p \in Pkgs :
    /\ DOMAIN m.sum[p] \subseteq Conf[p] /\ \A f \in DOMAIN m.sum[p] \cap T : m.sum[p][f] \notin Edits
    /\ Good(p, m, T) \/ Blank(p, m)
    /\ m.st[p] # "not" => Good(p, m, T)

(* Every conffile in the list of p is one of p's own. *)
Lists(p, l, T) == l[Name[p]] \cap T \subseteq Conf[p]
Owners(o, T) == \A f \in T : o[f] \in Pkgs => f \in Conf[o[f]]

Late == {"resolve", "finish"}
Entered == {"preinst", "backup", "clashes", "erase", "unlist", "extract", "list"}
Secured == {"clashes", "erase", "unlist", "extract", "list", "resolve"}
Unpacking == {"list", "resolve"}

(* A call under way.  From pkg_remove_orphan_dependent on opkg_state_changed is *)
(* set and the new package flagged, until its list is written.                  *)
CallOK(x, m, c, l, d, T) ==
  /\ x.pc \in InstallPcs \ {"prepare"} => Conf[x.pkg] \cap T \subseteq DOMAIN m.sum[x.pkg]
  /\ x.pc = "finish" => Good(x.pkg, m, T)
  /\ x.pc \in InstallPcs /\ x.old # None => Name[x.old] = Name[x.pkg] /\ m.st[x.old] # "not"
  /\ x.pc \in RemovePcs => m.st[x.pkg] # "not"
  /\ x.pc \in Entered => x.pkg \in c
  /\ x.pc \in Late => Lists(x.pkg, l, T) \/ x.pkg \in c
  /\ x.pc \in Entered \cup Late \cup RemovePcs => d = TRUE
Calls == \A i \in 1..Len(stack) : CallOK(stack[i], mem, changed, list, dirty, Trusted)

(* A dependency is installed because no version of it is. *)
Fresh == Len(stack) = 2 => stack[1].old = None

(* A list that is not its package's: the top call has written the new          *)
(* version's, or a partial extraction left it and the end of the command will  *)
(* write it.                                                                   *)
Relisted(p) == pc = "pkg" /\ stack[1].pc \in Late /\ Name[stack[1].pkg] = Name[p]
ToWrite(p) == /\ p \in changed
              /\ \/ pc \in {"configure", "status", "lists"}
                 \/ pc = "pkg" /\ Name[p] \in Deps[stack[Len(stack)].pkg]
MemLists == \A p \in Pkgs : mem.st[p] # "not" => Lists(p, list, Trusted) \/ Relisted(p) \/ ToWrite(p)
DbLists == /\ dirty = FALSE => \A p \in Pkgs : db.st[p] # "not" => Lists(p, list, Trusted)
           /\ pc = "lists" => db.st = mem.st

(* Where the last edit of f is. *)
EditSafe ==
  \A f \in Trusted : edits[f] # None =>
    \/ files[f] = edits[f]
    \/ /\ backup[f] = edits[f]
       /\ files[f] = None \/ (pc = "pkg" /\ stack[1].pc \in Unpacking /\ f \in Conf[stack[1].pkg])
BackedUp ==
  pc = "pkg" /\ stack[1].pc \in Secured =>
    \A f \in Trusted : f \in Conf[stack[1].pkg] \cup OldConf /\ edits[f] # None => backup[f] = edits[f]
Extracted ==
  pc = "pkg" /\ stack[1].pc \in Unpacking /\ "partial" \notin stack[1].marks =>
    \A f \in Files[stack[1].pkg] : files[f] = stack[1].pkg

EditInv ==
  /\ Versions /\ SumsKept(mem, Trusted) /\ SumsKept(db, Trusted) /\ Calls /\ Fresh
  /\ MemLists /\ DbLists /\ Owners(owner, Trusted)
  /\ EditSafe /\ BackedUp /\ Extracted

-----------------------------------------------------------------------------
(* All of it remains true when fewer conffiles are trusted. *)

LEMMA SumsShrink ==
  ASSUME NEW m, NEW n, NEW T, NEW U, SumsKept(m, T), U \subseteq T, n.sum = m.sum, Fewer(n.st, m.st)
  PROVE  SumsKept(n, U)
<1>1. \A p \in Pkgs : Good(p, m, T) => Good(p, n, U)
  BY DEF Good
<1>2. \A p \in Pkgs : Blank(p, m) => Blank(p, n)
  BY DEF Blank
<1>. QED  BY <1>1, <1>2 DEF SumsKept, Fewer

LEMMA ListsShrink ==
  ASSUME NEW p, NEW l, NEW k, NEW T, NEW U, Lists(p, l, T), U \subseteq T, k[Name[p]] \subseteq l[Name[p]]
  PROVE  Lists(p, k, U)
BY DEF Lists

LEMMA OwnersShrink ==
  ASSUME NEW o, NEW T, NEW U, Owners(o, T), U \subseteq T PROVE Owners(o, U)
BY DEF Owners

LEMMA TornGrows == Types /\ [Next]_vars => torn \subseteq torn'
<1>. SUFFICES ASSUME Types, [Next]_vars PROVE torn \subseteq torn'
  OBVIOUS
<1>1. CASE UNCHANGED vars
  BY <1>1 DEF vars
<1>2. CASE \/ \E f \in ConfFile, e \in Edits : Edit(f, e)
           \/ opkg_update \/ \E n \in Names : opkg_install_cmd(n) \/ opkg_remove_cmd(n)
  BY <1>2 DEF Edit, opkg_update, opkg_install_cmd, opkg_remove_cmd, history
<1>3. CASE Prepare \/ PrepareFails \/ satisfy_dependencies_for \/ Enter \/ preinst_configure
  BY <1>3 DEF Prepare, PrepareFails, satisfy_dependencies_for, Enter, preinst_configure, history
<1>4. CASE preinst_fails \/ backup_fails \/ clash_found
  BY <1>4 DEF preinst_fails, backup_fails, clash_found, Unwind
<1>5. CASE backup_modified_conffiles \/ check_data_file_clashes \/ remove_old_files \/ remove_old_list
  BY <1>5 DEF backup_modified_conffiles, check_data_file_clashes, remove_old_files, remove_old_list, history
<1>6. CASE (\E S \in SUBSET Files[Top.pkg] : Extract(S)) \/ pkg_write_filelist \/ Finish
  BY <1>6 DEF Extract, pkg_write_filelist, Finish, history
<1>7. CASE \E kept \in SUBSET ConfFile : resolve_conffiles(kept)
  BY <1>7 DEF resolve_conffiles
<1>8. CASE remove_data_files \/ remove_list \/ Removed \/ \E ok \in BOOLEAN : opkg_configure(ok)
  BY <1>8 DEF remove_data_files, remove_list, Removed, opkg_configure, history
<1>9. CASE ConfigureDone \/ write_status_files \/ nothing_to_be_done \/ pkg_write_changed_filelists
  BY <1>9 DEF ConfigureDone, write_status_files, nothing_to_be_done, pkg_write_changed_filelists, history
<1>10. CASE sigint_handler \/ Crash
  BY <1>10 DEF sigint_handler, Crash
<1>. QED  BY <1>1, <1>2, <1>3, <1>4, <1>5, <1>6, <1>7, <1>8, <1>9, <1>10 DEF Next

LEMMA TrustShrinks == Types /\ [Next]_vars => Trusted' \subseteq Trusted
BY TornGrows DEF Trusted

-----------------------------------------------------------------------------
(* The sums. *)

LEMMA PrepareSums ==
  ASSUME Types, Prepare, SumsKept(mem, Trusted) PROVE SumsKept(mem', Trusted) /\ Conf[Top.pkg] \cap Trusted \subseteq DOMAIN mem'.sum[Top.pkg]
<1>1. mem'.st = mem.st
      /\ mem'.sum = [p \in Pkgs |-> IF p = Top.pkg /\ mem.sum[p] = NoSums
                                    THEN [f \in Conf[p] |-> "null"] ELSE mem.sum[p]]
  BY PrepareMem
<1>2. Top.pkg \in Pkgs
  BY TopFacts DEF Prepare, At
<1>3. ASSUME NEW p \in Pkgs
      PROVE  /\ DOMAIN mem'.sum[p] \subseteq Conf[p]
             /\ \A f \in DOMAIN mem'.sum[p] \cap Trusted : mem'.sum[p][f] \notin Edits
             /\ Good(p, mem', Trusted) \/ Blank(p, mem')
             /\ mem'.st[p] # "not" => Good(p, mem', Trusted)
  <2>1. CASE p = Top.pkg /\ mem.sum[p] = NoSums
    <3>1. mem'.sum[p] = [f \in Conf[p] |-> "null"]
      BY <1>1, <2>1
    <3>2. DOMAIN mem'.sum[p] = Conf[p] /\ \A f \in Conf[p] : mem'.sum[p][f] = "null"
      BY <3>1
    <3>3. Blank(p, mem')
      BY <3>1 DEF Blank
    <3>4. mem'.st[p] # "not" => Good(p, mem', Trusted)
      <4>. SUFFICES ASSUME mem.st[p] # "not" PROVE Good(p, mem', Trusted)
        BY <1>1
      <4>1. Good(p, mem, Trusted)
        BY DEF SumsKept
      <4>2. Conf[p] \cap Trusted = {}
        BY <2>1, <4>1 DEF Good, NoSums
      <4>. QED  BY <4>2 DEF Good
    <3>5. \A f \in DOMAIN mem'.sum[p] : mem'.sum[p][f] \notin Edits
      BY <3>2, ConfConstants
    <3>. QED  BY <3>2, <3>3, <3>4, <3>5
  <2>2. CASE ~(p = Top.pkg /\ mem.sum[p] = NoSums)
    <3>1. mem'.sum[p] = mem.sum[p]
      BY <1>1, <2>2
    <3>2. Good(p, mem, Trusted) <=> Good(p, mem', Trusted)
      BY <3>1 DEF Good
    <3>3. Blank(p, mem) <=> Blank(p, mem')
      BY <3>1 DEF Blank
    <3>. QED  BY <1>1, <3>1, <3>2, <3>3 DEF SumsKept
  <2>. QED  BY <2>1, <2>2
<1>4. SumsKept(mem', Trusted)
  BY <1>3 DEF SumsKept
<1>5. Conf[Top.pkg] \cap Trusted \subseteq DOMAIN mem'.sum[Top.pkg]
  <2>1. CASE mem.sum[Top.pkg] = NoSums
    <3>1. mem'.sum[Top.pkg] = [f \in Conf[Top.pkg] |-> "null"]
      BY <1>1, <1>2, <2>1
    <3>. QED  BY <3>1
  <2>2. CASE mem.sum[Top.pkg] # NoSums
    <3>1. mem'.sum[Top.pkg] = mem.sum[Top.pkg]
      BY <1>1, <1>2, <2>2
    <3>2. Good(Top.pkg, mem, Trusted) \/ mem.sum[Top.pkg] = [f \in Conf[Top.pkg] |-> "null"]
      BY <1>2, <2>2 DEF SumsKept, Blank
    <3>. QED  BY <3>1, <3>2 DEF Good
  <2>. QED  BY <2>1, <2>2
<1>. QED  BY <1>4, <1>5

LEMMA ResolveSums ==
  ASSUME EditInv, NEW kept, resolve_conffiles(kept), Trusted' \subseteq Trusted
  PROVE  /\ SumsKept(mem', Trusted') /\ Good(Top.pkg, mem', Trusted')
         /\ DOMAIN mem'.sum[Top.pkg] = NewConf
         /\ "partial" \notin Top.marks => \A f \in NewConf \cap Trusted' : mem'.sum[Top.pkg][f] \notin Edits
<1>0. Types /\ pc = "pkg" /\ Top.pc = "resolve"
  BY DEF EditInv, Versions, resolve_conffiles, At
<1>1. Top.pkg \in Pkgs /\ Top = stack[1] /\ Len(stack) \in {1, 2}
  BY <1>0, TopFacts
<1>2. mem.sum \in [Pkgs -> SumMap]
  BY <1>0, MemFacts
<1>3. PICK v : v = [f \in NewConf |-> IF mem.sum[Top.pkg][f] = "null" THEN md5sum(files[f])
                                      ELSE mem.sum[Top.pkg][f]]
  OBVIOUS
<1>4. mem'.st = mem.st /\ mem'.sum = [mem.sum EXCEPT ![Top.pkg] = v]
  BY <1>0, <1>3, ResolveMem
<1>5. mem'.sum[Top.pkg] = v /\ \A p \in Pkgs : p # Top.pkg => mem'.sum[p] = mem.sum[p]
  BY <1>1, <1>2, <1>4
<1>6. SumsKept(mem, Trusted) /\ DOMAIN v = NewConf /\ NewConf \subseteq Conf[Top.pkg]
  BY <1>1, <1>3 DEF EditInv, SumsKept, NewConf
<1>7. Conf[Top.pkg] \cap Trusted \subseteq NewConf
  <2>1. CallOK(stack[1], mem, changed, list, dirty, Trusted)
    BY <1>1 DEF EditInv, Calls
  <2>. QED  BY <1>0, <1>1, <2>1 DEF CallOK, InstallPcs, NewConf
<1>8. CASE "partial" \in Top.marks
  <2>1. Conf[Top.pkg] \cap Trusted' = {}
    BY <1>8 DEF resolve_conffiles, Trusted
  <2>2. Good(Top.pkg, mem', Trusted')
    BY <2>1 DEF Good
  <2>3. ASSUME NEW p \in Pkgs
        PROVE  /\ DOMAIN mem'.sum[p] \subseteq Conf[p]
               /\ \A f \in DOMAIN mem'.sum[p] \cap Trusted' : mem'.sum[p][f] \notin Edits
               /\ Good(p, mem', Trusted') \/ Blank(p, mem')
               /\ mem'.st[p] # "not" => Good(p, mem', Trusted')
    <3>1. CASE p = Top.pkg
      BY <1>5, <1>6, <2>1, <2>2, <3>1
    <3>2. CASE p # Top.pkg
      <4>1. mem'.sum[p] = mem.sum[p]
        BY <1>5, <3>2
      <4>2. Good(p, mem, Trusted) => Good(p, mem', Trusted')
        BY <4>1 DEF Good
      <4>3. Blank(p, mem) => Blank(p, mem')
        BY <4>1 DEF Blank
      <4>. QED  BY <1>4, <1>6, <4>1, <4>2, <4>3 DEF SumsKept
    <3>. QED  BY <3>1, <3>2
  <2>. QED  BY <1>5, <1>6, <1>8, <2>2, <2>3 DEF SumsKept
<1>9. CASE "partial" \notin Top.marks
  <2>1. \A f \in Files[Top.pkg] : files[f] = Top.pkg
    BY <1>0, <1>1, <1>9 DEF EditInv, Extracted, Unpacking
  <2>2. \A f \in NewConf : files[f] = Top.pkg
    BY <1>1, <1>6, <2>1, Constants
  <2>3. md5sum(Top.pkg) = Top.pkg
    BY <1>1, ConfConstants DEF md5sum
  <2>4. \A f \in NewConf : v[f] = IF mem.sum[Top.pkg][f] = "null" THEN Top.pkg ELSE mem.sum[Top.pkg][f]
    BY <1>3, <2>2, <2>3
  <2>5. \A f \in NewConf \cap Trusted' : v[f] \notin Edits
    <3>1. \A f \in NewConf \cap Trusted : mem.sum[Top.pkg][f] \notin Edits
      BY <1>1, <1>6 DEF SumsKept, NewConf
    <3>. QED  BY <1>1, <2>4, <3>1, ConfConstants
  <2>6. Good(Top.pkg, mem, Trusted) \/ Blank(Top.pkg, mem)
    BY <1>1, <1>6 DEF SumsKept
  <2>7. ASSUME NEW f \in Conf[Top.pkg] \cap Trusted PROVE f \in NewConf /\ v[f] # "" /\ v[f] # "null"
    <3>1. f \in NewConf
      BY <1>7
    <3>2. mem.sum[Top.pkg][f] # ""
      <4>1. CASE Good(Top.pkg, mem, Trusted)
        BY <4>1 DEF Good
      <4>2. CASE mem.sum[Top.pkg] = NoSums
        BY <3>1, <4>2 DEF NewConf, NoSums
      <4>3. CASE mem.sum[Top.pkg] = [g \in Conf[Top.pkg] |-> "null"]
        BY <4>3
      <4>. QED  BY <2>6, <4>1, <4>2, <4>3 DEF Blank
    <3>. QED  BY <1>1, <2>4, <3>1, <3>2, ConfConstants
  <2>8. Good(Top.pkg, mem', Trusted')
    BY <1>5, <1>6, <2>7 DEF Good
  <2>9. ASSUME NEW p \in Pkgs
        PROVE  /\ DOMAIN mem'.sum[p] \subseteq Conf[p]
               /\ \A f \in DOMAIN mem'.sum[p] \cap Trusted' : mem'.sum[p][f] \notin Edits
               /\ Good(p, mem', Trusted') \/ Blank(p, mem')
               /\ mem'.st[p] # "not" => Good(p, mem', Trusted')
    <3>1. CASE p = Top.pkg
      BY <1>5, <1>6, <2>5, <2>8, <3>1
    <3>2. CASE p # Top.pkg
      <4>1. mem'.sum[p] = mem.sum[p]
        BY <1>5, <3>2
      <4>2. Good(p, mem, Trusted) => Good(p, mem', Trusted')
        BY <4>1 DEF Good
      <4>3. Blank(p, mem) => Blank(p, mem')
        BY <4>1 DEF Blank
      <4>. QED  BY <1>4, <1>6, <4>1, <4>2, <4>3 DEF SumsKept
    <3>. QED  BY <3>1, <3>2
  <2>. QED  BY <1>5, <1>6, <2>5, <2>8, <2>9 DEF SumsKept
<1>. QED  BY <1>8, <1>9

LEMMA StatusSums ==
  ASSUME NEW m \in Sums, NEW n, n = Persistent(m), NEW T, SumsKept(m, T) PROVE SumsKept(n, T)
<1>. DEFINE printed == {p \in Pkgs : m.st[p] # "not" \/ p \in m.want}
            Known5(p) == {f \in DOMAIN m.sum[p] : m.sum[p][f] \notin {"", "null"}}
            c == [p \in Pkgs |-> IF p \in printed THEN [f \in Known5(p) |-> m.sum[p][f]] ELSE NoSums]
<1>1. n.st = m.st
  BY PersistentFacts
<1>2. n.sum = c
  <2>1. PICK a : n = [m EXCEPT !.auto = a, !.sum = c]
    BY DEF Persistent
  <2>2. m = [st |-> m.st, sum |-> m.sum, auto |-> m.auto, want |-> m.want]
    BY SumsIs
  <2>. HIDE DEF c
  <2>. QED  BY <2>1, <2>2
<1>3. ASSUME NEW p \in Pkgs
      PROVE  /\ DOMAIN n.sum[p] \subseteq Conf[p] /\ \A f \in DOMAIN n.sum[p] \cap T : n.sum[p][f] \notin Edits
             /\ Good(p, n, T) \/ Blank(p, n)
             /\ n.st[p] # "not" => Good(p, n, T)
  <2>1. CASE p \notin printed
    <3>1. n.sum[p] = NoSums /\ n.st[p] = "not"
      BY <1>1, <1>2, <2>1
    <3>2. DOMAIN n.sum[p] = {}
      BY <3>1 DEF NoSums
    <3>. QED  BY <3>1, <3>2 DEF Blank
  <2>2. CASE p \in printed
    <3>1. n.sum[p] = [f \in Known5(p) |-> m.sum[p][f]]
      BY <1>2, <2>2
    <3>2. DOMAIN n.sum[p] = Known5(p) /\ \A f \in Known5(p) : n.sum[p][f] = m.sum[p][f]
      BY <3>1
    <3>3. Known5(p) \subseteq Conf[p] /\ \A f \in Known5(p) \cap T : m.sum[p][f] \notin Edits
      BY DEF SumsKept
    <3>4. Good(p, m, T) => Good(p, n, T)
      BY <3>2 DEF Good
    <3>5. Blank(p, m) => n.sum[p] = NoSums
      <4>. SUFFICES ASSUME Blank(p, m) PROVE n.sum[p] = NoSums
        OBVIOUS
      <4>1. Known5(p) = {}
        BY DEF Blank, NoSums
      <4>. QED  BY <3>1, <4>1 DEF NoSums
    <3>. HIDE DEF Known5
    <3>. QED  BY <1>1, <3>2, <3>3, <3>4, <3>5 DEF SumsKept, Blank
  <2>. QED  BY <2>1, <2>2
<1>. QED  BY <1>3 DEF SumsKept

LEMMA FinishSums ==
  ASSUME EditInv, Finish PROVE SumsKept(mem', Trusted)
<1>0. Types /\ pc = "pkg" /\ Top.pc = "finish" /\ SumsKept(mem, Trusted)
  BY DEF EditInv, Versions, Finish, At
<1>1. Top.pkg \in Pkgs /\ Top = stack[1] /\ Len(stack) \in {1, 2}
  BY <1>0, TopFacts
<1>2. /\ mem'.sum = mem.sum
      /\ mem'.st = [p \in Pkgs |-> IF p = Top.pkg THEN "unpacked" ELSE IF p = Top.old THEN "not" ELSE mem.st[p]]
  BY <1>0, FinishMem
<1>3. Good(Top.pkg, mem, Trusted)
  <2>1. CallOK(stack[1], mem, changed, list, dirty, Trusted)
    BY <1>1 DEF EditInv, Calls
  <2>. QED  BY <1>0, <1>1, <2>1 DEF CallOK
<1>4. \A p \in Pkgs : mem'.st[p] # "not" => p = Top.pkg \/ mem.st[p] # "not"
  BY <1>2
<1>5. \A p \in Pkgs : Good(p, mem, Trusted) => Good(p, mem', Trusted)
  BY <1>2 DEF Good
<1>6. \A p \in Pkgs : Blank(p, mem) => Blank(p, mem')
  BY <1>2 DEF Blank
<1>. QED  BY <1>0, <1>2, <1>3, <1>4, <1>5, <1>6 DEF SumsKept

(* Most steps enter no sum and install nothing. *)
Still == mem'.sum = mem.sum /\ Fewer(mem'.st, mem.st) /\ db' = db

LEMMA StillCases ==
  ASSUME Types, [Next]_vars, ~Prepare, ~\E kept \in SUBSET ConfFile : resolve_conffiles(kept), ~Finish,
         ~write_status_files, ~(nothing_to_be_done \/ pkg_write_changed_filelists \/ Crash)
  PROVE  Still
<1>1. CASE UNCHANGED vars
  BY <1>1, SameState DEF vars, Still
<1>2. CASE (\E f \in ConfFile, e \in Edits : Edit(f, e)) \/ opkg_update \/ ConfigureDone \/ sigint_handler
  BY <1>2, SameState DEF Edit, opkg_update, ConfigureDone, sigint_handler, memory, Still
<1>3. ASSUME NEW n \in Names, opkg_install_cmd(n) PROVE Still
  BY <1>3, SameState DEF opkg_install_cmd, memory, Still
<1>4. ASSUME NEW n \in Names, opkg_remove_cmd(n) PROVE Still
  <2>1. mem'.st = mem.st /\ mem'.sum = mem.sum /\ db' = db
    BY <1>4, RemoveTypes DEF opkg_remove_cmd
  <2>. QED  BY <2>1, SameState DEF Still
<1>5. CASE PrepareFails
  <2>1. mem'.st = mem.st /\ mem'.sum = mem.sum /\ db' = db
    BY <1>5, PrepareFailsTypes DEF PrepareFails
  <2>. QED  BY <2>1, SameState DEF Still
<1>6. CASE satisfy_dependencies_for
  <2>1. mem'.st = mem.st /\ mem'.sum = mem.sum /\ db' = db
    BY <1>6, SatisfyMem DEF satisfy_dependencies_for
  <2>. QED  BY <2>1, SameState DEF Still
<1>7. CASE Enter
  <2>1. mem'.st = [p \in Pkgs |-> IF p \in Orphans THEN "not" ELSE mem.st[p]] /\ mem'.sum = mem.sum /\ db' = db
    BY <1>7, EnterMem DEF Enter
  <2>. QED  BY <2>1 DEF Still, Fewer
<1>8. CASE preinst_configure \/ backup_modified_conffiles \/ check_data_file_clashes \/ remove_old_files
           \/ remove_old_list \/ pkg_write_filelist \/ remove_data_files \/ remove_list
  BY <1>8, SameState DEF preinst_configure, backup_modified_conffiles, check_data_file_clashes,
     remove_old_files, remove_old_list, pkg_write_filelist, remove_data_files, remove_list, memory, Still
<1>9. CASE preinst_fails \/ backup_fails \/ clash_found
  <2>1. pc = "pkg" /\ \E S \in {{}, OldConf \cup NewConf} : Unwind(S)
    BY <1>9 DEF preinst_fails, backup_fails, clash_found, At
  <2>2. {} \subseteq ConfFile /\ OldConf \cup NewConf \subseteq ConfFile
    BY <2>1, ConfFacts
  <2>3. PICK S \in {{}, OldConf \cup NewConf} : Unwind(S)
    BY <2>1
  <2>4. S \subseteq ConfFile
    BY <2>2
  <2>5. mem'.st = mem.st /\ mem'.sum = mem.sum
    BY <2>1, <2>3, <2>4, UnwindTypes
  <2>6. db' = db
    BY <2>3 DEF Unwind
  <2>. QED  BY <2>5, <2>6, SameState DEF Still
<1>10. ASSUME NEW S, Extract(S) PROVE Still
  BY <1>10, SameState DEF Extract, memory, Still
<1>11. CASE Removed
  <2>1. mem'.st = [mem.st EXCEPT ![Top.pkg] = "not"] /\ mem'.sum = mem.sum /\ mem.st \in State /\ db' = db
    BY <1>11, RemovedTypes, MemFacts DEF Removed
  <2>. QED  BY <2>1 DEF Fewer, State, Still
<1>12. ASSUME NEW ok \in BOOLEAN, opkg_configure(ok) PROVE Still
  <2>1. PICK p \in Pkgs : mem.st[p] = "unpacked" /\ mem'.st \in {mem.st, [mem.st EXCEPT ![p] = "installed"]}
    BY <1>12, ConfigureMem
  <2>2. mem.st \in State /\ mem'.sum = mem.sum /\ db' = db
    BY <1>12, MemFacts, ConfigureMem DEF opkg_configure
  <2>. QED  BY <2>1, <2>2 DEF Fewer, State, Still
<1>. QED  BY <1>1, <1>2, <1>3, <1>4, <1>5, <1>6, <1>7, <1>8, <1>9, <1>10, <1>11, <1>12 DEF Next

LEMMA NextSums ==
  ASSUME EditInv, [Next]_vars PROVE SumsKept(mem', Trusted') /\ SumsKept(db', Trusted')
<1>0. Types /\ Trusted' \subseteq Trusted /\ SumsKept(mem, Trusted) /\ SumsKept(db, Trusted)
  BY TrustShrinks DEF EditInv, Versions
<1>1. db' = db => SumsKept(db', Trusted')
  BY <1>0, SumsShrink, SameState
<1>2. CASE Still
  <2>1. SumsKept(mem', Trusted')
    BY <1>0, <1>2, SumsShrink DEF Still
  <2>. QED  BY <1>1, <1>2, <2>1 DEF Still
<1>3. CASE Prepare
  <2>1. SumsKept(mem', Trusted) /\ db' = db
    BY <1>0, <1>3, PrepareSums DEF Prepare
  <2>2. SumsKept(mem', Trusted')
    BY <1>0, <2>1, SumsShrink, SameState
  <2>. QED  BY <1>1, <2>1, <2>2
<1>4. ASSUME NEW kept, resolve_conffiles(kept) PROVE SumsKept(mem', Trusted') /\ SumsKept(db', Trusted')
  <2>1. SumsKept(mem', Trusted')
    BY <1>0, <1>4, ResolveSums
  <2>2. db' = db
    BY <1>4 DEF resolve_conffiles
  <2>. QED  BY <1>1, <2>1, <2>2
<1>5. CASE Finish
  <2>1. SumsKept(mem', Trusted) /\ db' = db
    BY <1>5, FinishSums DEF Finish
  <2>2. SumsKept(mem', Trusted')
    BY <1>0, <2>1, SumsShrink, SameState
  <2>. QED  BY <1>1, <2>1, <2>2
<1>6. CASE write_status_files
  <2>1. db' = Persistent(mem) /\ mem' = mem /\ mem \in Sums
    BY <1>0, <1>6 DEF write_status_files, memory, Types
  <2>2. SumsKept(db', Trusted)
    BY <1>0, <2>1, StatusSums
  <2>3. SumsKept(db', Trusted')
    BY <1>0, <2>2, SumsShrink, SameState
  <2>4. SumsKept(mem', Trusted')
    BY <1>0, <2>1, SumsShrink, SameState
  <2>. QED  BY <2>3, <2>4
<1>7. CASE nothing_to_be_done \/ pkg_write_changed_filelists \/ Crash
  <2>1. mem' = db /\ db' = db
    BY <1>7 DEF nothing_to_be_done, pkg_write_changed_filelists, Crash, preinstall_check
  <2>. QED  BY <1>1, <2>1
<1>. QED  BY <1>0, <1>2, <1>3, <1>4, <1>5, <1>6, <1>7, StillCases

-----------------------------------------------------------------------------
(* The calls under way. *)

(* A call that waits for a dependency is untouched by what the dependency's    *)
(* call does. *)
Waiting(x) == x \in Call /\ x.pc = "deps"

LEMMA WaitingOK ==
  ASSUME NEW x, Waiting(x), NEW m, NEW n, NEW c, NEW d, NEW l, NEW k, NEW a, NEW b, NEW T, NEW U,
         CallOK(x, m, c, l, a, T), U \subseteq T, DOMAIN m.sum[x.pkg] \subseteq DOMAIN n.sum[x.pkg],
         x.old # None /\ m.st[x.old] # "not" => n.st[x.old] # "not"
  PROVE  CallOK(x, n, d, k, b, U)
<1>1. x.pc = "deps" /\ "deps" \in InstallPcs /\ "deps" \notin RemovePcs \cup Entered \cup Late /\ "deps" # "finish"
      /\ "deps" # "prepare"
  BY DEF Waiting, InstallPcs, RemovePcs, Entered, Late
<1>. QED  BY <1>1 DEF CallOK

LEMMA PrepareOK == ASSUME NEW x, x.pc = "prepare", NEW m, NEW c, NEW l, NEW d, NEW T,
                          x.old # None => Name[x.old] = Name[x.pkg] /\ m.st[x.old] # "not"
                   PROVE  CallOK(x, m, c, l, d, T)
<1>1. "prepare" \notin RemovePcs \cup Entered \cup Late
  BY DEF RemovePcs, Entered, Late
<1>. QED  BY <1>1 DEF CallOK

(* The second call waits. *)
LEMMA SecondWaits ==
  ASSUME Types, Len(stack) = 2 PROVE Waiting(stack[2]) /\ Name[stack[1].pkg] \in Deps[stack[2].pkg]
                                     /\ stack[2].pkg \in Pkgs /\ stack[1].pkg \in Pkgs
                                     /\ Name[stack[1].pkg] # Name[stack[2].pkg]
<1>1. stack \in Seq(Call) /\ 1 \in 1..Len(stack) /\ 2 \in 1..Len(stack)
  BY DEF Types, CallTypes
<1>2. stack[1] \in Call /\ stack[2] \in Call
  BY <1>1, ElementOfSeq
<1>3. stack[1].pkg \in Pkgs /\ stack[2].pkg \in Pkgs
  BY <1>2 DEF Call, CallRecord
<1>4. stack[2].pc = "deps" /\ Name[stack[1].pkg] \in Deps[stack[2].pkg]
  BY DEF Types, Nested
<1>5. Name[stack[1].pkg] # Name[stack[2].pkg]
  BY <1>3, <1>4, Constants
<1>. QED  BY <1>2, <1>3, <1>4, <1>5 DEF Waiting

(* The top call moves on: it is enough to look at it. *)
LEMMA TopOK ==
  ASSUME EditInv, [Next]_vars, NEW x, Moves(x),
         CallOK(x, mem', changed', list', dirty', Trusted'),
         Len(stack) = 2 => /\ DOMAIN mem.sum[stack[2].pkg] \subseteq DOMAIN mem'.sum[stack[2].pkg]
                           /\ stack[2].old # None /\ mem.st[stack[2].old] # "not" => mem'.st[stack[2].old] # "not"
  PROVE  Calls'
<1>0. Types /\ Trusted' \subseteq Trusted /\ pc = "pkg"
  BY TrustShrinks DEF EditInv, Versions, Moves
<1>1. /\ Len(stack') = Len(stack) /\ stack'[1] = x /\ \A i \in 2..Len(stack) : stack'[i] = stack[i]
  BY <1>0, MoveFacts
<1>2. Len(stack) \in {1, 2}
  BY <1>0, TopFacts
<1>3. CASE Len(stack) = 1
  BY <1>1, <1>3 DEF Calls
<1>4. CASE Len(stack) = 2
  <2>1. CallOK(stack[2], mem, changed, list, dirty, Trusted)
    BY <1>4 DEF EditInv, Calls
  <2>2. Waiting(stack[2])
    BY <1>0, <1>4, SecondWaits
  <2>3. CallOK(stack[2], mem', changed', list', dirty', Trusted')
    BY <1>0, <1>4, <2>1, <2>2, WaitingOK
  <2>4. stack'[2] = stack[2]
    BY <1>1, <1>4
  <2>5. \A i \in 1..2 : i = 1 \/ i = 2
    OBVIOUS
  <2>. QED  BY <1>1, <1>4, <2>3, <2>4, <2>5 DEF Calls
<1>. QED  BY <1>2, <1>3, <1>4

LEMMA EmptyCalls == ASSUME stack' = <<>> PROVE Calls'
<1>1. Len(stack') = 0
  OBVIOUS
<1>. QED  BY <1>1 DEF Calls

LEMMA TopCall ==
  ASSUME EditInv, pc = "pkg"
  PROVE  /\ Types /\ CallOK(Top, mem, changed, list, dirty, Trusted)
         /\ Top = stack[1] /\ Top.pkg \in Pkgs /\ Top.old \in Pkgs \cup {None} /\ Len(stack) \in {1, 2}
         /\ Top.pkg # Top.old
<1>1. Types
  BY DEF EditInv, Versions
<1>2. Top = stack[1] /\ Top.pkg \in Pkgs /\ Top.old \in Pkgs \cup {None} /\ Len(stack) \in {1, 2} /\ Top.pkg # Top.old
  BY <1>1, TopFacts
<1>3. CallOK(stack[1], mem, changed, list, dirty, Trusted)
  BY <1>2 DEF EditInv, Calls
<1>. QED  BY <1>1, <1>2, <1>3

LEMMA PlainCalls ==
  ASSUME EditInv, [Next]_vars, NEW x, Moves(x), mem' = mem, changed' = changed, dirty' = dirty,
         \/ Top.pc \in Entered /\ x.pc \in Entered \cup {"resolve"}
         \/ Top.pc \in RemovePcs /\ x.pc \in RemovePcs
  PROVE  Calls'
<1>1. CallOK(Top, mem, changed, list, dirty, Trusted) /\ Types
  BY TopCall DEF Moves
<1>2. x.pkg = Top.pkg /\ x.old = Top.old /\ Trusted' \subseteq Trusted
  BY <1>1, TrustShrinks DEF Moves
<1>3. /\ Entered \subseteq InstallPcs \ {"prepare", "finish"} /\ Entered \cap Late = {} /\ Entered \cap RemovePcs = {}
      /\ InstallPcs \cap RemovePcs = {} /\ Late \subseteq InstallPcs \ {"prepare"} /\ "resolve" \in Late
      /\ "resolve" \notin Entered /\ "resolve" # "finish"
  BY DEF Entered, InstallPcs, Late, RemovePcs
<1>4. CASE Top.pc \in Entered /\ x.pc \in Entered \cup {"resolve"}
  <2>1. /\ Conf[x.pkg] \cap Trusted' \subseteq DOMAIN mem.sum[x.pkg] /\ x.pkg \in changed /\ dirty = TRUE
        /\ x.old # None => Name[x.old] = Name[x.pkg] /\ mem.st[x.old] # "not"
    BY <1>1, <1>2, <1>3, <1>4 DEF CallOK
  <2>2. CASE x.pc \in Entered
    <3>1. x.pc \notin Late /\ x.pc \notin RemovePcs /\ x.pc # "finish"
      BY <1>3, <2>2
    <3>2. CallOK(x, mem, changed, list', dirty, Trusted')
      BY <2>1, <3>1 DEF CallOK
    <3>. QED  BY <3>2, TopOK
  <2>3. CASE x.pc = "resolve"
    <3>1. x.pc \notin RemovePcs /\ x.pc # "finish"
      BY <1>3, <2>3
    <3>2. CallOK(x, mem, changed, list', dirty, Trusted')
      BY <2>1, <3>1 DEF CallOK
    <3>. QED  BY <3>2, TopOK
  <2>. QED  BY <1>4, <2>2, <2>3
<1>5. CASE Top.pc \in RemovePcs /\ x.pc \in RemovePcs
  <2>1. mem.st[x.pkg] # "not" /\ dirty = TRUE
    BY <1>1, <1>2, <1>5 DEF CallOK
  <2>2. x.pc \notin InstallPcs /\ x.pc \notin Entered /\ x.pc \notin Late /\ x.pc # "finish"
    BY <1>5 DEF RemovePcs, InstallPcs, Entered, Late
  <2>3. CallOK(x, mem, changed, list', dirty, Trusted')
    BY <2>1, <2>2 DEF CallOK
  <2>. QED  BY <2>3, TopOK
<1>. QED  BY <1>4, <1>5

LEMMA InstallCalls == ASSUME EditInv, NEW n \in Names, opkg_install_cmd(n) PROVE Calls'
<1>0. Types /\ pc = "idle" /\ mem' = mem
  BY DEF EditInv, Versions, opkg_install_cmd, memory
<1>1. CASE stack' = stack
  <2>1. stack' = <<>>
    BY <1>0, <1>1 DEF Types, CallTypes
  <2>. QED  BY <2>1, EmptyCalls
<1>2. CASE stack' = <<Frame(best_candidate(n), "prepare")>>
  <2>1. best_candidate(n) \in Pkgs
    BY BestFacts DEF opkg_install_cmd
  <2>2. PICK x : x = Frame(best_candidate(n), "prepare")
    OBVIOUS
  <2>3. x.pkg = best_candidate(n) /\ x.old = fetch_installed_by_name(Name[x.pkg]) /\ x.pc = "prepare"
    BY <2>2 DEF Frame
  <2>4. x.old # None => x.old \in Pkgs /\ Name[x.old] = Name[x.pkg] /\ Installed(x.old, mem)
    BY <2>3, FetchFacts
  <2>5. x.old # None => Name[x.old] = Name[x.pkg] /\ mem.st[x.old] # "not"
    BY <1>0, <2>4, InstalledIs DEF Types
  <2>6. CallOK(x, mem', changed', list', dirty', Trusted')
    BY <1>0, <2>3, <2>5, PrepareOK
  <2>7. Len(stack') = 1 /\ stack'[1] = x
    BY <1>2, <2>2
  <2>. QED  BY <2>6, <2>7 DEF Calls
<1>. QED  BY <1>1, <1>2 DEF opkg_install_cmd

LEMMA RemoveCalls == ASSUME EditInv, NEW n \in Names, opkg_remove_cmd(n) PROVE Calls'
<1>0. Types /\ mem \in Sums /\ dirty' = TRUE
  BY DEF EditInv, Versions, opkg_remove_cmd, Types
<1>1. PICK p : p = fetch_installed_by_name(n)
  OBVIOUS
<1>2. p # None /\ stack' = <<[pkg |-> p, old |-> None, pc |-> "rm_files", marks |-> {}]>>
  BY <1>1 DEF opkg_remove_cmd
<1>3. p \in Pkgs /\ Installed(p, mem)
  BY <1>1, <1>2, FetchFacts
<1>4. mem.st[p] # "not" /\ mem'.st = mem.st
  BY <1>0, <1>3, InstalledIs, RemoveTypes
<1>5. PICK x : x = [pkg |-> p, old |-> None, pc |-> "rm_files", marks |-> {}]
  OBVIOUS
<1>6. x.pkg = p /\ x.pc = "rm_files"
  BY <1>5
<1>7. "rm_files" \notin InstallPcs \cup Entered \cup Late
  BY DEF InstallPcs, Entered, Late
<1>8. CallOK(x, mem', changed', list', dirty', Trusted')
  BY <1>0, <1>4, <1>6, <1>7 DEF CallOK
<1>9. Len(stack') = 1 /\ stack'[1] = x
  BY <1>2, <1>5
<1>. QED  BY <1>8, <1>9 DEF Calls

LEMMA SatisfyPush ==
  ASSUME Types, Types', satisfy_dependencies_for
  PROVE  /\ Len(stack) = 1 /\ Len(stack') = 2 /\ stack'[2] = stack[1]
         /\ stack'[1].pc = "prepare" /\ stack'[1].old = None
<1>0. pc = "pkg" /\ Top.pc = "deps"
  BY DEF satisfy_dependencies_for, At
<1>1. PICK n \in Missing : stack' = <<Frame(best_candidate(n), "prepare")>> \o stack
  BY DEF satisfy_dependencies_for
<1>2. Top = stack[1] /\ Top.pkg \in Pkgs /\ Len(stack) \in {1, 2} /\ stack \in Seq(Call) /\ Top \in Call
  BY <1>0, TopFacts
<1>3. best_candidate(n) \in Pkgs /\ Name[best_candidate(n)] = n
  BY <1>0, <1>1, <1>2, DependencyKnown DEF Missing
<1>4. PICK x : x = Frame(best_candidate(n), "prepare")
  OBVIOUS
<1>5. x.pkg = best_candidate(n) /\ x.old = fetch_installed_by_name(Name[best_candidate(n)]) /\ x.pc = "prepare"
  BY <1>4 DEF Frame
<1>6. x.old = None
  BY <1>1, <1>3, <1>5 DEF Missing
<1>7. x \in Call
  <2>1. best_candidate(n) # fetch_installed_by_name(Name[best_candidate(n)])
    BY <1>3, <1>5, <1>6, Constants
  <2>. QED  BY <1>3, <1>4, <2>1, FrameFacts
<1>8. Push(stack', stack, x)
  BY <1>1, <1>4 DEF Push
<1>9. /\ Len(stack) \in Nat /\ Len(stack') = Len(stack) + 1 /\ stack'[1] = x
      /\ \A i \in 1..Len(stack) : stack'[i + 1] = stack[i]
  BY <1>2, <1>7, <1>8, PushFacts
<1>10. Len(stack) = 1
  <2>1. Len(stack') <= 2
    BY DEF Types, CallTypes
  <2>2. ASSUME Len(stack) = 2 PROVE FALSE
    <3>1. Len(stack') = 3
      BY <1>9, <2>2
    <3>. QED  BY <2>1, <3>1
  <2>. QED  BY <1>2, <2>2
<1>11. stack'[2] = stack[1] /\ Len(stack') = 2
  <2>1. \A i \in 1..1 : stack'[i + 1] = stack[i]
    BY <1>9, <1>10
  <2>. QED  BY <1>9, <1>10, <2>1
<1>. QED  BY <1>5, <1>6, <1>9, <1>10, <1>11

LEMMA SatisfyCalls == ASSUME EditInv, satisfy_dependencies_for, [Next]_vars PROVE Calls'
<1>0. Types /\ pc = "pkg" /\ Top.pc = "deps" /\ Types' /\ Trusted' \subseteq Trusted
  BY NextTypes, TrustShrinks DEF EditInv, Versions, satisfy_dependencies_for, At
<1>1. /\ Len(stack) = 1 /\ Len(stack') = 2 /\ stack'[2] = stack[1]
      /\ stack'[1].pc = "prepare" /\ stack'[1].old = None
  BY <1>0, SatisfyPush
<1>2. CallOK(stack'[1], mem', changed', list', dirty', Trusted')
  BY <1>1, PrepareOK
<1>3. CallOK(stack[1], mem, changed, list, dirty, Trusted)
  BY <1>1 DEF EditInv, Calls
<1>4. Waiting(stack[1])
  BY <1>0, TopFacts DEF Waiting
<1>5. mem'.st = mem.st /\ mem'.sum = mem.sum
  BY <1>0, SatisfyMem
<1>6. CallOK(stack[1], mem', changed', list', dirty', Trusted')
  BY <1>0, <1>3, <1>4, <1>5, WaitingOK
<1>7. \A i \in 1..2 : i = 1 \/ i = 2
  OBVIOUS
<1>. QED  BY <1>1, <1>2, <1>6, <1>7 DEF Calls

LEMMA PrepareCalls == ASSUME EditInv, Prepare, [Next]_vars PROVE Calls'
<1>0. pc = "pkg" /\ Top.pc = "prepare" /\ Goto("deps") /\ pc' = pc /\ SumsKept(mem, Trusted)
  BY DEF EditInv, Prepare, At
<1>1. /\ Types /\ CallOK(Top, mem, changed, list, dirty, Trusted) /\ Top.pkg \in Pkgs
  BY <1>0, TopCall
<1>2. Trusted' \subseteq Trusted
  BY <1>1, TrustShrinks
<1>3. "deps" \in InstallPcs /\ "prepare" \in InstallPcs /\ "deps" \notin RemovePcs \cup Entered \cup Late
      /\ "deps" # "finish"
  BY DEF InstallPcs, RemovePcs, Entered, Late
<1>4. PICK x : Moves(x) /\ x.pc = "deps"
  BY <1>0, <1>1, <1>3, GotoFacts
<1>5. mem'.st = mem.st /\ Conf[Top.pkg] \cap Trusted \subseteq DOMAIN mem'.sum[Top.pkg]
  BY <1>0, <1>1, PrepareMem, PrepareSums
<1>6. x.pkg = Top.pkg /\ x.old = Top.old
  BY <1>4 DEF Moves
<1>7. x.old # None => Name[x.old] = Name[x.pkg] /\ mem'.st[x.old] # "not"
  BY <1>0, <1>1, <1>3, <1>5, <1>6 DEF CallOK
<1>8. CallOK(x, mem', changed', list', dirty', Trusted')
  BY <1>2, <1>3, <1>4, <1>5, <1>6, <1>7 DEF CallOK
<1>9. \A p \in Pkgs : DOMAIN mem.sum[p] \subseteq DOMAIN mem'.sum[p]
  <2>1. mem'.sum = [p \in Pkgs |-> IF p = Top.pkg /\ mem.sum[p] = NoSums
                                   THEN [f \in Conf[p] |-> "null"] ELSE mem.sum[p]]
    BY <1>1, PrepareMem
  <2>2. DOMAIN NoSums = {}
    BY DEF NoSums
  <2>. QED  BY <2>1, <2>2
<1>10. Len(stack) = 2 => stack[2].pkg \in Pkgs
  BY <1>1, SecondWaits
<1>. QED  BY <1>4, <1>5, <1>8, <1>9, <1>10, TopOK

(* An upgrade does not take its own old version, nor that of the call that     *)
(* waits for it, for an orphan. *)
LEMMA NotOrphans ==
  ASSUME EditInv, pc = "pkg", Top.pc = "deps"
  PROVE  /\ Top.old \notin Orphans
         /\ Len(stack) = 2 => Orphans = {}
<1>1. /\ Types /\ CallOK(Top, mem, changed, list, dirty, Trusted) /\ Top.pkg \in Pkgs
      /\ Top.old \in Pkgs \cup {None} /\ Top = stack[1]
  BY TopCall
<1>2. Top.old = None => Orphans = {}
  BY DEF Orphans
<1>3. Top.old # None => Top.old \in Pkgs /\ Name[Top.old] = Name[Top.pkg]
  BY <1>1 DEF CallOK, InstallPcs
<1>4. ASSUME NEW p \in Orphans PROVE Top.old \in Pkgs /\ Name[p] \in Deps[Top.old]
  BY <1>2, <1>3 DEF Orphans
<1>5. Top.old \notin Orphans
  BY <1>4, Constants
<1>6. ASSUME Len(stack) = 2 PROVE Orphans = {}
  <2>1. Name[Top.pkg] \in Deps[stack[2].pkg] /\ stack[2].pkg \in Pkgs
    BY <1>1, <1>6, SecondWaits
  <2>2. Top.old # None => Deps[Top.old] = {}
    BY <1>3, <2>1, Constants
  <2>. QED  BY <1>2, <1>4, <2>2
<1>. QED  BY <1>5, <1>6

LEMMA EnterCalls == ASSUME EditInv, Enter, [Next]_vars PROVE Calls'
<1>0. pc = "pkg" /\ Top.pc = "deps" /\ Goto("preinst") /\ pc' = pc /\ dirty' = TRUE /\ Top.pkg \in changed'
  BY DEF Enter, At, pkg_remove_orphan_dependent
<1>1. /\ Types /\ CallOK(Top, mem, changed, list, dirty, Trusted) /\ Top.pkg \in Pkgs
      /\ Top.old \in Pkgs \cup {None}
  BY <1>0, TopCall
<1>2. Trusted' \subseteq Trusted
  BY <1>1, TrustShrinks
<1>3. /\ "deps" \in InstallPcs /\ "preinst" \in InstallPcs /\ "preinst" \notin RemovePcs \cup Late
      /\ "preinst" # "finish" /\ "deps" # "prepare"
  BY DEF InstallPcs, RemovePcs, Late
<1>4. PICK x : Moves(x) /\ x.pc = "preinst"
  BY <1>0, <1>1, <1>3, GotoFacts
<1>5. mem'.st = [p \in Pkgs |-> IF p \in Orphans THEN "not" ELSE mem.st[p]] /\ mem'.sum = mem.sum
  BY <1>1, EnterMem
<1>6. Top.old \notin Orphans /\ (Len(stack) = 2 => Orphans = {})
  BY <1>0, NotOrphans
<1>7. x.pkg = Top.pkg /\ x.old = Top.old
  BY <1>4 DEF Moves
<1>8. x.old # None => Name[x.old] = Name[x.pkg] /\ mem'.st[x.old] # "not"
  BY <1>0, <1>1, <1>3, <1>5, <1>6, <1>7 DEF CallOK
<1>9. Conf[x.pkg] \cap Trusted' \subseteq DOMAIN mem'.sum[x.pkg]
  BY <1>0, <1>1, <1>2, <1>3, <1>5, <1>7 DEF CallOK
<1>10. CallOK(x, mem', changed', list', dirty', Trusted')
  BY <1>0, <1>3, <1>4, <1>7, <1>8, <1>9 DEF CallOK
<1>11. ASSUME Len(stack) = 2, stack[2].old # None, mem.st[stack[2].old] # "not" PROVE mem'.st[stack[2].old] # "not"
  <2>1. Waiting(stack[2])
    BY <1>1, <1>11, SecondWaits
  <2>2. stack[2].old \in Pkgs
    BY <1>11, <2>1 DEF Waiting, Call, CallRecord
  <2>. QED  BY <1>5, <1>6, <1>11, <2>2
<1>. QED  BY <1>4, <1>5, <1>10, <1>11, TopOK

(* The list that pkg_write_filelist writes is the package's own. *)
LEMMA ListCalls == ASSUME EditInv, pkg_write_filelist, [Next]_vars PROVE Calls' /\ Lists(Top.pkg, list', Trusted')
<1>0. /\ pc = "pkg" /\ Top.pc = "list" /\ Goto("resolve") /\ pc' = pc /\ mem' = mem /\ dirty' = dirty
      /\ list' = [list EXCEPT ![Name[Top.pkg]] = {f \in File : owner[f] = Top.pkg}]
  BY DEF pkg_write_filelist, At
<1>1. /\ Types /\ CallOK(Top, mem, changed, list, dirty, Trusted) /\ Top.pkg \in Pkgs
  BY <1>0, TopCall
<1>2. Trusted' \subseteq Trusted /\ list \in [Names -> SUBSET File]
  BY <1>1, TrustShrinks DEF Types, DiskTypes
<1>3. /\ "list" \in InstallPcs \ {"prepare"} /\ "list" \in Entered /\ "resolve" \in InstallPcs
      /\ "resolve" \notin RemovePcs \cup Entered /\ "resolve" # "finish"
  BY DEF InstallPcs, RemovePcs, Entered
<1>4. PICK x : Moves(x) /\ x.pc = "resolve"
  BY <1>0, <1>1, <1>3, GotoFacts
<1>5. x.pkg = Top.pkg /\ x.old = Top.old
  BY <1>4 DEF Moves
<1>6. list'[Name[Top.pkg]] = {f \in File : owner[f] = Top.pkg}
  BY <1>0, <1>1, <1>2, Constants
<1>7. Lists(Top.pkg, list', Trusted')
  <2>1. Owners(owner, Trusted)
    BY DEF EditInv
  <2>. QED  BY <1>1, <1>2, <1>6, <2>1 DEF Lists, Owners
<1>8. /\ Conf[x.pkg] \cap Trusted' \subseteq DOMAIN mem.sum[x.pkg] /\ dirty = TRUE
      /\ x.old # None => Name[x.old] = Name[x.pkg] /\ mem.st[x.old] # "not"
  BY <1>0, <1>1, <1>2, <1>3, <1>5 DEF CallOK
<1>9. CallOK(x, mem', changed', list', dirty', Trusted')
  <2>1. x.pc \notin RemovePcs /\ x.pc \notin Entered /\ x.pc # "finish"
    BY <1>3, <1>4
  <2>. QED  BY <1>0, <1>5, <1>7, <1>8, <2>1 DEF CallOK
<1>10. Calls'
  BY <1>0, <1>4, <1>9, TopOK
<1>. QED  BY <1>7, <1>10

LEMMA ResolveCalls == ASSUME EditInv, NEW kept, resolve_conffiles(kept), [Next]_vars PROVE Calls'
<1>0. /\ pc = "pkg" /\ Top.pc = "resolve" /\ Goto("finish") /\ pc' = pc
      /\ UNCHANGED <<list, changed, dirty>>
  BY DEF resolve_conffiles, At
<1>1. /\ Types /\ CallOK(Top, mem, changed, list, dirty, Trusted) /\ Top.pkg \in Pkgs
  BY <1>0, TopCall
<1>2. Trusted' \subseteq Trusted
  BY <1>1, TrustShrinks
<1>3. /\ "resolve" \in InstallPcs \ {"prepare"} /\ "resolve" \in Late /\ "finish" \in InstallPcs
      /\ "finish" \notin RemovePcs \cup Entered
  BY DEF InstallPcs, RemovePcs, Entered, Late
<1>4. PICK x : Moves(x) /\ x.pc = "finish"
  BY <1>0, <1>1, <1>3, GotoFacts
<1>5. x.pkg = Top.pkg /\ x.old = Top.old
  BY <1>4 DEF Moves
<1>6. Good(Top.pkg, mem', Trusted') /\ DOMAIN mem'.sum[Top.pkg] = DOMAIN mem.sum[Top.pkg]
  BY <1>2, ResolveSums DEF NewConf
<1>7. /\ mem'.st = mem.st
      /\ \A p \in Pkgs : DOMAIN mem.sum[p] \subseteq DOMAIN mem'.sum[p]
  <2>1. mem'.st = mem.st
    BY <1>1, ResolveMem
  <2>2. PICK v : mem'.sum = [mem.sum EXCEPT ![Top.pkg] = v]
    BY <1>1, ResolveMem
  <2>3. mem.sum \in [Pkgs -> SumMap]
    BY <1>1, MemFacts
  <2>4. \A p \in Pkgs : p # Top.pkg => mem'.sum[p] = mem.sum[p]
    BY <2>2, <2>3
  <2>. QED  BY <1>6, <2>1, <2>4
<1>8. /\ Conf[x.pkg] \cap Trusted' \subseteq DOMAIN mem'.sum[x.pkg] /\ dirty = TRUE
      /\ x.old # None => Name[x.old] = Name[x.pkg] /\ mem'.st[x.old] # "not"
      /\ Lists(x.pkg, list, Trusted) \/ x.pkg \in changed
  BY <1>0, <1>1, <1>2, <1>3, <1>5, <1>6, <1>7 DEF CallOK
<1>9. Lists(x.pkg, list', Trusted') \/ x.pkg \in changed'
  BY <1>0, <1>2, <1>8, ListsShrink
<1>10. CallOK(x, mem', changed', list', dirty', Trusted')
  <2>1. x.pc \notin RemovePcs /\ x.pc \notin Entered
    BY <1>3, <1>4
  <2>. QED  BY <1>0, <1>5, <1>6, <1>8, <1>9, <2>1 DEF CallOK
<1>11. Len(stack) = 2 => stack[2].pkg \in Pkgs
  BY <1>1, SecondWaits
<1>. QED  BY <1>4, <1>7, <1>10, <1>11, TopOK

LEMMA FinishCalls == ASSUME EditInv, Finish, [Next]_vars PROVE Calls'
<1>0. pc = "pkg" /\ Top.pc = "finish" /\ stack' = Tail(stack)
  BY DEF Finish, At
<1>1. /\ Types /\ CallOK(Top, mem, changed, list, dirty, Trusted) /\ Top.pkg \in Pkgs /\ Len(stack) \in {1, 2}
      /\ Top = stack[1]
  BY <1>0, TopCall
<1>2. Trusted' \subseteq Trusted /\ stack \in Seq(Call) /\ stack # <<>>
  BY <1>0, <1>1, TrustShrinks, TopFacts
<1>3. /\ Len(stack') = Len(stack) - 1 /\ Len(stack') \in Nat
      /\ \A i \in 1..Len(stack') : stack'[i] = stack[i + 1]
  BY <1>0, <1>2, TailFacts
<1>4. CASE Len(stack) = 1
  <2>1. Len(stack') = 0
    BY <1>3, <1>4
  <2>. QED  BY <2>1 DEF Calls
<1>5. CASE Len(stack) = 2
  <2>1. Len(stack') = 1 /\ stack'[1] = stack[2]
    BY <1>3, <1>5
  <2>2. CallOK(stack[2], mem, changed, list, dirty, Trusted)
    BY <1>5 DEF EditInv, Calls
  <2>3. Waiting(stack[2]) /\ Name[stack[1].pkg] # Name[stack[2].pkg]
    BY <1>1, <1>5, SecondWaits
  <2>4. /\ mem'.sum = mem.sum
        /\ mem'.st = [p \in Pkgs |-> IF p = Top.pkg THEN "unpacked" ELSE IF p = Top.old THEN "not" ELSE mem.st[p]]
    BY <1>1, FinishMem
  <2>5. ASSUME stack[2].old # None, mem.st[stack[2].old] # "not" PROVE mem'.st[stack[2].old] # "not"
    <3>1. stack[2].old \in Pkgs
      BY <2>3, <2>5 DEF Waiting, Call, CallRecord
    <3>2. Name[stack[2].old] = Name[stack[2].pkg]
      BY <2>2, <2>3, <2>5 DEF CallOK, Waiting, InstallPcs
    <3>3. Top.old # None => Name[Top.old] = Name[Top.pkg]
      BY <1>0, <1>1 DEF CallOK, InstallPcs
    <3>4. stack[2].old # Top.pkg /\ stack[2].old # Top.old
      BY <1>1, <2>3, <2>5, <3>2, <3>3
    <3>. QED  BY <2>4, <2>5, <3>1, <3>4
  <2>6. CallOK(stack[2], mem', changed', list', dirty', Trusted')
    BY <1>2, <2>2, <2>3, <2>4, <2>5, WaitingOK
  <2>. QED  BY <2>1, <2>6 DEF Calls
<1>. QED  BY <1>1, <1>4, <1>5
(* The steps of a call that leave the memory alone. *)
Steps ==
  \/ preinst_configure \/ backup_modified_conffiles \/ check_data_file_clashes \/ remove_old_files
  \/ remove_old_list \/ (\E S \in SUBSET Files[Top.pkg] : Extract(S)) \/ remove_data_files \/ remove_list

LEMMA StepCalls == ASSUME EditInv, Steps, [Next]_vars PROVE Calls'
<1>0. Types
  BY DEF EditInv, Versions
<1>1. pc = "pkg" /\ pc' = pc /\ mem' = mem /\ changed' = changed /\ dirty' = dirty
  BY DEF Steps, At, preinst_configure, backup_modified_conffiles, check_data_file_clashes, remove_old_files,
     remove_old_list, Extract, remove_data_files, remove_list, memory
<1>2. ASSUME NEW w \in Entered, Goto(w), Top.pc \in Entered PROVE Calls'
  <2>1. w \in InstallPcs /\ Top.pc \in InstallPcs
    BY <1>2 DEF Entered, InstallPcs
  <2>2. PICK x : Moves(x) /\ x.pc = w
    BY <1>0, <1>1, <1>2, <2>1, GotoFacts
  <2>. QED  BY <1>1, <1>2, <2>2, PlainCalls
<1>3. ASSUME NEW w \in RemovePcs, Goto(w), Top.pc \in RemovePcs PROVE Calls'
  <2>1. w \notin InstallPcs /\ Top.pc \notin InstallPcs
    BY <1>3 DEF RemovePcs, InstallPcs
  <2>2. PICK x : Moves(x) /\ x.pc = w
    BY <1>0, <1>1, <1>3, <2>1, GotoFacts
  <2>. QED  BY <1>1, <1>3, <2>2, PlainCalls
<1>4. CASE preinst_configure \/ backup_modified_conffiles \/ remove_old_files \/ remove_old_list
  <2>1. /\ Top.pc \in {"preinst", "backup", "erase", "unlist"}
        /\ \E w \in {"backup", "clashes", "unlist", "extract"} : Goto(w)
    BY <1>4 DEF At, preinst_configure, backup_modified_conffiles, remove_old_files, remove_old_list
  <2>2. Top.pc \in Entered /\ \E w \in Entered : Goto(w)
    BY <2>1 DEF Entered
  <2>. QED  BY <1>2, <2>2
<1>5. CASE check_data_file_clashes
  <2>1. PICK x : Moves(x) /\ x.pc = "erase"
    BY <1>0, <1>5, ClashesMoves
  <2>2. Top.pc \in Entered /\ "erase" \in Entered
    BY <1>5 DEF check_data_file_clashes, At, Entered
  <2>. QED  BY <1>1, <2>1, <2>2, PlainCalls
<1>6. ASSUME NEW S, Extract(S) PROVE Calls'
  <2>1. PICK x : Moves(x) /\ x.pc \in {"list", "resolve"}
    BY <1>0, <1>6, ExtractMoves
  <2>2. Top.pc \in Entered /\ "list" \in Entered
    BY <1>6 DEF Extract, At, Entered
  <2>. QED  BY <1>1, <2>1, <2>2, PlainCalls
<1>7. CASE remove_data_files \/ remove_list
  <2>1. Top.pc \in {"rm_files", "rm_list"} /\ \E w \in {"rm_list", "rm_done"} : Goto(w)
    BY <1>7 DEF At, remove_data_files, remove_list
  <2>2. Top.pc \in RemovePcs /\ \E w \in RemovePcs : Goto(w)
    BY <2>1 DEF RemovePcs
  <2>. QED  BY <1>3, <2>2
<1>. QED  BY <1>4, <1>5, <1>6, <1>7 DEF Steps

(* The steps that end every call, or take place when there is none. *)
Fails == PrepareFails \/ preinst_fails \/ backup_fails \/ clash_found
Outside ==
  \/ (\E f \in ConfFile, e \in Edits : Edit(f, e)) \/ opkg_update \/ Fails
  \/ Removed \/ (\E ok \in BOOLEAN : opkg_configure(ok)) \/ ConfigureDone \/ write_status_files
  \/ nothing_to_be_done \/ pkg_write_changed_filelists \/ sigint_handler \/ Crash

LEMMA OutsideEnds == ASSUME Types, Outside PROVE stack' = <<>> /\ pc' # "pkg"
<1>1. pc # "pkg" => stack = <<>>
  BY DEF Types, CallTypes
<1>2. CASE (\E f \in ConfFile, e \in Edits : Edit(f, e)) \/ opkg_update
  BY <1>1, <1>2 DEF Edit, opkg_update
<1>3. CASE Fails
  BY <1>3 DEF Fails, PrepareFails, preinst_fails, backup_fails, clash_found, Unwind, Fail
<1>4. CASE Removed \/ sigint_handler \/ Crash
  BY <1>4 DEF Removed, sigint_handler, Crash
<1>5. CASE (\E ok \in BOOLEAN : opkg_configure(ok)) \/ ConfigureDone \/ write_status_files
           \/ nothing_to_be_done \/ pkg_write_changed_filelists
  BY <1>1, <1>5 DEF opkg_configure, ConfigureDone, write_status_files, nothing_to_be_done,
     pkg_write_changed_filelists
<1>. QED  BY <1>2, <1>3, <1>4, <1>5 DEF Outside

LEMMA Actions ==
  ASSUME [Next]_vars
  PROVE  \/ UNCHANGED vars \/ Outside \/ Steps
         \/ \E n \in Names : opkg_install_cmd(n) \/ opkg_remove_cmd(n)
         \/ Prepare \/ satisfy_dependencies_for \/ Enter \/ pkg_write_filelist \/ Finish
         \/ \E kept \in SUBSET ConfFile : resolve_conffiles(kept)
BY DEF Next, Outside, Steps, Fails

LEMMA NextCalls == ASSUME EditInv, [Next]_vars PROVE Calls'
<1>1. CASE UNCHANGED vars
  BY <1>1 DEF EditInv, Calls, Trusted, vars
<1>2. CASE Outside
  BY <1>2, OutsideEnds, EmptyCalls DEF EditInv, Versions
<1>3. ASSUME NEW n \in Names, opkg_install_cmd(n) \/ opkg_remove_cmd(n) PROVE Calls'
  BY <1>3, InstallCalls, RemoveCalls
<1>4. ASSUME NEW kept, resolve_conffiles(kept) PROVE Calls'
  BY <1>4, ResolveCalls
<1>. QED  BY <1>1, <1>2, <1>3, <1>4, StepCalls, PrepareCalls, SatisfyCalls, EnterCalls, ListCalls,
             FinishCalls, Actions
-----------------------------------------------------------------------------
(* The lists and the owners. *)

LEMMA CheckOwner ==
  ASSUME NEW d \in Sums, NEW l, preinstall_check(d, l), NEW f \in File, owner'[f] \in Pkgs
  PROVE  d.st[owner'[f]] # "not" /\ f \in l[Name[owner'[f]]]
<1>. DEFINE Claims(g) == {i \in 1..Len(Order) : Installed(Order[i], d) /\ g \in l[Name[Order[i]]]}
<1>1. owner' = [g \in File |-> IF Claims(g) = {} THEN None
                               ELSE Order[CHOOSE i \in Claims(g) : \A j \in Claims(g) : j <= i]]
  BY DEF preinstall_check
<1>2. owner'[f] = IF Claims(f) = {} THEN None
                  ELSE Order[CHOOSE i \in Claims(f) : \A j \in Claims(f) : j <= i]
  BY <1>1
<1>3. Claims(f) # {}
  BY <1>2, Constants
<1>4. PICK C : C = Claims(f)
  OBVIOUS
<1>5. C \subseteq 1..Len(Order) /\ C # {} /\ \A i \in C : Installed(Order[i], d) /\ f \in l[Name[Order[i]]]
  BY <1>3, <1>4
<1>6. owner'[f] = Order[CHOOSE i \in C : \A j \in C : j <= i]
  BY <1>2, <1>3, <1>4
<1>. HIDE DEF Claims
<1>7. \E i \in C : \A j \in C : j <= i
  BY <1>5, OrderFacts, Greatest
<1>8. PICK k : k = CHOOSE i \in C : \A j \in C : j <= i
  OBVIOUS
<1>9. k \in C
  BY <1>7, <1>8
<1>10. owner'[f] = Order[k] /\ Installed(Order[k], d) /\ f \in l[Name[Order[k]]]
  BY <1>5, <1>6, <1>8, <1>9
<1>. QED  BY <1>10, InstalledIs

(* A process that has read a database whose packages list their own conffiles. *)
LEMMA ReadLists ==
  ASSUME Types, preinstall_check(db, list'), db' = db, pc' = "idle", torn \subseteq torn',
         \A p \in Pkgs : db.st[p] # "not" => Lists(p, list', Trusted')
  PROVE  MemLists' /\ DbLists' /\ Owners(owner', Trusted')
<1>1. db \in Sums /\ mem' = db
  BY DEF Types, preinstall_check
<1>2. MemLists'
  BY <1>1 DEF MemLists
<1>3. DbLists'
  BY DEF DbLists
<1>4. ASSUME NEW f \in Trusted', owner'[f] \in Pkgs PROVE f \in Conf[owner'[f]]
  <2>1. f \in File
    BY Constants DEF Trusted
  <2>2. db.st[owner'[f]] # "not" /\ f \in list'[Name[owner'[f]]]
    BY <1>1, <1>4, <2>1, CheckOwner
  <2>. QED  BY <1>4, <2>2 DEF Lists
<1>5. Owners(owner', Trusted')
  BY <1>4 DEF Owners
<1>. QED  BY <1>2, <1>3, <1>5

LEMMA NothingLists ==
  ASSUME EditInv, nothing_to_be_done, [Next]_vars PROVE MemLists' /\ DbLists' /\ Owners(owner', Trusted')
<1>1. Types /\ preinstall_check(db, list) /\ list' = list /\ db' = db /\ pc' = "idle" /\ torn' = torn
  BY DEF EditInv, Versions, nothing_to_be_done, disk
<1>2. dirty = FALSE
  BY <1>1 DEF nothing_to_be_done, Types, OwnerTypes
<1>3. Trusted' = Trusted
  BY <1>1 DEF Trusted
<1>4. \A p \in Pkgs : db.st[p] # "not" => Lists(p, list', Trusted')
  BY <1>1, <1>2, <1>3 DEF EditInv, DbLists
<1>5. preinstall_check(db, list')
  BY <1>1
<1>. QED  BY <1>1, <1>4, <1>5, ReadLists

LEMMA CrashLists ==
  ASSUME EditInv, Crash, [Next]_vars PROVE MemLists' /\ DbLists' /\ Owners(owner', Trusted')
<1>1. /\ Types /\ preinstall_check(db, list) /\ list' = list /\ db' = db /\ pc' = "idle" /\ db \in Sums
      /\ torn' = torn \cup {f \in ConfFile : backup[f] # None}
                      \cup {f \in ConfFile : \E p \in Pkgs : Installed(p, db) /\ f \in list[Name[p]] \ Conf[p]}
  BY DEF EditInv, Versions, Crash, disk, Types
<1>2. ASSUME NEW p \in Pkgs, db.st[p] # "not" PROVE Lists(p, list', Trusted')
  <2>1. Installed(p, db)
    BY <1>1, <1>2, InstalledIs
  <2>2. \A f \in Trusted' : f \in list[Name[p]] => f \in Conf[p]
    BY <1>1, <2>1 DEF Trusted
  <2>. QED  BY <1>1, <2>2 DEF Lists
<1>3. preinstall_check(db, list') /\ torn \subseteq torn'
  BY <1>1
<1>. QED  BY <1>1, <1>2, <1>3, ReadLists

LEMMA ChangedLists ==
  ASSUME EditInv, pkg_write_changed_filelists, [Next]_vars
  PROVE  MemLists' /\ DbLists' /\ Owners(owner', Trusted')
<1>. DEFINE Of(n) == {p \in changed : Name[p] = n /\ Installed(p, mem)}
<1>1. /\ Types /\ pc = "lists" /\ preinstall_check(db, list') /\ db' = db /\ pc' = "idle" /\ torn' = torn
      /\ list' = [n \in Names |-> IF Of(n) = {} THEN list[n] ELSE {f \in File : owner[f] \in Of(n)}]
  BY DEF EditInv, Versions, pkg_write_changed_filelists
<1>2. db.st = mem.st /\ Single(mem.st) /\ Owners(owner, Trusted) /\ mem \in Sums /\ changed \subseteq Pkgs
  BY <1>1 DEF EditInv, DbLists, Versions, Types, OwnerTypes
<1>3. Trusted' = Trusted /\ Trusted \subseteq File
  BY <1>1, Constants DEF Trusted
<1>4. ASSUME NEW p \in Pkgs, db.st[p] # "not" PROVE Lists(p, list', Trusted')
  <2>1. Name[p] \in Names /\ mem.st[p] # "not" /\ Installed(p, mem)
    BY <1>2, <1>4, Constants, InstalledIs
  <2>2. Of(Name[p]) \subseteq {p}
    <3>. SUFFICES ASSUME NEW q \in Of(Name[p]) PROVE q = p
      OBVIOUS
    <3>1. q \in Pkgs /\ Name[q] = Name[p] /\ Installed(q, mem)
      BY <1>2
    <3>2. mem.st[q] # "not"
      BY <1>2, <3>1, InstalledIs
    <3>. QED  BY <1>2, <2>1, <3>1, <3>2 DEF Single
  <2>3. CASE p \in changed
    <3>1. Of(Name[p]) = {p}
      BY <2>1, <2>2, <2>3
    <3>2. list'[Name[p]] = {f \in File : owner[f] \in {p}}
      BY <1>1, <2>1, <3>1
    <3>. QED  BY <1>2, <1>3, <3>2 DEF Lists, Owners
  <2>4. CASE p \notin changed
    <3>1. Of(Name[p]) = {}
      BY <2>2, <2>4
    <3>2. list'[Name[p]] = list[Name[p]]
      BY <1>1, <2>1, <3>1
    <3>3. Lists(p, list, Trusted)
      BY <1>1, <2>1, <2>4 DEF EditInv, MemLists, Relisted, ToWrite
    <3>. QED  BY <1>3, <3>2, <3>3 DEF Lists
  <2>. QED  BY <2>3, <2>4
<1>. HIDE DEF Of
<1>. QED  BY <1>1, <1>4, ReadLists
LEMMA MoveLast ==
  ASSUME Types, NEW x, Moves(x) PROVE stack'[Len(stack')].pkg = stack[Len(stack)].pkg
<1>1. pc = "pkg" /\ x.pkg = Top.pkg
  BY DEF Moves
<1>2. Len(stack) \in {1, 2} /\ Top = stack[1]
  BY <1>1, TopFacts
<1>3. Len(stack') = Len(stack) /\ stack'[1] = x /\ \A i \in 2..Len(stack) : stack'[i] = stack[i]
  BY MoveFacts
<1>4. CASE Len(stack) = 1
  BY <1>1, <1>2, <1>3, <1>4
<1>5. CASE Len(stack) = 2
  BY <1>3, <1>5
<1>. QED  BY <1>2, <1>4, <1>5

(* A step that installs nothing and writes no list but one that is Relisted. *)
LEMMA KeepLists ==
  ASSUME EditInv, Trusted' \subseteq Trusted, Fewer(mem'.st, mem.st),
         \A p \in Pkgs : list'[Name[p]] \subseteq list[Name[p]] \/ Relisted(p)',
         \A p \in Pkgs : mem'.st[p] # "not" /\ Relisted(p) => Relisted(p)',
         \A p \in Pkgs : ToWrite(p) => ToWrite(p)' \/ Relisted(p)'
  PROVE  MemLists'
<1>. SUFFICES ASSUME NEW p \in Pkgs, mem'.st[p] # "not"
              PROVE  Lists(p, list', Trusted') \/ Relisted(p)' \/ ToWrite(p)'
  BY DEF MemLists
<1>1. mem.st[p] # "not"
  BY DEF Fewer
<1>2. Lists(p, list, Trusted) \/ Relisted(p) \/ ToWrite(p)
  BY <1>1 DEF EditInv, MemLists
<1>3. CASE Lists(p, list, Trusted)
  <2>1. CASE list'[Name[p]] \subseteq list[Name[p]]
    BY <1>3, <2>1, ListsShrink
  <2>. QED  BY <2>1
<1>. QED  BY <1>2, <1>3

(* A step of the top call, before a list is written. *)
LEMMA MoveLists ==
  ASSUME EditInv, [Next]_vars, NEW x, Moves(x), Top.pc \notin Late, Fewer(mem'.st, mem.st),
         changed \subseteq changed', \A n \in Names : list'[n] \subseteq list[n]
  PROVE  MemLists'
<1>1. Types /\ Trusted' \subseteq Trusted /\ pc = "pkg" /\ pc' = "pkg"
  BY TrustShrinks DEF EditInv, Versions, Moves
<1>2. stack'[Len(stack')].pkg = stack[Len(stack)].pkg /\ Top = stack[1]
  BY <1>1, MoveLast, TopFacts
<1>3. \A p \in Pkgs : ~Relisted(p)
  BY <1>2 DEF Relisted
<1>4. \A p \in Pkgs : ToWrite(p) => ToWrite(p)'
  BY <1>1, <1>2 DEF ToWrite
<1>5. \A p \in Pkgs : list'[Name[p]] \subseteq list[Name[p]]
  BY Constants
<1>. QED  BY <1>1, <1>3, <1>4, <1>5, KeepLists

(* A step that ends the calls. *)
LEMMA EndLists ==
  ASSUME EditInv, [Next]_vars, Fewer(mem'.st, mem.st), changed' = changed, list' = list,
         pc # "idle", pc' \in {"configure", "status", "lists"}, pc = "pkg" => Top.pc \notin Late
  PROVE  MemLists'
<1>1. Types /\ Trusted' \subseteq Trusted
  BY TrustShrinks DEF EditInv, Versions
<1>2. \A p \in Pkgs : ~Relisted(p)
  <2>1. pc = "pkg" => Top = stack[1]
    BY <1>1, TopFacts
  <2>. QED  BY <2>1 DEF Relisted
<1>3. \A p \in Pkgs : ToWrite(p) => ToWrite(p)'
  BY DEF ToWrite
<1>4. \A p \in Pkgs : list'[Name[p]] \subseteq list[Name[p]]
  OBVIOUS
<1>. QED  BY <1>1, <1>2, <1>3, <1>4, KeepLists

LEMMA BeginLists ==
  ASSUME EditInv, [Next]_vars, pc = "idle", mem'.st = mem.st, list' = list PROVE MemLists'
<1>1. Types /\ Trusted' \subseteq Trusted /\ Fewer(mem'.st, mem.st)
  BY TrustShrinks, SameState DEF EditInv, Versions
<1>2. \A p \in Pkgs : ~Relisted(p) /\ ~ToWrite(p)
  BY DEF Relisted, ToWrite
<1>3. \A p \in Pkgs : list'[Name[p]] \subseteq list[Name[p]]
  OBVIOUS
<1>. QED  BY <1>1, <1>2, <1>3, KeepLists

LEMMA WriteLists == ASSUME EditInv, pkg_write_filelist, [Next]_vars PROVE MemLists'
<1>0. /\ pc = "pkg" /\ Top.pc = "list" /\ Goto("resolve") /\ pc' = pc /\ mem' = mem
      /\ changed' = changed \ {Top.pkg}
      /\ list' = [list EXCEPT ![Name[Top.pkg]] = {f \in File : owner[f] = Top.pkg}]
  BY DEF pkg_write_filelist, At
<1>1. Types /\ Trusted' \subseteq Trusted /\ Fewer(mem'.st, mem.st)
  BY <1>0, TrustShrinks, SameState DEF EditInv, Versions
<1>2. Top.pkg \in Pkgs /\ Top = stack[1] /\ list \in [Names -> SUBSET File]
  BY <1>0, <1>1, TopFacts DEF Types, DiskTypes
<1>3. PICK x : Moves(x) /\ x.pc = "resolve"
  <2>1. "list" \in InstallPcs /\ "resolve" \in InstallPcs
    BY DEF InstallPcs
  <2>. QED  BY <1>0, <1>1, <2>1, GotoFacts
<1>4. x.pkg = Top.pkg /\ stack'[1] = x /\ stack'[Len(stack')].pkg = stack[Len(stack)].pkg /\ pc' = "pkg"
  BY <1>1, <1>3, MoveFacts, MoveLast DEF Moves
<1>5. \A p \in Pkgs : Name[p] = Name[Top.pkg] => Relisted(p)'
  BY <1>3, <1>4 DEF Relisted, Late
<1>6. ASSUME NEW p \in Pkgs, Name[p] # Name[Top.pkg] PROVE list'[Name[p]] = list[Name[p]]
  BY <1>0, <1>2, <1>6, Constants
<1>7. \A p \in Pkgs : list'[Name[p]] \subseteq list[Name[p]] \/ Relisted(p)'
  BY <1>5, <1>6
<1>8. \A p \in Pkgs : ~Relisted(p)
  BY <1>0, <1>2 DEF Relisted, Late
<1>9. \A p \in Pkgs : ToWrite(p) => ToWrite(p)' \/ Relisted(p)'
  <2>1. ASSUME NEW p \in Pkgs, ToWrite(p), p # Top.pkg PROVE ToWrite(p)'
    BY <1>0, <1>4, <2>1 DEF ToWrite
  <2>. QED  BY <1>5, <2>1
<1>. QED  BY <1>1, <1>7, <1>8, <1>9, KeepLists

LEMMA ResolveLists == ASSUME EditInv, NEW kept, resolve_conffiles(kept), [Next]_vars PROVE MemLists'
<1>0. /\ pc = "pkg" /\ Top.pc = "resolve" /\ Goto("finish") /\ pc' = pc /\ list' = list /\ changed' = changed
  BY DEF resolve_conffiles, At
<1>1. Types /\ Trusted' \subseteq Trusted /\ mem'.st = mem.st
  BY TrustShrinks, ResolveMem DEF EditInv, Versions
<1>2. Fewer(mem'.st, mem.st) /\ Top = stack[1]
  BY <1>0, <1>1, TopFacts, SameState
<1>3. PICK x : Moves(x) /\ x.pc = "finish"
  <2>1. "finish" \in InstallPcs /\ "resolve" \in InstallPcs
    BY DEF InstallPcs
  <2>. QED  BY <1>0, <1>1, <2>1, GotoFacts
<1>4. x.pkg = Top.pkg /\ stack'[1] = x /\ stack'[Len(stack')].pkg = stack[Len(stack)].pkg /\ pc' = "pkg"
  BY <1>1, <1>3, MoveFacts, MoveLast DEF Moves
<1>5. \A p \in Pkgs : Relisted(p) => Relisted(p)'
  BY <1>2, <1>3, <1>4 DEF Relisted, Late
<1>6. \A p \in Pkgs : ToWrite(p) => ToWrite(p)'
  BY <1>0, <1>4 DEF ToWrite
<1>7. \A p \in Pkgs : list'[Name[p]] \subseteq list[Name[p]]
  BY <1>0
<1>. QED  BY <1>1, <1>2, <1>5, <1>6, <1>7, KeepLists

LEMMA FinishLists == ASSUME EditInv, Finish, [Next]_vars PROVE MemLists'
<1>0. /\ pc = "pkg" /\ Top.pc = "finish" /\ stack' = Tail(stack) /\ list' = list /\ changed' = changed
      /\ pc' = (IF Len(stack) = 1 THEN "configure" ELSE "pkg")
  BY DEF Finish, At, disk
<1>1. /\ Types /\ CallOK(Top, mem, changed, list, dirty, Trusted) /\ Top.pkg \in Pkgs /\ Len(stack) \in {1, 2}
      /\ Top = stack[1]
  BY <1>0, TopCall
<1>2. Trusted' \subseteq Trusted /\ stack \in Seq(Call) /\ stack # <<>>
  BY <1>0, <1>1, TrustShrinks, TopFacts
<1>3. /\ Len(stack') = Len(stack) - 1 /\ Len(stack') \in Nat
      /\ \A i \in 1..Len(stack') : stack'[i] = stack[i + 1]
  BY <1>0, <1>2, TailFacts
<1>4. mem'.st = [p \in Pkgs |-> IF p = Top.pkg THEN "unpacked" ELSE IF p = Top.old THEN "not" ELSE mem.st[p]]
  BY <1>1, FinishMem
<1>5. ASSUME Len(stack) = 2
      PROVE  pc' = "pkg" /\ stack'[Len(stack')] = stack[Len(stack)] /\ Name[Top.pkg] \in Deps[stack'[Len(stack')].pkg]
  <2>1. Len(stack') = 1 /\ stack'[1] = stack[2]
    BY <1>3, <1>5
  <2>2. Name[stack[1].pkg] \in Deps[stack[2].pkg]
    BY <1>1, <1>5, SecondWaits
  <2>3. pc' = "pkg"
    BY <1>0, <1>5
  <2>4. stack'[Len(stack')] = stack[2] /\ stack[Len(stack)] = stack[2]
    BY <1>5, <2>1
  <2>. QED  BY <1>1, <2>2, <2>3, <2>4
<1>6. \A p \in Pkgs : ToWrite(p) => ToWrite(p)'
  BY <1>0, <1>1, <1>5 DEF ToWrite
<1>7. ASSUME NEW p \in Pkgs, mem'.st[p] # "not" PROVE Lists(p, list', Trusted') \/ ToWrite(p)'
  <2>1. CASE p = Top.pkg
    <3>1. Lists(p, list, Trusted) \/ p \in changed
      BY <1>0, <1>1, <2>1 DEF CallOK, Late
    <3>2. p \in changed => ToWrite(p)'
      BY <1>0, <1>1, <1>5, <2>1 DEF ToWrite
    <3>3. Lists(p, list, Trusted) => Lists(p, list', Trusted')
      BY <1>0, <1>2, ListsShrink
    <3>. QED  BY <3>1, <3>2, <3>3
  <2>2. CASE p # Top.pkg
    <3>1. p # Top.old /\ mem.st[p] # "not"
      BY <1>4, <1>7, <2>2
    <3>2. Old(stack[1], mem.st)
      BY <1>0, <1>1 DEF EditInv, Versions, Olds, InstallPcs
    <3>3. Name[p] # Name[Top.pkg]
      BY <1>1, <3>1, <3>2 DEF Old
    <3>4. Lists(p, list, Trusted) \/ ToWrite(p)
      BY <1>1, <3>1, <3>3 DEF EditInv, MemLists, Relisted
    <3>5. Lists(p, list, Trusted) => Lists(p, list', Trusted')
      BY <1>0, <1>2, ListsShrink
    <3>. QED  BY <1>6, <3>4, <3>5
  <2>. QED  BY <2>1, <2>2
<1>. QED  BY <1>7 DEF MemLists
LEMMA SatisfyLists == ASSUME EditInv, satisfy_dependencies_for, [Next]_vars PROVE MemLists'
<1>0. /\ pc = "pkg" /\ Top.pc = "deps" /\ pc' = pc /\ list' = list /\ changed' = changed
  BY DEF satisfy_dependencies_for, At, disk
<1>1. Types /\ Types' /\ Trusted' \subseteq Trusted /\ mem'.st = mem.st
  BY NextTypes, TrustShrinks, SatisfyMem DEF EditInv, Versions
<1>2. Fewer(mem'.st, mem.st) /\ Top = stack[1]
  BY <1>0, <1>1, TopFacts, SameState
<1>3. stack'[Len(stack')] = stack[Len(stack)]
  BY <1>1, SatisfyPush
<1>4. \A p \in Pkgs : ~Relisted(p)
  BY <1>0, <1>2 DEF Relisted, Late
<1>5. \A p \in Pkgs : ToWrite(p) => ToWrite(p)'
  BY <1>0, <1>3 DEF ToWrite
<1>6. \A p \in Pkgs : list'[Name[p]] \subseteq list[Name[p]]
  BY <1>0
<1>. QED  BY <1>1, <1>2, <1>4, <1>5, <1>6, KeepLists

(* Every step of a call but the ones above moves it on. *)
LEMMA StepMoves ==
  ASSUME Types, Steps \/ Prepare \/ Enter
  PROVE  /\ pc = "pkg" /\ Top.pc \notin Late
         /\ \E x : Moves(x)
<1>1. pc = "pkg" /\ pc' = pc
  BY DEF Steps, At, preinst_configure, backup_modified_conffiles, check_data_file_clashes, remove_old_files,
     remove_old_list, Extract, remove_data_files, remove_list, Prepare, Enter
<1>2. CASE check_data_file_clashes
  <2>1. Top.pc \notin Late
    BY <1>2 DEF check_data_file_clashes, At, Late
  <2>. QED  BY <1>1, <1>2, <2>1, ClashesMoves
<1>3. ASSUME NEW S, Extract(S) PROVE pc = "pkg" /\ Top.pc \notin Late /\ \E x : Moves(x)
  <2>1. Top.pc \notin Late
    BY <1>3 DEF Extract, At, Late
  <2>. QED  BY <1>1, <1>3, <2>1, ExtractMoves
<1>4. CASE preinst_configure \/ backup_modified_conffiles \/ remove_old_files \/ remove_old_list \/ Prepare \/ Enter
  <2>1. /\ Top.pc \in {"preinst", "backup", "erase", "unlist", "prepare", "deps"}
        /\ \E w \in {"backup", "clashes", "unlist", "extract", "deps", "preinst"} : Goto(w)
    BY <1>4 DEF At, preinst_configure, backup_modified_conffiles, remove_old_files, remove_old_list, Prepare,
       Enter, pkg_remove_orphan_dependent
  <2>2. Top.pc \in InstallPcs /\ Top.pc \notin Late /\ \E w \in InstallPcs : Goto(w)
    BY <2>1 DEF InstallPcs, Late
  <2>3. PICK w \in InstallPcs : Goto(w)
    BY <2>2
  <2>4. \E x : Moves(x) /\ x.pc = w /\ x.marks = Top.marks
    BY <1>1, <2>2, <2>3, GotoFacts
  <2>. QED  BY <1>1, <2>2, <2>4
<1>5. CASE remove_data_files \/ remove_list
  <2>1. Top.pc \in {"rm_files", "rm_list"} /\ \E w \in {"rm_list", "rm_done"} : Goto(w)
    BY <1>5 DEF At, remove_data_files, remove_list
  <2>2. Top.pc \in RemovePcs /\ Top.pc \notin Late /\ \E w \in RemovePcs : Goto(w)
    BY <2>1 DEF RemovePcs, Late
  <2>3. PICK w \in RemovePcs : Goto(w)
    BY <2>2
  <2>4. RemovePcs \cap InstallPcs = {}
    BY DEF RemovePcs, InstallPcs
  <2>5. \E x : Moves(x) /\ x.pc = w /\ x.marks = Top.marks
    BY <1>1, <2>2, <2>3, <2>4, GotoFacts
  <2>. QED  BY <1>1, <2>2, <2>5
<1>. QED  BY <1>2, <1>3, <1>4, <1>5 DEF Steps

LEMMA StepLists == ASSUME EditInv, [Next]_vars, Steps \/ Prepare \/ Enter PROVE MemLists'
<1>1. Types /\ list \in [Names -> SUBSET File]
  BY DEF EditInv, Versions, Types, DiskTypes
<1>2. pc = "pkg" /\ Top.pc \notin Late /\ \E x : Moves(x)
  BY <1>1, StepMoves
<1>3. CASE Steps
  <2>1. mem' = mem /\ changed' = changed
    BY <1>3 DEF Steps, preinst_configure, backup_modified_conffiles, check_data_file_clashes, remove_old_files,
       remove_old_list, Extract, remove_data_files, remove_list, memory
  <2>2. \/ list' = list
        \/ \E n : list' = [list EXCEPT ![n] = {}]
    BY <1>3 DEF Steps, preinst_configure, backup_modified_conffiles, check_data_file_clashes, remove_old_files,
       remove_old_list, Extract, remove_data_files, remove_list, disk
  <2>3. \A n \in Names : list'[n] \subseteq list[n]
    BY <1>1, <2>2
  <2>4. Fewer(mem'.st, mem.st)
    BY <2>1, SameState
  <2>. QED  BY <1>2, <2>1, <2>3, <2>4, MoveLists
<1>4. CASE Prepare
  <2>1. mem'.st = mem.st /\ list' = list
    BY <1>1, <1>4, PrepareMem DEF Prepare, disk
  <2>2. Fewer(mem'.st, mem.st)
    BY <2>1, SameState
  <2>3. changed \subseteq changed'
    BY <1>4 DEF Prepare, update_file_ownership
  <2>4. \A n \in Names : list'[n] \subseteq list[n]
    BY <2>1
  <2>. QED  BY <1>2, <2>2, <2>3, <2>4, MoveLists
<1>5. CASE Enter
  <2>1. mem'.st = [p \in Pkgs |-> IF p \in Orphans THEN "not" ELSE mem.st[p]]
    BY <1>1, <1>5, EnterMem
  <2>2. Fewer(mem'.st, mem.st)
    BY <2>1 DEF Fewer
  <2>3. /\ changed \subseteq changed'
        /\ \E names : list' = [n \in Names |-> IF n \in names THEN {} ELSE list[n]]
    BY <1>5 DEF Enter, pkg_remove_orphan_dependent
  <2>4. \A n \in Names : list'[n] \subseteq list[n]
    BY <2>3
  <2>. QED  BY <1>2, <2>2, <2>3, <2>4, MoveLists
<1>. QED  BY <1>3, <1>4, <1>5
(* The steps outside of the calls that do not read the database. *)
LEMMA OutsideLists ==
  ASSUME EditInv, [Next]_vars, Outside, ~(nothing_to_be_done \/ pkg_write_changed_filelists \/ Crash)
  PROVE  MemLists'
<1>0. Types /\ MemLists
  BY DEF EditInv, Versions
<1>1. CASE (\E f \in ConfFile, e \in Edits : Edit(f, e)) \/ opkg_update
  <2>1. pc = "idle" /\ mem' = mem /\ list' = list
    BY <1>1 DEF Edit, opkg_update, memory, disk
  <2>. QED  BY <2>1, BeginLists
<1>2. ASSUME NEW S, Unwind(S), pc = "pkg", S \subseteq ConfFile, Top.pc \notin Late PROVE MemLists'
  <2>1. mem'.st = mem.st
    BY <1>0, <1>2, UnwindTypes
  <2>2. Fewer(mem'.st, mem.st)
    BY <2>1, SameState
  <2>3. changed' = changed /\ list' = list /\ pc' = "configure"
    BY <1>2 DEF Unwind, Fail
  <2>. QED  BY <1>2, <2>2, <2>3, EndLists
<1>3. CASE preinst_fails \/ backup_fails \/ clash_found
  <2>1. pc = "pkg" /\ Top.pc \in {"preinst", "backup", "clashes"} /\ \E S \in {{}, OldConf \cup NewConf} : Unwind(S)
    BY <1>3 DEF preinst_fails, backup_fails, clash_found, At
  <2>2. {} \subseteq ConfFile /\ OldConf \cup NewConf \subseteq ConfFile /\ Top.pc \notin Late
    BY <1>0, <2>1, ConfFacts DEF Late
  <2>. QED  BY <1>2, <2>1, <2>2
<1>4. CASE PrepareFails
  <2>1. mem'.st = mem.st
    BY <1>0, <1>4, PrepareFailsTypes
  <2>2. Fewer(mem'.st, mem.st)
    BY <2>1, SameState
  <2>3. pc = "pkg" /\ Top.pc \notin Late /\ changed' = changed /\ list' = list /\ pc' = "configure"
    BY <1>4 DEF PrepareFails, At, Late, disk, Fail
  <2>. QED  BY <2>2, <2>3, EndLists
<1>5. CASE Removed
  <2>1. mem'.st = [mem.st EXCEPT ![Top.pkg] = "not"] /\ mem.st \in State
    BY <1>0, <1>5, RemovedTypes, MemFacts
  <2>2. Fewer(mem'.st, mem.st)
    BY <2>1 DEF Fewer, State
  <2>3. pc = "pkg" /\ Top.pc \notin Late /\ changed' = changed /\ list' = list /\ pc' = "status"
    BY <1>5 DEF Removed, At, Late, disk
  <2>. QED  BY <2>2, <2>3, EndLists
<1>6. ASSUME NEW ok \in BOOLEAN, opkg_configure(ok) PROVE MemLists'
  <2>1. PICK p \in Pkgs : mem.st[p] = "unpacked" /\ mem'.st \in {mem.st, [mem.st EXCEPT ![p] = "installed"]}
    BY <1>0, <1>6, ConfigureMem
  <2>2. mem.st \in State
    BY <1>0, MemFacts
  <2>3. Fewer(mem'.st, mem.st)
    BY <2>1, <2>2 DEF Fewer, State
  <2>4. pc = "configure" /\ changed' = changed /\ list' = list /\ pc' = pc
    BY <1>6 DEF opkg_configure, disk
  <2>. QED  BY <2>3, <2>4, EndLists
<1>7. CASE ConfigureDone \/ write_status_files \/ sigint_handler
  <2>1. /\ pc \in {"configure", "status", "pkg"} /\ pc' \in {"status", "lists"} /\ mem' = mem /\ changed' = changed
        /\ list' = list
        /\ pc = "pkg" => Top.pc \notin Late
    BY <1>7 DEF ConfigureDone, write_status_files, sigint_handler, memory, disk, Late
  <2>2. Fewer(mem'.st, mem.st)
    BY <2>1, SameState
  <2>. QED  BY <2>1, <2>2, EndLists
<1>. QED  BY <1>1, <1>3, <1>4, <1>5, <1>6, <1>7 DEF Outside, Fails

LEMMA NextMemLists == ASSUME EditInv, [Next]_vars PROVE MemLists'
<1>1. CASE UNCHANGED vars
  BY <1>1 DEF EditInv, MemLists, Trusted, Relisted, ToWrite, vars
<1>2. CASE Outside
  BY <1>2, OutsideLists, NothingLists, CrashLists, ChangedLists
<1>3. ASSUME NEW n \in Names, opkg_install_cmd(n) \/ opkg_remove_cmd(n) PROVE MemLists'
  <2>1. Types
    BY DEF EditInv, Versions
  <2>2. pc = "idle" /\ list' = list
    BY <1>3 DEF opkg_install_cmd, opkg_remove_cmd, disk
  <2>3. mem'.st = mem.st
    BY <1>3, <2>1, RemoveTypes DEF opkg_install_cmd, memory
  <2>. QED  BY <2>2, <2>3, BeginLists
<1>4. ASSUME NEW kept, resolve_conffiles(kept) PROVE MemLists'
  BY <1>4, ResolveLists
<1>. QED  BY <1>1, <1>2, <1>3, <1>4, StepLists, SatisfyLists, WriteLists, FinishLists, Actions

LEMMA NextDbLists == ASSUME EditInv, [Next]_vars PROVE DbLists'
<1>0. Types /\ DbLists /\ Trusted' \subseteq Trusted
  BY TrustShrinks DEF EditInv, Versions
<1>1. ASSUME list' = list, db' = db, dirty' = FALSE => dirty = FALSE, pc' = "lists" => pc = "lists" /\ mem' = mem
      PROVE  DbLists'
  <2>1. \A p \in Pkgs : Lists(p, list, Trusted) => Lists(p, list', Trusted')
    BY <1>0, <1>1, ListsShrink
  <2>. QED  BY <1>0, <1>1, <2>1 DEF DbLists
<1>2. ASSUME dirty' = TRUE, pc' # "lists" PROVE DbLists'
  BY <1>2 DEF DbLists
<1>3. CASE UNCHANGED vars
  BY <1>1, <1>3 DEF vars
<1>4. CASE \/ (\E f \in ConfFile, e \in Edits : Edit(f, e)) \/ opkg_update
           \/ \E n \in Names : opkg_install_cmd(n) \/ opkg_remove_cmd(n)
  BY <1>1, <1>4 DEF Edit, opkg_update, opkg_install_cmd, opkg_remove_cmd, memory, disk
<1>5. CASE Fails
  BY <1>1, <1>5 DEF Fails, PrepareFails, preinst_fails, backup_fails, clash_found, Unwind, Fail, disk
<1>6. CASE Removed \/ sigint_handler \/ ConfigureDone \/ \E ok \in BOOLEAN : opkg_configure(ok)
  <2>1. list' = list /\ db' = db /\ pc' # "lists"
    BY <1>6 DEF Removed, sigint_handler, ConfigureDone, opkg_configure, disk
  <2>2. dirty' = dirty \/ \E ok \in BOOLEAN : dirty' = (dirty \/ ok)
    BY <1>6 DEF Removed, sigint_handler, ConfigureDone, opkg_configure, memory
  <2>3. dirty \in BOOLEAN
    BY <1>0 DEF Types, OwnerTypes
  <2>4. dirty' = FALSE => dirty = FALSE
    BY <2>2, <2>3
  <2>. QED  BY <1>1, <2>1, <2>4
<1>7. CASE write_status_files
  <2>1. mem' = mem /\ db'.st = mem.st /\ dirty' = dirty /\ dirty = TRUE
    BY <1>0, <1>7, StatusTypes DEF write_status_files, memory, Types, OwnerTypes
  <2>. QED  BY <2>1 DEF DbLists
<1>8. CASE nothing_to_be_done \/ pkg_write_changed_filelists \/ Crash
  BY <1>8, NothingLists, CrashLists, ChangedLists
<1>9. CASE Prepare \/ satisfy_dependencies_for \/ Finish \/ \E kept \in SUBSET ConfFile : resolve_conffiles(kept)
  <2>1. list' = list /\ db' = db /\ dirty' = dirty /\ pc' # "lists"
    BY <1>9 DEF Prepare, satisfy_dependencies_for, Finish, resolve_conffiles, At, disk
  <2>. QED  BY <1>1, <2>1
<1>10. CASE Enter
  BY <1>2, <1>10 DEF Enter, At
<1>11. CASE preinst_configure \/ backup_modified_conffiles \/ check_data_file_clashes \/ remove_old_files
            \/ (\E S \in SUBSET Files[Top.pkg] : Extract(S)) \/ remove_data_files
  <2>1. list' = list /\ db' = db /\ dirty' = dirty /\ pc' # "lists"
    BY <1>11 DEF preinst_configure, backup_modified_conffiles, check_data_file_clashes, remove_old_files,
       Extract, remove_data_files, At, disk, memory
  <2>. QED  BY <1>1, <2>1
<1>12. CASE remove_old_list \/ pkg_write_filelist \/ remove_list
  <2>1. pc = "pkg" /\ pc' = pc /\ Top.pc \in {"unlist", "list", "rm_list"} /\ dirty' = dirty
    BY <1>12 DEF remove_old_list, pkg_write_filelist, remove_list, At, memory
  <2>2. CallOK(Top, mem, changed, list, dirty, Trusted)
    BY <2>1, TopCall
  <2>3. dirty = TRUE
    BY <2>1, <2>2 DEF CallOK, Entered, RemovePcs
  <2>. QED  BY <1>2, <2>1, <2>3
<1>. QED  BY <1>3, <1>4, <1>5, <1>6, <1>7, <1>8, <1>9, <1>10, <1>11, <1>12, Actions DEF Outside, Steps

LEMMA NextOwners == ASSUME EditInv, [Next]_vars PROVE Owners(owner', Trusted')
<1>0. Types /\ Owners(owner, Trusted) /\ Trusted' \subseteq Trusted
  BY TrustShrinks DEF EditInv, Versions
<1>1. CASE owner' = owner
  BY <1>0, <1>1, OwnersShrink
<1>2. CASE nothing_to_be_done \/ pkg_write_changed_filelists \/ Crash
  BY <1>2, NothingLists, CrashLists, ChangedLists
<1>3. CASE Prepare
  <2>1. PICK moved : /\ moved \subseteq Files[Top.pkg]
                     /\ owner' = [f \in File |-> IF f \in moved THEN Top.pkg ELSE owner[f]]
    BY <1>3 DEF Prepare, update_file_ownership
  <2>2. Top.pkg \in Pkgs
    BY <1>0, <1>3, TopFacts DEF Prepare, At
  <2>3. ASSUME NEW f \in Trusted', owner'[f] \in Pkgs PROVE f \in Conf[owner'[f]]
    <3>1. f \in ConfFile /\ f \in File /\ f \in Trusted
      BY <1>0, Constants DEF Trusted
    <3>2. CASE f \in moved
      BY <2>1, <2>2, <3>1, <3>2, ConfConstants
    <3>3. CASE f \notin moved
      <4>1. owner'[f] = owner[f]
        BY <2>1, <3>1, <3>3
      <4>. QED  BY <1>0, <2>3, <3>1, <4>1 DEF Owners
    <3>. QED  BY <3>2, <3>3
  <2>. QED  BY <2>3 DEF Owners
<1>4. CASE \/ UNCHANGED vars
           \/ (\E f \in ConfFile, e \in Edits : Edit(f, e)) \/ opkg_update
           \/ \E n \in Names : opkg_install_cmd(n) \/ opkg_remove_cmd(n)
  BY <1>1, <1>4 DEF Edit, opkg_update, opkg_install_cmd, opkg_remove_cmd, memory, vars
<1>5. CASE Fails \/ satisfy_dependencies_for \/ Enter \/ pkg_write_filelist \/ Finish
           \/ \E kept \in SUBSET ConfFile : resolve_conffiles(kept)
  BY <1>1, <1>5 DEF Fails, PrepareFails, preinst_fails, backup_fails, clash_found, Unwind,
     satisfy_dependencies_for, Enter, pkg_write_filelist, Finish, resolve_conffiles
<1>6. CASE Steps
  BY <1>1, <1>6 DEF Steps, preinst_configure, backup_modified_conffiles, check_data_file_clashes, remove_old_files,
     remove_old_list, Extract, remove_data_files, remove_list, memory
<1>7. CASE \/ Removed \/ (\E ok \in BOOLEAN : opkg_configure(ok)) \/ ConfigureDone \/ write_status_files
           \/ sigint_handler
  BY <1>1, <1>7 DEF Removed, opkg_configure, ConfigureDone, write_status_files, sigint_handler, memory
<1>. QED  BY <1>2, <1>3, <1>4, <1>5, <1>6, <1>7, Actions DEF Outside
-----------------------------------------------------------------------------
(* The edits. *)

(* A conffile that a package lists and a user has edited is found modified. *)
LEMMA EditIsKept ==
  ASSUME EditInv, NEW p \in Pkgs, mem.st[p] # "not", Lists(p, list, Trusted), NEW f \in Trusted,
         f \in list[Name[p]], files[f] \in Edits
  PROVE  f \in Kept(p)
<1>1. SumsKept(mem, Trusted) /\ f \in Conf[p]
  BY DEF EditInv, Lists
<1>2. f \in DOMAIN mem.sum[p] /\ mem.sum[p][f] \notin Edits
  BY <1>1 DEF SumsKept, Good
<1>3. md5sum(files[f]) = files[f]
  BY ConfConstants DEF md5sum
<1>. QED  BY <1>2, <1>3 DEF Kept, conffile_has_been_modified

LEMMA TopLists ==
  ASSUME EditInv, pc = "pkg", Top.pc \notin Late, NEW p \in Pkgs, mem.st[p] # "not",
         Len(stack) = 1, Name[p] \notin Deps[Top.pkg]
  PROVE  Lists(p, list, Trusted)
<1>1. Top = stack[1]
  BY TopCall
<1>2. ~Relisted(p) /\ ~ToWrite(p)
  BY <1>1 DEF Relisted, ToWrite
<1>. QED  BY <1>2 DEF EditInv, MemLists

LEMMA NotUnpacking ==
  ASSUME EditInv, pc = "pkg" => Top.pc \notin Unpacking, NEW f \in Trusted, edits[f] # None
  PROVE  files[f] = edits[f] \/ (backup[f] = edits[f] /\ files[f] = None)
<1>1. pc = "pkg" => Top = stack[1]
  BY TopCall
<1>. QED  BY <1>1 DEF EditInv, EditSafe

LEMMA EditTyped == ASSUME EditInv, NEW f \in Trusted, edits[f] # None PROVE edits[f] \in Edits /\ f \in File /\ f \in ConfFile
<1>1. f \in ConfFile /\ edits \in [ConfFile -> Edits \cup {None}]
  BY DEF EditInv, Versions, Types, DiskTypes, Trusted
<1>. QED  BY <1>1, Constants

(* A removal: of the files in gone only those that are backed up had an edit. *)
LEMMA RemovalSafe ==
  ASSUME EditInv, [Next]_vars, pc = "pkg", Top.pc \notin Unpacking, backup' = backup, edits' = edits,
         NEW gone, files' = [f \in File |-> IF f \in gone THEN None ELSE files[f]],
         \A f \in Trusted : f \in gone /\ edits[f] # None /\ files[f] = edits[f] => backup[f] = edits[f]
  PROVE  EditSafe'
<1>1. Trusted' \subseteq Trusted
  BY TrustShrinks DEF EditInv, Versions
<1>2. ASSUME NEW f \in Trusted', edits[f] # None
      PROVE  files'[f] = edits[f] \/ (backup[f] = edits[f] /\ files'[f] = None)
  <2>1. f \in Trusted /\ f \in File
    BY <1>1, <1>2, EditTyped
  <2>2. files[f] = edits[f] \/ (backup[f] = edits[f] /\ files[f] = None)
    BY <1>2, <2>1, NotUnpacking
  <2>3. CASE f \in gone
    BY <1>2, <2>1, <2>2, <2>3
  <2>4. CASE f \notin gone
    BY <2>1, <2>2, <2>4
  <2>. QED  BY <2>3, <2>4
<1>. QED  BY <1>2 DEF EditSafe

LEMMA EnterEdits == ASSUME EditInv, [Next]_vars, Enter PROVE EditSafe'
<1>1. pc = "pkg" /\ Top.pc = "deps" /\ backup' = backup /\ edits' = edits
  BY DEF Enter, At
<1>2. PICK gone : /\ gone = UNION {list[Name[p]] \ Kept(p) : p \in Orphans}
                  /\ files' = [f \in File |-> IF f \in gone THEN None ELSE files[f]]
  BY DEF Enter, pkg_remove_orphan_dependent
<1>3. Types /\ Top.pkg \in Pkgs /\ Len(stack) \in {1, 2}
  BY <1>1, TopCall
<1>4. ASSUME NEW f \in Trusted, f \in gone, edits[f] # None, files[f] = edits[f] PROVE FALSE
  <2>1. PICK p \in Orphans : f \in list[Name[p]] /\ f \notin Kept(p)
    BY <1>2, <1>4
  <2>2. p \in Pkgs /\ Len(stack) = 1
    BY <1>1, <1>3, OrphanFacts, NotOrphans
  <2>3. Installed(p, mem) /\ Name[p] \notin Deps[Top.pkg]
    BY <2>1 DEF Orphans
  <2>4. mem.st[p] # "not"
    BY <1>3, <2>2, <2>3, InstalledIs DEF Types
  <2>5. Lists(p, list, Trusted)
    BY <1>1, <2>2, <2>3, <2>4, TopLists DEF Late
  <2>6. files[f] \in Edits
    BY <1>4, EditTyped
  <2>. QED  BY <2>1, <2>2, <2>4, <2>5, <2>6, EditIsKept
<1>5. Top.pc \notin Unpacking
  BY <1>1 DEF Unpacking
<1>. QED  BY <1>1, <1>2, <1>4, <1>5, RemovalSafe

LEMMA RemoveEdits == ASSUME EditInv, [Next]_vars, remove_data_files PROVE EditSafe'
<1>1. /\ pc = "pkg" /\ Top.pc = "rm_files" /\ backup' = backup /\ edits' = edits
      /\ files' = [f \in File |-> IF f \in list[Name[Top.pkg]] \ Kept(Top.pkg) THEN None ELSE files[f]]
  BY DEF remove_data_files, At
<1>2. Types /\ CallOK(Top, mem, changed, list, dirty, Trusted) /\ Top.pkg \in Pkgs /\ Len(stack) \in {1, 2}
      /\ Top = stack[1]
  BY <1>1, TopCall
<1>3. mem.st[Top.pkg] # "not"
  BY <1>1, <1>2 DEF CallOK, RemovePcs
<1>4. Len(stack) = 1
  <2>1. Len(stack) = 2 => Top.pc \in InstallPcs
    BY <1>2 DEF Types, Nested
  <2>. QED  BY <1>1, <1>2, <2>1 DEF InstallPcs
<1>5. Name[Top.pkg] \notin Deps[Top.pkg]
  BY <1>2, Constants
<1>6. Lists(Top.pkg, list, Trusted)
  BY <1>1, <1>2, <1>3, <1>4, <1>5, TopLists DEF Late
<1>7. ASSUME NEW f \in Trusted, f \in list[Name[Top.pkg]] \ Kept(Top.pkg), edits[f] # None, files[f] = edits[f]
      PROVE  FALSE
  <2>1. files[f] \in Edits
    BY <1>7, EditTyped
  <2>. QED  BY <1>2, <1>3, <1>6, <1>7, <2>1, EditIsKept
<1>8. Top.pc \notin Unpacking
  BY <1>1 DEF Unpacking
<1>. QED  BY <1>1, <1>7, <1>8, RemovalSafe

LEMMA EraseEdits == ASSUME EditInv, [Next]_vars, remove_old_files PROVE EditSafe'
<1>1. pc = "pkg" /\ Top.pc = "erase" /\ backup' = backup /\ edits' = edits
  BY DEF remove_old_files, At
<1>2. Types /\ CallOK(Top, mem, changed, list, dirty, Trusted) /\ Top.pkg \in Pkgs /\ Len(stack) \in {1, 2}
      /\ Top = stack[1] /\ Top.old \in Pkgs \cup {None} /\ files \in [File -> Content]
  BY <1>1, TopCall DEF Types, DiskTypes
<1>3. Top.pc \notin Unpacking /\ Top.pc \notin Late /\ Top.pc \in Secured /\ Top.pc \in InstallPcs
  BY <1>1 DEF Unpacking, Late, Secured, InstallPcs
<1>4. CASE Top.old = None
  <2>1. PICK gone : gone = {}
    OBVIOUS
  <2>2. files' = files
    BY <1>4 DEF remove_old_files
  <2>3. files' = [f \in File |-> IF f \in gone THEN None ELSE files[f]]
    BY <1>2, <2>1, <2>2
  <2>. QED  BY <1>1, <1>3, <2>1, <2>3, RemovalSafe
<1>5. CASE Top.old # None
  <2>1. PICK gone : /\ gone = Obsolesced \cup (list[Name[Top.old]] \ Kept(Top.old))
                    /\ files' = [f \in File |-> IF f \in gone THEN None ELSE files[f]]
    BY <1>5 DEF remove_old_files
  <2>2. Top.old \in Pkgs /\ Name[Top.old] = Name[Top.pkg] /\ mem.st[Top.old] # "not"
    BY <1>2, <1>3, <1>5 DEF CallOK
  <2>3. Len(stack) = 1
    BY <1>2, <1>5 DEF EditInv, Fresh
  <2>4. Name[Top.old] \notin Deps[Top.pkg]
    BY <1>2, <2>2, Constants
  <2>5. Lists(Top.old, list, Trusted)
    BY <1>1, <1>3, <2>2, <2>3, <2>4, TopLists
  <2>6. ASSUME NEW f \in Trusted, f \in gone, edits[f] # None PROVE backup[f] = edits[f]
    <3>1. f \in list[Name[Top.old]]
      BY <2>1, <2>6 DEF Obsolesced
    <3>2. f \in Conf[Top.old]
      BY <2>5, <3>1 DEF Lists
    <3>3. Good(Top.old, mem, Trusted)
      BY <2>2 DEF EditInv, SumsKept
    <3>4. f \in OldConf
      BY <1>5, <3>2, <3>3 DEF Good, OldConf
    <3>. QED  BY <1>1, <1>2, <1>3, <2>6, <3>4 DEF EditInv, BackedUp
  <2>. QED  BY <1>1, <1>3, <2>1, <2>6, RemovalSafe
<1>. QED  BY <1>4, <1>5
(* A step after which no conffile needs a backup. *)
LEMMA NotSecured ==
  ASSUME pc' = "pkg" => stack'[1].pc \notin Secured PROVE BackedUp' /\ Extracted'
BY DEF BackedUp, Extracted, Secured, Unpacking

(* A step of a call that has its backups and touches neither them nor the edits. *)
LEMMA StillSecured ==
  ASSUME EditInv, [Next]_vars, NEW x, Moves(x), Top.pc \in Secured, backup' = backup, edits' = edits, mem' = mem
  PROVE  BackedUp'
<1>1. Types /\ Trusted' \subseteq Trusted /\ pc = "pkg"
  BY TrustShrinks DEF EditInv, Versions, Moves
<1>2. x.pkg = Top.pkg /\ x.old = Top.old /\ Top = stack[1] /\ stack'[1] = x
  BY <1>1, MoveFacts, TopFacts DEF Moves
<1>3. Top' = stack'[1]
  <2>1. stack' \in Seq(Call) /\ stack' # <<>>
    BY <1>1, MoveFacts
  <2>. QED  BY <2>1, NonEmpty DEF Top
<1>4. OldConf' = OldConf
  BY <1>2, <1>3 DEF OldConf
<1>5. \A f \in Trusted : f \in Conf[Top.pkg] \cup OldConf /\ edits[f] # None => backup[f] = edits[f]
  BY <1>1, <1>2 DEF EditInv, BackedUp
<1>. QED  BY <1>1, <1>2, <1>4, <1>5 DEF BackedUp

LEMMA BackupEdits == ASSUME EditInv, [Next]_vars, backup_modified_conffiles PROVE EditSafe' /\ BackedUp' /\ Extracted'
<1>1. /\ pc = "pkg" /\ pc' = pc /\ Top.pc = "backup" /\ Goto("clashes")
      /\ files' = files /\ edits' = edits /\ mem' = mem
      /\ backup' = [f \in File |-> IF f \in ToBackUp THEN files[f] ELSE backup[f]]
      /\ torn' = torn \cup {f \in NewConf \ OldConf : files[f] # None /\ backup[f] # None}
  BY DEF backup_modified_conffiles, At, memory
<1>2. Types /\ CallOK(Top, mem, changed, list, dirty, Trusted) /\ Top.pkg \in Pkgs /\ Top = stack[1]
      /\ Top.old \in Pkgs \cup {None} /\ SumsKept(mem, Trusted)
  BY <1>1, TopCall DEF EditInv
<1>3. Trusted' \subseteq Trusted /\ Top.pc \notin Unpacking
  BY <1>1, <1>2, TrustShrinks DEF Unpacking
<1>4. PICK x : Moves(x) /\ x.pc = "clashes"
  <2>1. "backup" \in InstallPcs /\ "clashes" \in InstallPcs
    BY DEF InstallPcs
  <2>. QED  BY <1>1, <1>2, <2>1, GotoFacts
<1>5. stack'[1] = x /\ x.pkg = Top.pkg /\ x.old = Top.old /\ stack' \in Seq(Call) /\ stack' # <<>>
  BY <1>2, <1>4, MoveFacts DEF Moves
<1>6. Top' = x
  BY <1>5, NonEmpty DEF Top
<1>7. OldConf' = OldConf
  BY <1>1, <1>5, <1>6 DEF OldConf
<1>8. \A f \in ToBackUp : files[f] # None
  BY DEF ToBackUp
<1>9. ASSUME NEW f \in Trusted', edits[f] # None
      PROVE  /\ files[f] = edits[f] \/ (backup'[f] = edits[f] /\ files[f] = None)
             /\ f \in Conf[Top.pkg] \cup OldConf => backup'[f] = edits[f]
  <2>1. f \in Trusted /\ f \in File /\ edits[f] \in Edits
    BY <1>3, <1>9, EditTyped
  <2>2. files[f] = edits[f] \/ (backup[f] = edits[f] /\ files[f] = None)
    BY <1>3, <1>9, <2>1, NotUnpacking
  <2>3. CASE files[f] = None
    BY <1>1, <1>8, <1>9, <2>1, <2>2, <2>3
  <2>4. CASE files[f] = edits[f]
    <3>1. files[f] # None /\ md5sum(files[f]) = files[f]
      BY <1>9, <2>4 DEF md5sum
    <3>2. ASSUME f \in OldConf PROVE f \in ToBackUp
      <4>1. Top.old \in Pkgs /\ OldConf = DOMAIN mem.sum[Top.old]
        BY <1>2, <3>2 DEF OldConf
      <4>2. mem.sum[Top.old][f] \notin Edits
        BY <1>2, <2>1, <3>2, <4>1 DEF SumsKept
      <4>3. conffile_has_been_modified(Top.old, f)
        BY <2>1, <2>4, <3>1, <4>2 DEF conffile_has_been_modified
      <4>. QED  BY <3>1, <3>2, <4>3 DEF ToBackUp
    <3>3. ASSUME f \in Conf[Top.pkg], f \notin OldConf PROVE f \in ToBackUp
      <4>1. f \in NewConf
        BY <1>1, <1>2, <2>1, <3>3 DEF CallOK, InstallPcs, NewConf
      <4>2. backup[f] = None
        BY <1>1, <1>9, <3>1, <3>3, <4>1 DEF Trusted
      <4>. QED  BY <3>1, <3>3, <4>1, <4>2 DEF ToBackUp
    <3>4. f \in ToBackUp => backup'[f] = edits[f]
      BY <1>1, <2>1, <2>4
    <3>. QED  BY <2>4, <3>2, <3>3, <3>4
  <2>. QED  BY <2>2, <2>3, <2>4
<1>10. EditSafe'
  BY <1>1, <1>9 DEF EditSafe
<1>11. BackedUp'
  BY <1>1, <1>5, <1>7, <1>9 DEF BackedUp
<1>12. Extracted'
  BY <1>4, <1>5 DEF Extracted, Unpacking
<1>. QED  BY <1>10, <1>11, <1>12

LEMMA ExtractEdits ==
  ASSUME EditInv, [Next]_vars, NEW S, S \subseteq Files[Top.pkg], Extract(S)
  PROVE  EditSafe' /\ BackedUp' /\ Extracted'
<1>1. /\ pc = "pkg" /\ pc' = pc /\ Top.pc = "extract" /\ backup' = backup /\ edits' = edits /\ mem' = mem
      /\ files' = [f \in File |-> IF f \in S THEN Top.pkg ELSE files[f]] /\ torn' = torn
  BY DEF Extract, At, memory
<1>2. Types /\ Top.pkg \in Pkgs /\ Top = stack[1]
  BY <1>1, TopCall
<1>3. Trusted' = Trusted /\ Top.pc \notin Unpacking /\ Top.pc \in Secured
  BY <1>1 DEF Unpacking, Secured, Trusted
<1>4. PICK x : Moves(x) /\ x.pc \in {"list", "resolve"}
  BY <1>2, ExtractMoves
<1>5. stack'[1] = x /\ x.pkg = Top.pkg /\ stack'[1].pc \in Unpacking
  BY <1>2, <1>4, MoveFacts DEF Moves, Unpacking
<1>6. ASSUME NEW f \in Trusted, edits[f] # None
      PROVE  \/ files'[f] = edits[f]
             \/ backup[f] = edits[f] /\ (files'[f] = None \/ f \in Conf[Top.pkg])
  <2>1. f \in File /\ f \in ConfFile
    BY <1>6, EditTyped
  <2>2. CASE f \in S
    <3>1. f \in Conf[Top.pkg]
      BY <1>2, <2>1, <2>2, ConfConstants
    <3>2. backup[f] = edits[f]
      BY <1>1, <1>2, <1>3, <1>6, <3>1 DEF EditInv, BackedUp
    <3>. QED  BY <3>1, <3>2
  <2>3. CASE f \notin S
    <3>1. files'[f] = files[f]
      BY <1>1, <2>1, <2>3
    <3>2. files[f] = edits[f] \/ (backup[f] = edits[f] /\ files[f] = None)
      BY <1>3, <1>6, NotUnpacking
    <3>. QED  BY <3>1, <3>2
  <2>. QED  BY <2>2, <2>3
<1>7. EditSafe'
  BY <1>1, <1>3, <1>5, <1>6 DEF EditSafe
<1>8. BackedUp'
  BY <1>1, <1>3, <1>4, StillSecured
<1>9. Extracted'
  <2>1. CASE S = Files[Top.pkg]
    <3>1. \A f \in Files[Top.pkg] : files'[f] = Top.pkg
      BY <1>1, <1>2, <2>1, Constants
    <3>. QED  BY <1>5, <3>1 DEF Extracted
  <2>2. CASE S # Files[Top.pkg]
    <3>1. "partial" \in stack'[1].marks
      BY <1>2, <2>2, ExtractMoves
    <3>. QED  BY <3>1 DEF Extracted
  <2>. QED  BY <2>1, <2>2
<1>. QED  BY <1>7, <1>8, <1>9

LEMMA ListEdits == ASSUME EditInv, [Next]_vars, pkg_write_filelist PROVE EditSafe' /\ BackedUp' /\ Extracted'
<1>1. /\ pc = "pkg" /\ pc' = pc /\ Top.pc = "list" /\ Goto("resolve") /\ backup' = backup /\ edits' = edits
      /\ mem' = mem /\ files' = files /\ torn' = torn
  BY DEF pkg_write_filelist, At, history
<1>2. Types /\ Top.pkg \in Pkgs /\ Top = stack[1]
  BY <1>1, TopCall
<1>3. Trusted' = Trusted /\ Top.pc \in Unpacking /\ Top.pc \in Secured
  BY <1>1 DEF Unpacking, Secured, Trusted
<1>4. PICK x : Moves(x) /\ x.pc = "resolve" /\ x.marks = Top.marks
  <2>1. "list" \in InstallPcs /\ "resolve" \in InstallPcs
    BY DEF InstallPcs
  <2>. QED  BY <1>1, <1>2, <2>1, GotoFacts
<1>5. stack'[1] = x /\ x.pkg = Top.pkg /\ stack'[1].pc \in Unpacking
  BY <1>2, <1>4, MoveFacts DEF Moves, Unpacking
<1>6. EditSafe'
  BY <1>1, <1>2, <1>3, <1>5 DEF EditInv, EditSafe
<1>7. BackedUp'
  BY <1>1, <1>3, <1>4, StillSecured
<1>8. Extracted'
  BY <1>1, <1>2, <1>3, <1>4, <1>5 DEF EditInv, Extracted
<1>. QED  BY <1>6, <1>7, <1>8
LEMMA ResolveEdits ==
  ASSUME EditInv, [Next]_vars, NEW kept, resolve_conffiles(kept) PROVE EditSafe' /\ BackedUp' /\ Extracted'
<1>. DEFINE sum == [f \in NewConf |-> IF mem.sum[Top.pkg][f] = "null" THEN md5sum(files[f])
                                      ELSE mem.sum[Top.pkg][f]]
            here == {f \in NewConf : files[f] # None /\ backup[f] # None}
            asked == {f \in here : md5sum(backup[f]) # sum[f]}
<1>1. /\ kept \subseteq asked
      /\ files' = [f \in File |-> IF f \in kept THEN backup[f] ELSE files[f]]
      /\ backup' = [f \in File |-> IF f \in here THEN None ELSE backup[f]]
      /\ edits' = [f \in ConfFile |-> IF f \in asked \ kept THEN None ELSE edits[f]]
  BY DEF resolve_conffiles
<1>2. /\ pc = "pkg" /\ pc' = pc /\ Top.pc = "resolve" /\ Goto("finish")
      /\ torn' = IF "partial" \in Top.marks THEN torn \cup Conf[Top.pkg] ELSE torn
  BY DEF resolve_conffiles, At
<1>3. /\ Types /\ CallOK(Top, mem, changed, list, dirty, Trusted) /\ Top.pkg \in Pkgs /\ Top = stack[1]
      /\ SumsKept(mem, Trusted)
  BY <1>2, TopCall DEF EditInv
<1>4. Trusted' \subseteq Trusted /\ Top.pc \in Unpacking /\ Top.pc \in Secured
  BY <1>2, <1>3, TrustShrinks DEF Unpacking, Secured
<1>5. NewConf \subseteq Conf[Top.pkg] /\ Conf[Top.pkg] \cap Trusted \subseteq NewConf
  BY <1>2, <1>3 DEF SumsKept, CallOK, InstallPcs, NewConf
<1>6. ASSUME NEW f \in Trusted', edits'[f] # None
      PROVE  files'[f] = edits'[f] \/ (backup'[f] = edits'[f] /\ files'[f] = None)
  <2>1. f \in ConfFile /\ f \in File /\ f \in Trusted
    BY <1>4, Constants DEF Trusted
  <2>2. edits'[f] = edits[f] /\ ~(f \in asked \ kept) /\ edits[f] # None
    BY <1>1, <1>6, <2>1
  <2>3. edits[f] \in Edits
    BY <2>1, <2>2, EditTyped
  <2>4. CASE f \notin Conf[Top.pkg]
    <3>1. f \notin here /\ f \notin kept
      BY <1>1, <1>5, <2>4
    <3>2. files'[f] = files[f] /\ backup'[f] = backup[f]
      BY <1>1, <2>1, <3>1
    <3>3. files[f] = edits[f] \/ (backup[f] = edits[f] /\ files[f] = None)
      BY <1>3, <2>1, <2>2, <2>4 DEF EditInv, EditSafe
    <3>. QED  BY <2>2, <3>2, <3>3
  <2>5. CASE f \in Conf[Top.pkg]
    <3>1. "partial" \notin Top.marks
      BY <1>2, <2>5 DEF Trusted
    <3>2. f \in NewConf
      BY <1>5, <2>1, <2>5
    <3>3. files[f] = Top.pkg
      BY <1>2, <1>3, <1>4, <2>5, <3>1, Constants DEF EditInv, Extracted
    <3>4. backup[f] = edits[f]
      BY <1>2, <1>3, <1>4, <2>1, <2>2, <2>5 DEF EditInv, BackedUp
    <3>5. files[f] # None /\ backup[f] # None /\ md5sum(backup[f]) = edits[f] /\ md5sum(files[f]) = files[f]
      BY <1>3, <2>3, <3>3, <3>4, ConfConstants DEF md5sum
    <3>6. sum[f] \notin Edits
      <4>1. mem.sum[Top.pkg][f] \notin Edits
        BY <1>3, <2>1, <3>2 DEF SumsKept, NewConf
      <4>2. sum[f] = IF mem.sum[Top.pkg][f] = "null" THEN md5sum(files[f]) ELSE mem.sum[Top.pkg][f]
        BY <1>1, <3>2
      <4>. QED  BY <1>3, <3>3, <3>5, <4>1, <4>2, ConfConstants
    <3>7. f \in asked
      BY <1>1, <2>3, <3>2, <3>5, <3>6
    <3>8. f \in kept
      BY <2>2, <3>7
    <3>9. files'[f] = backup[f]
      BY <1>1, <2>1, <3>8
    <3>. QED  BY <2>2, <3>4, <3>9
  <2>. QED  BY <2>4, <2>5
<1>7. EditSafe'
  BY <1>6 DEF EditSafe
<1>8. PICK x : Moves(x) /\ x.pc = "finish"
  <2>1. "finish" \in InstallPcs /\ "resolve" \in InstallPcs
    BY DEF InstallPcs
  <2>. QED  BY <1>2, <1>3, <2>1, GotoFacts
<1>9. stack'[1].pc \notin Secured
  BY <1>3, <1>8, MoveFacts DEF Secured
<1>. QED  BY <1>7, <1>9, NotSecured

(* A step that touches no conffile. *)
LEMMA SameEdits ==
  ASSUME EditInv, [Next]_vars, pc = "pkg" => Top.pc \notin Unpacking, files' = files, backup' = backup, edits' = edits
  PROVE  EditSafe'
<1>1. Trusted' \subseteq Trusted
  BY TrustShrinks DEF EditInv, Versions
<1>2. ASSUME NEW f \in Trusted', edits[f] # None PROVE files[f] = edits[f] \/ (backup[f] = edits[f] /\ files[f] = None)
  BY <1>1, <1>2, NotUnpacking
<1>. QED  BY <1>2 DEF EditSafe

LEMMA UnwindEdits ==
  ASSUME EditInv, [Next]_vars, NEW S, Unwind(S), pc = "pkg", Top.pc \notin Unpacking PROVE EditSafe'
<1>1. /\ files' = files /\ edits' = edits /\ backup' = [f \in File |-> IF f \in S THEN None ELSE backup[f]]
      /\ torn' = torn \cup {f \in S : files[f] = None /\ backup[f] # None}
  BY DEF Unwind
<1>2. Trusted' \subseteq Trusted
  BY TrustShrinks DEF EditInv, Versions
<1>3. ASSUME NEW f \in Trusted', edits[f] # None PROVE files[f] = edits[f] \/ (backup'[f] = edits[f] /\ files[f] = None)
  <2>1. f \in Trusted /\ f \in File
    BY <1>2, <1>3, EditTyped
  <2>2. files[f] = edits[f] \/ (backup[f] = edits[f] /\ files[f] = None)
    BY <1>3, <2>1, NotUnpacking
  <2>3. ASSUME backup[f] = edits[f], files[f] = None PROVE backup'[f] = backup[f]
    <3>1. f \notin S
      BY <1>1, <1>3, <2>3 DEF Trusted
    <3>. QED  BY <1>1, <2>1, <3>1
  <2>. QED  BY <2>2, <2>3
<1>. QED  BY <1>1, <1>3 DEF EditSafe

LEMMA CrashEdits == ASSUME EditInv, Crash PROVE EditSafe'
<1>1. /\ files' = files /\ edits' = edits /\ backup' = backup /\ torn \subseteq torn'
      /\ {f \in ConfFile : backup[f] # None} \subseteq torn'
  BY DEF Crash, disk
<1>2. ASSUME NEW f \in Trusted', edits[f] # None PROVE files[f] = edits[f]
  <2>1. f \in Trusted /\ f \in ConfFile /\ backup[f] = None
    BY <1>1 DEF Trusted
  <2>. QED  BY <1>2, <2>1 DEF EditInv, EditSafe
<1>. QED  BY <1>1, <1>2 DEF EditSafe

LEMMA UserEdits == ASSUME EditInv, NEW g \in ConfFile, NEW e \in Edits, Edit(g, e) PROVE EditSafe'
<1>1. /\ files' = [files EXCEPT ![g] = e] /\ edits' = [edits EXCEPT ![g] = e] /\ backup' = backup /\ torn' = torn
      /\ pc = "idle"
  BY DEF Edit
<1>2. files \in [File -> Content] /\ edits \in [ConfFile -> Edits \cup {None}] /\ ConfFile \subseteq File
  BY Constants DEF EditInv, Versions, Types, DiskTypes
<1>3. ASSUME NEW f \in Trusted, edits'[f] # None PROVE files'[f] = edits'[f] \/ (backup[f] = edits'[f] /\ files'[f] = None)
  <2>1. f \in ConfFile
    BY DEF Trusted
  <2>2. CASE f = g
    BY <1>1, <1>2, <2>1, <2>2
  <2>3. CASE f # g
    <3>1. files'[f] = files[f] /\ edits'[f] = edits[f]
      BY <1>1, <1>2, <2>1, <2>3
    <3>2. edits[f] # None
      BY <1>3, <3>1
    <3>3. files[f] = edits[f] \/ (backup[f] = edits[f] /\ files[f] = None)
      BY <1>1, <3>2, NotUnpacking
    <3>. QED  BY <3>1, <3>3
  <2>. QED  BY <2>2, <2>3
<1>. QED  BY <1>1, <1>3 DEF EditSafe, Trusted
LEMMA BeginCall ==
  ASSUME Types, NEW n \in Names, opkg_install_cmd(n) \/ opkg_remove_cmd(n)
  PROVE  /\ pc = "idle" /\ Len(stack') # 2 /\ UNCHANGED <<files, backup, edits>>
         /\ pc' = "pkg" => stack'[1].pc \notin Secured
<1>1. pc = "idle" /\ stack = <<>> /\ UNCHANGED <<files, backup, edits>>
  BY DEF opkg_install_cmd, opkg_remove_cmd, disk, Types, CallTypes
<1>2. CASE stack' = stack /\ pc' # "pkg"
  <2>1. Len(stack') = 0
    BY <1>1, <1>2
  <2>. QED  BY <1>1, <1>2, <2>1
<1>3. ASSUME NEW x, stack' = <<x>>, x.pc \in {"prepare", "rm_files"}
      PROVE  Len(stack') # 2 /\ stack'[1].pc \notin Secured
  <2>1. Len(stack') = 1 /\ stack'[1] = x
    BY <1>3
  <2>. QED  BY <1>3, <2>1 DEF Secured
<1>4. CASE opkg_install_cmd(n)
  <2>1. \/ stack' = stack /\ pc' # "pkg"
        \/ stack' = <<Frame(best_candidate(n), "prepare")>>
    BY <1>4 DEF opkg_install_cmd
  <2>2. Frame(best_candidate(n), "prepare").pc = "prepare"
    BY DEF Frame
  <2>3. CASE stack' = <<Frame(best_candidate(n), "prepare")>>
    <3>1. Len(stack') # 2 /\ stack'[1].pc \notin Secured
      BY <1>3, <2>2, <2>3
    <3>. QED  BY <1>1, <3>1
  <2>. QED  BY <1>2, <2>1, <2>3
<1>5. CASE opkg_remove_cmd(n)
  <2>1. PICK x : stack' = <<x>> /\ x = [pkg |-> fetch_installed_by_name(n), old |-> None, pc |-> "rm_files", marks |-> {}]
    BY <1>5 DEF opkg_remove_cmd
  <2>2. x.pc = "rm_files"
    BY <2>1
  <2>3. Len(stack') # 2 /\ stack'[1].pc \notin Secured
    BY <1>3, <2>1, <2>2
  <2>. QED  BY <1>1, <2>3
<1>. QED  BY <1>4, <1>5

LEMMA FinishPop ==
  ASSUME Types, Finish PROVE Len(stack') # 2 /\ (pc' = "pkg" => stack'[1].pc \notin Secured)
<1>1. pc = "pkg" /\ stack' = Tail(stack) /\ pc' = (IF Len(stack) = 1 THEN "configure" ELSE "pkg")
  BY DEF Finish, At
<1>2. stack \in Seq(Call) /\ stack # <<>> /\ Len(stack) \in {1, 2}
  BY <1>1, TopFacts
<1>3. Len(stack') = Len(stack) - 1 /\ Len(stack') \in Nat /\ \A i \in 1..Len(stack') : stack'[i] = stack[i + 1]
  BY <1>1, <1>2, TailFacts
<1>4. CASE Len(stack) = 1
  <2>1. Len(stack') = 0
    BY <1>3, <1>4
  <2>2. pc' = "configure"
    BY <1>1, <1>4
  <2>. QED  BY <2>1, <2>2
<1>5. CASE Len(stack) = 2
  <2>1. Len(stack') = 1 /\ stack'[1] = stack[2]
    BY <1>3, <1>5
  <2>2. stack[2].pc = "deps"
    BY <1>5, SecondWaits DEF Waiting
  <2>. QED  BY <2>1, <2>2 DEF Secured
<1>. QED  BY <1>2, <1>4, <1>5

LEMMA NextFresh == ASSUME EditInv, [Next]_vars PROVE Fresh'
<1>0. Types /\ Fresh /\ Types'
  BY NextTypes DEF EditInv, Versions
<1>1. ASSUME NEW x, Moves(x) PROVE Fresh'
  <2>1. Len(stack') = Len(stack) /\ stack'[1] = x /\ x.old = Top.old /\ Top = stack[1]
    BY <1>0, <1>1, MoveFacts, TopFacts DEF Moves
  <2>. QED  BY <1>0, <2>1 DEF Fresh
<1>2. ASSUME NEW w \in InstallPcs, Goto(w), pc = "pkg", pc' = pc, Top.pc \in InstallPcs PROVE Fresh'
  <2>1. PICK x : Moves(x) /\ x.pc = w /\ x.marks = Top.marks
    BY <1>0, <1>2, GotoFacts
  <2>. QED  BY <1>1, <2>1
<1>3. CASE UNCHANGED vars
  BY <1>0, <1>3 DEF Fresh, vars
<1>4. CASE Outside
  <2>1. stack' = <<>>
    BY <1>0, <1>4, OutsideEnds
  <2>2. Len(stack') = 0
    BY <2>1
  <2>. QED  BY <2>2 DEF Fresh
<1>5. CASE Steps \/ Prepare \/ Enter
  BY <1>0, <1>1, <1>5, StepMoves
<1>6. ASSUME NEW n \in Names, opkg_install_cmd(n) \/ opkg_remove_cmd(n) PROVE Fresh'
  BY <1>0, <1>6, BeginCall DEF Fresh
<1>7. CASE satisfy_dependencies_for
  BY <1>0, <1>7, SatisfyPush DEF Fresh
<1>8. CASE pkg_write_filelist
  <2>1. pc = "pkg" /\ pc' = pc /\ Top.pc \in InstallPcs /\ Goto("resolve") /\ "resolve" \in InstallPcs
    BY <1>8 DEF pkg_write_filelist, At, InstallPcs
  <2>. QED  BY <1>2, <2>1
<1>9. ASSUME NEW kept, resolve_conffiles(kept) PROVE Fresh'
  <2>1. pc = "pkg" /\ pc' = pc /\ Top.pc \in InstallPcs /\ Goto("finish") /\ "finish" \in InstallPcs
    BY <1>9 DEF resolve_conffiles, At, InstallPcs
  <2>. QED  BY <1>2, <2>1
<1>10. CASE Finish
  BY <1>0, <1>10, FinishPop DEF Fresh
<1>. QED  BY <1>3, <1>4, <1>5, <1>6, <1>7, <1>8, <1>9, <1>10, Actions

(* The steps outside of the calls. *)
LEMMA OutsideEdits == ASSUME EditInv, [Next]_vars, Outside PROVE EditSafe' /\ BackedUp' /\ Extracted'
<1>0. Types
  BY DEF EditInv, Versions
<1>1. pc' # "pkg"
  BY <1>0, OutsideEnds
<1>2. BackedUp' /\ Extracted'
  BY <1>1, NotSecured
<1>3. ASSUME NEW f \in ConfFile, NEW e \in Edits, Edit(f, e) PROVE EditSafe'
  BY <1>3, UserEdits
<1>4. CASE preinst_fails \/ backup_fails \/ clash_found
  <2>1. pc = "pkg" /\ Top.pc \in {"preinst", "backup", "clashes"} /\ \E S : Unwind(S)
    BY <1>4 DEF preinst_fails, backup_fails, clash_found, At
  <2>2. Top.pc \notin Unpacking
    BY <2>1 DEF Unpacking
  <2>. QED  BY <1>2, <2>1, <2>2, UnwindEdits
<1>5. CASE opkg_update \/ PrepareFails \/ Removed \/ ConfigureDone \/ sigint_handler
           \/ \E ok \in BOOLEAN : opkg_configure(ok)
  <2>1. files' = files /\ backup' = backup /\ edits' = edits
    BY <1>5 DEF opkg_update, PrepareFails, Removed, ConfigureDone, sigint_handler, opkg_configure, disk, history
  <2>2. pc = "pkg" => Top.pc \notin Unpacking
    BY <1>5 DEF opkg_update, PrepareFails, Removed, ConfigureDone, sigint_handler, opkg_configure, At, Unpacking
  <2>. QED  BY <1>2, <2>1, <2>2, SameEdits
<1>6. CASE write_status_files \/ nothing_to_be_done \/ pkg_write_changed_filelists
  <2>1. files' = files /\ backup' = backup /\ edits' = edits /\ pc # "pkg"
    BY <1>6 DEF write_status_files, nothing_to_be_done, pkg_write_changed_filelists, disk
  <2>. QED  BY <1>2, <2>1, SameEdits
<1>7. CASE Crash
  BY <1>2, <1>7, CrashEdits
<1>. QED  BY <1>2, <1>3, <1>4, <1>5, <1>6, <1>7 DEF Outside, Fails

(* The steps of a call before its conffiles are backed up, and of a removal. *)
LEMMA EarlyEdits ==
  ASSUME EditInv, [Next]_vars, Prepare \/ Enter \/ preinst_configure \/ remove_data_files \/ remove_list
  PROVE  EditSafe' /\ BackedUp' /\ Extracted'
<1>0. Types
  BY DEF EditInv, Versions
<1>1. /\ pc = "pkg" /\ pc' = pc /\ Top.pc \in {"prepare", "deps", "preinst", "rm_files", "rm_list"}
      /\ \E w \in {"deps", "preinst", "backup", "rm_list", "rm_done"} :
           Goto(w) /\ (w \in InstallPcs <=> Top.pc \in InstallPcs)
  BY DEF Prepare, Enter, preinst_configure, remove_data_files, remove_list, At, pkg_remove_orphan_dependent,
     InstallPcs
<1>2. BackedUp' /\ Extracted'
  <2>1. PICK w \in {"deps", "preinst", "backup", "rm_list", "rm_done"} :
          Goto(w) /\ (w \in InstallPcs <=> Top.pc \in InstallPcs)
    BY <1>1
  <2>2. w \in InstallPcs \cup RemovePcs /\ w \notin Secured
    BY DEF InstallPcs, RemovePcs, Secured
  <2>3. PICK x : Moves(x) /\ x.pc = w /\ x.marks = Top.marks
    BY <1>0, <1>1, <2>1, <2>2, GotoFacts
  <2>4. stack'[1] = x
    BY <1>0, <2>3, MoveFacts
  <2>. QED  BY <2>2, <2>3, <2>4, NotSecured
<1>3. CASE Prepare \/ preinst_configure \/ remove_list
  <2>1. files' = files /\ backup' = backup /\ edits' = edits
    BY <1>3 DEF Prepare, preinst_configure, remove_list, disk, history
  <2>2. Top.pc \notin Unpacking
    BY <1>1 DEF Unpacking
  <2>. QED  BY <1>2, <2>1, <2>2, SameEdits
<1>. QED  BY <1>2, <1>3, EnterEdits, RemoveEdits

LEMMA MiddleEdits ==
  ASSUME EditInv, [Next]_vars, check_data_file_clashes \/ remove_old_files \/ remove_old_list
  PROVE  EditSafe' /\ BackedUp' /\ Extracted'
<1>0. Types
  BY DEF EditInv, Versions
<1>1. /\ pc = "pkg" /\ pc' = pc /\ Top.pc \in {"clashes", "erase", "unlist"} /\ mem' = mem
      /\ backup' = backup /\ edits' = edits
  BY DEF check_data_file_clashes, remove_old_files, remove_old_list, At, disk, memory, history
<1>2. PICK x : Moves(x) /\ x.pc \in {"erase", "unlist", "extract"}
  <2>1. CASE check_data_file_clashes
    BY <1>0, <2>1, ClashesMoves
  <2>2. CASE remove_old_files \/ remove_old_list
    <3>1. PICK w \in {"unlist", "extract"} : Goto(w)
      BY <2>2 DEF remove_old_files, remove_old_list
    <3>2. w \in InstallPcs /\ Top.pc \in InstallPcs
      BY <1>1 DEF InstallPcs
    <3>3. PICK x : Moves(x) /\ x.pc = w /\ x.marks = Top.marks
      BY <1>0, <1>1, <3>1, <3>2, GotoFacts
    <3>. QED  BY <3>3
  <2>. QED  BY <2>1, <2>2
<1>3. Top.pc \in Secured /\ Top.pc \notin Unpacking
  BY <1>1 DEF Secured, Unpacking
<1>4. BackedUp'
  BY <1>1, <1>2, <1>3, StillSecured
<1>5. Extracted'
  <2>1. stack'[1] = x
    BY <1>0, <1>2, MoveFacts
  <2>2. stack'[1].pc \notin Unpacking
    BY <1>2, <2>1 DEF Unpacking
  <2>. QED  BY <2>2 DEF Extracted
<1>6. CASE check_data_file_clashes \/ remove_old_list
  <2>1. files' = files
    BY <1>6 DEF check_data_file_clashes, remove_old_list, disk
  <2>. QED  BY <1>1, <1>3, <1>4, <1>5, <2>1, SameEdits
<1>. QED  BY <1>4, <1>5, <1>6, EraseEdits

LEMMA NextEdits == ASSUME EditInv, [Next]_vars PROVE EditSafe' /\ BackedUp' /\ Extracted'
<1>0. Types /\ Types'
  BY NextTypes DEF EditInv, Versions
<1>1. CASE UNCHANGED vars
  BY <1>1 DEF EditInv, EditSafe, BackedUp, Extracted, OldConf, Top, Trusted, vars
<1>2. ASSUME NEW n \in Names, opkg_install_cmd(n) \/ opkg_remove_cmd(n)
      PROVE  EditSafe' /\ BackedUp' /\ Extracted'
  <2>1. /\ pc = "idle" /\ UNCHANGED <<files, backup, edits>>
        /\ pc' = "pkg" => stack'[1].pc \notin Secured
    BY <1>0, <1>2, BeginCall
  <2>. QED  BY <2>1, SameEdits, NotSecured
<1>3. CASE satisfy_dependencies_for
  <2>1. pc = "pkg" /\ Top.pc \notin Unpacking /\ UNCHANGED <<files, backup, edits>>
    BY <1>3 DEF satisfy_dependencies_for, At, Unpacking, disk, history
  <2>2. stack'[1].pc \notin Secured
    BY <1>0, <1>3, SatisfyPush DEF Secured
  <2>. QED  BY <2>1, <2>2, SameEdits, NotSecured
<1>4. CASE Finish
  <2>1. pc = "pkg" /\ Top.pc \notin Unpacking /\ UNCHANGED <<files, backup, edits>>
    BY <1>4 DEF Finish, At, Unpacking, disk
  <2>2. pc' = "pkg" => stack'[1].pc \notin Secured
    BY <1>0, <1>4, FinishPop
  <2>. QED  BY <2>1, <2>2, SameEdits, NotSecured
<1>5. ASSUME NEW kept, resolve_conffiles(kept) PROVE EditSafe' /\ BackedUp' /\ Extracted'
  BY <1>5, ResolveEdits
<1>6. CASE Steps
  BY <1>6, EarlyEdits, MiddleEdits, BackupEdits, ExtractEdits DEF Steps
<1>. QED  BY <1>1, <1>2, <1>3, <1>4, <1>5, <1>6, OutsideEdits, EarlyEdits, ListEdits, Actions

-----------------------------------------------------------------------------
LEMMA InitEdits == Init => EditInv
<1>. SUFFICES ASSUME Init PROVE EditInv
  OBVIOUS
<1>1. Versions /\ pc = "idle" /\ dirty = FALSE /\ mem = Empty /\ db = Empty
  BY InitVersions DEF Init
<1>2. Len(stack) = 0
  BY DEF Init
<1>3. Calls /\ Fresh
  BY <1>2 DEF Calls, Fresh
<1>4. \A p \in Pkgs : Empty.st[p] = "not" /\ Empty.sum[p] = NoSums
  BY DEF Empty
<1>5. DOMAIN NoSums = {}
  BY DEF NoSums
<1>6. SumsKept(Empty, Trusted)
  BY <1>4, <1>5 DEF SumsKept, Blank
<1>7. MemLists /\ DbLists
  BY <1>1, <1>4 DEF MemLists, DbLists
<1>8. Owners(owner, Trusted)
  BY Constants DEF Init, Owners, Trusted
<1>9. EditSafe /\ BackedUp /\ Extracted
  BY <1>1 DEF Init, EditSafe, BackedUp, Extracted, Trusted
<1>. QED  BY <1>1, <1>3, <1>6, <1>7, <1>8, <1>9 DEF EditInv

LEMMA NextEditInv == EditInv /\ [Next]_vars => EditInv'
<1>. SUFFICES ASSUME EditInv, [Next]_vars PROVE EditInv'
  OBVIOUS
<1>1. Versions'
  BY NextVersions DEF EditInv
<1>2. SumsKept(mem', Trusted') /\ SumsKept(db', Trusted')
  BY NextSums
<1>3. Calls' /\ Fresh' /\ MemLists' /\ DbLists' /\ Owners(owner', Trusted')
  BY NextCalls, NextFresh, NextMemLists, NextDbLists, NextOwners
<1>4. EditSafe' /\ BackedUp' /\ Extracted'
  BY NextEdits
<1>. QED  BY <1>1, <1>2, <1>3, <1>4 DEF EditInv

(* What a user wrote into a configuration file survives every sequence of      *)
(* installations, upgrades and removals, of failures, interrupts and crashes,  *)
(* but for the conffiles in torn: it is in the file or, if the file is gone or *)
(* a command is under way, in its backup.                                      *)
THEOREM EditsKept == Spec => []EditKept
<1>1. EditInv => EditKept
  BY DEF EditInv, EditSafe, EditKept, Trusted, Rest
<1>. QED  BY <1>1, InitEdits, NextEditInv, PTL DEF Spec

=============================================================================
