-------------------------------- MODULE Opkg --------------------------------
(***************************************************************************)
(* The package manager opkg: the install, upgrade and remove commands of   *)
(* libopkg on a target with one destination, run one after the other, each *)
(* as a process that reads the status file and the file lists, works in    *)
(* memory, and writes both at its end.  Commands fail, are interrupted by  *)
(* SIGINT, and are cut off by a crash between any two steps.  Packages     *)
(* have versions, files, configuration files and dependencies (one level   *)
(* deep, unversioned); they have no Replaces, Conflicts, Provides or       *)
(* Essential fields, and no -force option is given.                        *)
(***************************************************************************)
EXTENDS Integers, Sequences, FiniteSets, SequencesExt

CONSTANTS Pkgs,       \* packages, one for each name and version
          Name, Version, Files, Conf, Deps, \* functions on Pkgs: its fields
          Order,      \* Pkgs sorted by name
          FirstFeed, NextFeed, \* packages offered before and after an update
          Edits,      \* contents a user gives to a configuration file, each once
          MaxCmds,    \* bound: commands
          MaxFaults    \* bound: crashes and partial extractions

Names == {Name[p] : p \in Pkgs}
File == UNION {Files[p] : p \in Pkgs}
ConfFile == UNION {Conf[p] : p \in Pkgs}
None == "none"

ASSUME OpkgAssumption ==
  /\ {FirstFeed, NextFeed} \subseteq SUBSET Pkgs
  /\ \A p \in Pkgs : /\ Conf[p] \subseteq Files[p] /\ Deps[p] \subseteq Names /\ Version[p] \in Nat
                     /\ \A q \in Pkgs : Name[q] \in Deps[p] => Deps[q] = {}
                     /\ \A q \in Pkgs : Conf[q] \cap Files[p] \subseteq Conf[p]
  /\ \A F \in {FirstFeed, NextFeed}, p \in Pkgs : Deps[p] \subseteq {Name[q] : q \in F}
  /\ Order \in Seq(Pkgs) /\ Range(Order) = Pkgs /\ Len(Order) = Cardinality(Pkgs)
  /\ {None, "", "null"} \cap (Pkgs \cup Edits) = {} /\ Edits \cap Pkgs = {}
  /\ {MaxCmds, MaxFaults} \subseteq Nat

VARIABLES files,     \* the file system: what each file holds, or None
          backup,    \* the same of each file's copy with the suffix -opkg.backup
          list,      \* the .list file of each package name; {} if there is none
          db,        \* the status file: state, conffile sums, Auto-Installed and want
          feed,      \* the packages the downloaded lists offer
          mem,       \* what db was read into
          owner,     \* conf->file_hash
          obs,       \* conf->obs_file_hash
          changed,   \* packages with SF_FILELIST_CHANGED
          dirty,     \* opkg_state_changed > 0
          pc,        \* where the command is
          stack,     \* calls of opkg_install_pkg or opkg_remove_pkg under way
          edits,     \* history: the last edit of each file the user has not given up
          cmds, faults, \* history: number of commands, and of crashes
                     \* and partial extractions
          touched,   \* history: names whose files changed since db was written
          abandoned, \* history: names whose upgrade this process gave up
          torn,      \* history: conffiles whose backup or sum is not to be trusted
          spoiled,   \* history: what went wrong for a name since its last installation
          litter,    \* history: files that a mishap may have left without an owner
          tried      \* packages whose postinst this process ran, in order

disk == <<files, backup, list>>
memory == <<mem, owner, obs, changed, dirty>>
history == <<edits, cmds, faults, touched, abandoned, torn, spoiled, litter, tried>>
vars == <<files, backup, list, db, feed, mem, owner, obs, changed, dirty, pc, stack, edits,
          cmds, faults, touched, abandoned, torn, spoiled, litter, tried>>

(* "crash": a crash left its files changed and db not.  "abandoned": the       *)
(* status file was written after its upgrade was given up.  "partial": its     *)
(* data was not all extracted.  "split": it took a file that the same command  *)
(* made obsolete in another package.  "claimed": it brought a file that was    *)
(* not there but had another owner.  "interrupted": SIGINT ended its removal.  *)
Mishaps == {"crash", "abandoned", "partial", "split", "claimed", "interrupted"}

NoSums == [f \in {} |-> None]
Empty == [st |-> [p \in Pkgs |-> "not"], sum |-> [p \in Pkgs |-> NoSums],
          auto |-> {}, want |-> {}]
Installed(p, d) == d.st[p] \in {"installed", "unpacked"}
fetch_installed_by_name(n) ==
  IF \E p \in Pkgs : Name[p] = n /\ Installed(p, mem)
  THEN CHOOSE p \in Pkgs : Name[p] = n /\ Installed(p, mem) ELSE None

(* The packages in pkg_hash: offered by a feed or named in the status file. *)
Known == {p \in Pkgs : p \in feed \/ mem.st[p] # "not" \/ p \in mem.want}
best_candidate(n) ==
  CHOOSE p \in Known : Name[p] = n /\ \A q \in Known : Name[q] = n => Version[q] <= Version[p]

(* The abstract package is SS_INSTALLED, not merely unpacked. *)
has_installed_dependents(p) ==
  \E q \in Known, r \in Pkgs : Name[p] \in Deps[q] /\ Name[r] = Name[q] /\ mem.st[r] = "installed"

(* file_md5sum_alloc gives "" for a file that cannot be opened. *)
md5sum(content) == IF content = None THEN "" ELSE content
conffile_has_been_modified(p, f) == mem.sum[p][f] = "null" \/ md5sum(files[f]) # mem.sum[p][f]

Top == Head(stack)
At(where) == pc = "pkg" /\ Top.pc = where
Goto(where) == stack' = <<[Top EXCEPT !.pc = where]>> \o Tail(stack)
Frame(p, where) == [pkg |-> p, old |-> fetch_installed_by_name(Name[p]), pc |-> where, marks |-> {}]

(* An installation that gives up, and so do the ones it was a dependency of.   *)
GivenUp(frames) == {Name[fr.old] : fr \in {g \in frames : g.old # None /\ g.pc # "prepare"}}
Fail == /\ stack' = <<>> /\ pc' = "configure"
        /\ abandoned' = abandoned \cup GivenUp(Range(stack))

(* What the next process reads: opkg_init reads the status file,               *)
(* pkg_info_preinstall_check the lists.  Of two installed packages that list a *)
(* file the later in Order owns it, and both are flagged.  The memory is that  *)
(* of the next process as soon as one ends.                                    *)
preinstall_check(d, l) ==
  LET Claims(f) == {i \in 1..Len(Order) : Installed(Order[i], d) /\ f \in l[Name[Order[i]]]}
  IN  /\ mem' = d /\ obs' = {} /\ dirty' = FALSE
      /\ owner' = [f \in File |-> IF Claims(f) = {} THEN None
                                  ELSE Order[CHOOSE i \in Claims(f) : \A j \in Claims(f) : j <= i]]
      /\ changed' = {Order[i] : i \in UNION {Claims(f) : f \in {g \in File : Cardinality(Claims(g)) > 1}}}

-----------------------------------------------------------------------------
Init ==
  /\ files = [f \in File |-> None] /\ backup = [f \in File |-> None]
  /\ list = [n \in Names |-> {}] /\ db = Empty /\ feed = FirstFeed
  /\ mem = Empty /\ owner = [f \in File |-> None] /\ obs = {} /\ changed = {} /\ dirty = FALSE
  /\ pc = "idle" /\ stack = <<>>
  /\ edits = [f \in ConfFile |-> None] /\ cmds = 0 /\ faults = 0
  /\ touched = {} /\ abandoned = {} /\ torn = {} /\ spoiled = {} /\ litter = {} /\ tried = <<>>

(* The user edits, or creates, a configuration file between two commands. *)
Edit(f, e) ==
  /\ pc = "idle"
  /\ e \notin Range(files) \cup Range(backup) \cup Range(edits)
  /\ files' = [files EXCEPT ![f] = e] /\ edits' = [edits EXCEPT ![f] = e]
  /\ UNCHANGED <<backup, list, db, feed, memory, pc, stack, cmds, faults, touched, abandoned,
                 torn, spoiled, litter, tried>>

opkg_update ==
  /\ pc = "idle" /\ feed # NextFeed /\ feed' = NextFeed
  /\ UNCHANGED <<disk, db, memory, pc, stack, history>>

-----------------------------------------------------------------------------
(* opkg install or upgrade of a name: opkg_install_by_name takes the newest     *)
(* version that is known, and does nothing if it is not newer than the one      *)
(* installed.                                                                   *)
opkg_install_cmd(n) ==
  /\ pc = "idle" /\ cmds < MaxCmds /\ cmds' = cmds + 1
  /\ \E p \in Known : Name[p] = n
  /\ LET new == best_candidate(n)
         old == fetch_installed_by_name(n)
     IN  IF old # None /\ Version[old] >= Version[new]
         THEN pc' = "configure" /\ UNCHANGED stack
         ELSE pc' = "pkg" /\ stack' = <<Frame(new, "prepare")>>
  /\ UNCHANGED <<disk, db, feed, memory, edits, faults, touched, abandoned, torn, spoiled, litter, tried>>

(* opkg_install_pkg up to update_file_ownership, which gives the new package    *)
(* the files that nobody or the old version owns.  No space, no download, a     *)
(* wrong md5sum or a bad archive end it before that.                            *)
update_file_ownership(p, old) ==
  LET moved == {f \in Files[p] : owner[f] \in {None, old}}
  IN  /\ owner' = [f \in File |-> IF f \in moved THEN p ELSE owner[f]]
      /\ changed' = IF \E f \in moved : owner[f] # None THEN changed \cup {p, old} ELSE changed
      /\ obs' = IF old = None THEN obs
                ELSE obs \cup {f \in list[Name[old]] : owner'[f] = old}

Prepare ==
  /\ At("prepare")
  /\ mem' = [mem EXCEPT !.want = (@ \cup {Top.pkg}) \ {Top.old},
                        !.sum[Top.pkg] = IF @ = NoSums THEN [f \in Conf[Top.pkg] |-> "null"] ELSE @]
  /\ update_file_ownership(Top.pkg, Top.old)
  /\ Goto("deps")
  /\ UNCHANGED <<disk, db, feed, dirty, pc, history>>

(* A dependency is marked auto_installed also when its installation failed. *)
PrepareFails ==
  /\ At("prepare")
  /\ mem' = [mem EXCEPT !.want = (@ \cup {Top.pkg}) \ {Top.old},
                        !.auto = IF Len(stack) > 1 THEN @ \cup {Top.pkg} ELSE @]
  /\ Fail
  /\ UNCHANGED <<disk, db, feed, owner, obs, changed, dirty, edits, cmds, faults, touched, torn,
                 spoiled, litter, tried>>

(* satisfy_dependencies_for: install one that is missing, or go on.  (Mutant: a *)
(* package counts as a dependency of itself.)                                   *)
Missing_self == {n \in Deps[Top.pkg] \cup {Name[Top.pkg]} : fetch_installed_by_name(n) = None}
Missing == {n \in Deps[Top.pkg] : fetch_installed_by_name(n) = None}
satisfy_dependencies_for ==
  /\ At("deps") /\ Missing # {}
  /\ \E n \in Missing :
       /\ stack' = <<Frame(best_candidate(n), "prepare")>> \o stack
       /\ mem' = [mem EXCEPT !.want = @ \cup {best_candidate(m) : m \in Missing}]
  /\ UNCHANGED <<disk, db, feed, owner, obs, changed, dirty, pc, history>>

(* SIGINT is blocked from here on.  pkg_remove_orphan_dependent removes the     *)
(* automatically installed packages the old version depended on and the new one *)
(* does not; opkg_remove_pkg leaves the owners in file_hash as they were.       *)
Kept(p) == {f \in list[Name[p]] : f \in DOMAIN mem.sum[p] /\ conffile_has_been_modified(p, f)}
Orphans ==
  IF Top.old = None THEN {}
  ELSE {p \in mem.auto : /\ Installed(p, mem) /\ Name[p] \in Deps[Top.old] \ Deps[Top.pkg]
                         /\ ~has_installed_dependents(p)}
pkg_remove_orphan_dependent ==
  LET gone == UNION {list[Name[p]] \ Kept(p) : p \in Orphans}
      names == {Name[p] : p \in Orphans}
  IN  /\ files' = [f \in File |-> IF f \in gone THEN None ELSE files[f]]
      /\ list' = [n \in Names |-> IF n \in names THEN {} ELSE list[n]]
      /\ mem' = [mem EXCEPT !.st = [p \in Pkgs |-> IF p \in Orphans THEN "not" ELSE @[p]],
                            !.want = @ \ Orphans]
      /\ changed' = changed \cup {Top.pkg} \cup Orphans
      /\ touched' = touched \cup names
      /\ Goto("preinst")

Enter ==
  /\ At("deps") /\ Missing = {}
  /\ dirty' = TRUE
  /\ pkg_remove_orphan_dependent
  /\ UNCHANGED <<backup, db, feed, owner, obs, pc, edits, cmds, faults, abandoned, torn, spoiled, litter, tried>>

preinst_configure ==
  /\ At("preinst")
  /\ Goto("backup")
  /\ UNCHANGED <<disk, db, feed, memory, pc, history>>

(* Gives up before the point of no return; what backup_modified_conffiles_unwind *)
(* removes depends on how far the installation came.  A backup that this         *)
(* installation did not make, of a file that is gone, is removed too.            *)
Unwind(removed) ==
  /\ backup' = [f \in File |-> IF f \in removed THEN None ELSE backup[f]]
  /\ mem' = [mem EXCEPT !.auto = IF Len(stack) > 1 THEN @ \cup {Top.pkg} ELSE @]
  /\ torn' = torn \cup {f \in removed : files[f] = None /\ backup[f] # None}
  /\ Fail
  /\ UNCHANGED <<files, list, db, feed, owner, obs, changed, dirty, edits, cmds, faults, touched,
                 spoiled, litter, tried>>
OldConf == IF Top.old = None THEN {} ELSE DOMAIN mem.sum[Top.old]
NewConf == DOMAIN mem.sum[Top.pkg]

preinst_fails == At("preinst") /\ Unwind({})

(* Modified conffiles of the old version, and the files the new one declares    *)
(* conffiles and the old did not unless a backup is there, are copied.          *)
(* (Mutant: the second loop is missing.)                                        *)
ToBackUp_old ==
  {f \in OldConf : files[f] # None /\ conffile_has_been_modified(Top.old, f)}
ToBackUp ==
  {f \in OldConf : files[f] # None /\ conffile_has_been_modified(Top.old, f)}
    \cup {f \in NewConf \ OldConf : files[f] # None /\ backup[f] = None}
backup_modified_conffiles ==
  /\ At("backup")
  /\ backup' = [f \in File |-> IF f \in ToBackUp THEN files[f] ELSE backup[f]]
  /\ torn' = torn \cup {f \in NewConf \ OldConf : files[f] # None /\ backup[f] # None}
  /\ Goto("clashes")
  /\ UNCHANGED <<files, list, db, feed, memory, pc, edits, cmds, faults, touched, abandoned, spoiled, litter, tried>>

backup_fails == At("backup") /\ ToBackUp # {} /\ Unwind(OldConf \cup NewConf)

(* A file that exists is no clash if it has a backup, if it is owned by the old *)
(* version or by a package of the same name, or if it is obsolete.  (Mutant:    *)
(* only a file without an owner is one.)                                        *)
Clash_unowned(f) == files[f] # None /\ backup[f] = None /\ f \notin obs /\ owner[f] = None
Clash(f) ==
  /\ files[f] # None /\ backup[f] = None /\ f \notin obs
  /\ owner[f] # None => Name[owner[f]] # Name[Top.pkg]
check_data_file_clashes ==
  /\ At("clashes")
  /\ ~\E f \in Files[Top.pkg] : Clash(f)
  /\ LET foreign == {f \in Files[Top.pkg] : Name[owner[f]] # Name[Top.pkg]}
     IN  stack' = <<[Top EXCEPT !.pc = "erase",
                      !.marks = {IF files[f] # None THEN "split" ELSE "claimed" : f \in foreign}]>>
                    \o Tail(stack)
  /\ UNCHANGED <<disk, db, feed, memory, pc, history>>

clash_found ==
  /\ At("clashes")
  /\ \E f \in Files[Top.pkg] : Clash(f)
  /\ Unwind(OldConf \cup NewConf)

(* The point of no return.  remove_obsolesced_files and the first half of       *)
(* remove_data_files_and_list take away what the old version's list names, the  *)
(* modified conffiles excepted, whoever owns it.  (Mutant: nothing is removed.) *)
Obsolesced == {f \in list[Name[Top.old]] \ Files[Top.pkg] : owner[f] = Top.old}
remove_old_files_none ==
  /\ At("erase") /\ Goto("unlist") /\ touched' = touched \cup {Name[Top.pkg]}
  /\ UNCHANGED <<disk, db, feed, memory, pc, edits, cmds, faults, abandoned, torn, spoiled, litter, tried>>
remove_old_files ==
  /\ At("erase")
  /\ files' = IF Top.old = None THEN files
              ELSE [f \in File |-> IF f \in Obsolesced \cup (list[Name[Top.old]] \ Kept(Top.old))
                                   THEN None ELSE files[f]]
  /\ touched' = touched \cup {Name[Top.pkg]}
  /\ Goto("unlist")
  /\ UNCHANGED <<backup, list, db, feed, memory, pc, edits, cmds, faults, abandoned, torn, spoiled, litter, tried>>

remove_old_list ==
  /\ At("unlist")
  /\ list' = IF Top.old = None THEN list ELSE [list EXCEPT ![Name[Top.old]] = {}]
  /\ Goto("extract")
  /\ UNCHANGED <<files, backup, db, feed, memory, pc, history>>

(* install_data_files: its caller ignores an error, after which some files are  *)
(* there and the list is not written.                                           *)
Extract(S) ==
  /\ At("extract")
  /\ S = Files[Top.pkg] \/ faults < MaxFaults
  /\ faults' = IF S = Files[Top.pkg] THEN faults ELSE faults + 1
  /\ files' = [f \in File |-> IF f \in S THEN Top.pkg ELSE files[f]]
  /\ touched' = touched \cup {Name[owner[f]] : f \in S}
  /\ litter' = (litter \ S) \cup {f \in S : owner[f] # Top.pkg /\ files[f] = None}
  /\ stack' = <<[Top EXCEPT !.pc = IF S = Files[Top.pkg] THEN "list" ELSE "resolve",
                  !.marks = IF S = Files[Top.pkg] THEN @ ELSE @ \cup {"partial"}]>> \o Tail(stack)
  /\ UNCHANGED <<backup, list, db, feed, memory, pc, edits, cmds, abandoned, torn, spoiled, tried>>

pkg_write_filelist ==
  /\ At("list")
  /\ list' = [list EXCEPT ![Name[Top.pkg]] = {f \in File : owner[f] = Top.pkg}]
  /\ changed' = changed \ {Top.pkg}
  /\ Goto("resolve")
  /\ UNCHANGED <<files, backup, db, feed, mem, owner, obs, dirty, pc, history>>

(* A sum that is missing is that of the file just extracted.  A backup that     *)
(* differs from it replaces the file if the user prefers it (kept), and is      *)
(* removed.                                                                     *)
resolve_conffiles(kept) ==
  LET p == Top.pkg
      sum == [f \in NewConf |-> IF mem.sum[p][f] = "null" THEN md5sum(files[f]) ELSE mem.sum[p][f]]
      here == {f \in NewConf : files[f] # None /\ backup[f] # None}
      asked == {f \in here : md5sum(backup[f]) # sum[f]}
  IN  /\ At("resolve")
      /\ kept \subseteq asked
      /\ files' = [f \in File |-> IF f \in kept THEN backup[f] ELSE files[f]]
      /\ backup' = [f \in File |-> IF f \in here THEN None ELSE backup[f]]
      /\ mem' = [mem EXCEPT !.sum[p] = sum]
      /\ edits' = [f \in ConfFile |-> IF f \in asked \ kept THEN None ELSE edits[f]]
      /\ torn' = IF "partial" \in Top.marks THEN torn \cup Conf[p] ELSE torn
      /\ Goto("finish")
      /\ UNCHANGED <<list, db, feed, owner, obs, changed, dirty, pc, cmds, faults, touched, abandoned,
                     spoiled, litter, tried>>

(* The package is unpacked, the old version no longer installed.  (Mutant: that *)
(* is forgotten.)                                                              *)
Finish_old ==
  /\ At("finish")
  /\ mem' = [mem EXCEPT !.st = [p \in Pkgs |-> IF p = Top.pkg THEN "unpacked" ELSE @[p]],
                        !.auto = IF Len(stack) > 1 THEN @ \cup {Top.pkg} ELSE @]
  /\ stack' = Tail(stack)
  /\ pc' = IF Len(stack) = 1 THEN "configure" ELSE "pkg"
  /\ spoiled' = {s \in spoiled : s[1] # Name[Top.pkg]} \cup ({Name[Top.pkg]} \X Top.marks)
  /\ UNCHANGED <<disk, db, feed, owner, obs, changed, dirty, edits, cmds, faults, touched, abandoned,
                 torn, litter, tried>>

Finish ==
  /\ At("finish")
  /\ mem' = [mem EXCEPT !.st = [p \in Pkgs |-> CASE p = Top.pkg -> "unpacked"
                                               [] p = Top.old -> "not"
                                               [] OTHER -> @[p]],
                        !.auto = IF Len(stack) > 1 THEN @ \cup {Top.pkg} ELSE @]
  /\ stack' = Tail(stack)
  /\ pc' = IF Len(stack) = 1 THEN "configure" ELSE "pkg"
  /\ spoiled' = {s \in spoiled : s[1] # Name[Top.pkg]} \cup ({Name[Top.pkg]} \X Top.marks)
  /\ UNCHANGED <<disk, db, feed, owner, obs, changed, dirty, edits, cmds, faults, touched, abandoned,
                 torn, litter, tried>>

-----------------------------------------------------------------------------
(* opkg remove of a name on which no installed package depends. *)
opkg_remove_cmd(n) ==
  /\ pc = "idle" /\ cmds < MaxCmds /\ cmds' = cmds + 1
  /\ LET p == fetch_installed_by_name(n)
     IN  /\ p # None /\ ~has_installed_dependents(p)
         /\ stack' = <<[pkg |-> p, old |-> None, pc |-> "rm_files", marks |-> {}]>>
         /\ mem' = [mem EXCEPT !.want = @ \ {p}]
         /\ changed' = changed \cup {p}
  /\ pc' = "pkg" /\ dirty' = TRUE
  /\ UNCHANGED <<disk, db, feed, owner, obs, edits, faults, touched, abandoned, torn, spoiled, litter, tried>>

remove_data_files ==
  /\ At("rm_files")
  /\ files' = [f \in File |-> IF f \in list[Name[Top.pkg]] \ Kept(Top.pkg) THEN None ELSE files[f]]
  /\ touched' = touched \cup {Name[Top.pkg]}
  /\ Goto("rm_list")
  /\ UNCHANGED <<backup, list, db, feed, memory, pc, edits, cmds, faults, abandoned, torn, spoiled, litter, tried>>

remove_list ==
  /\ At("rm_list")
  /\ list' = [list EXCEPT ![Name[Top.pkg]] = {}]
  /\ Goto("rm_done")
  /\ UNCHANGED <<files, backup, db, feed, memory, pc, history>>

Removed ==
  /\ At("rm_done")
  /\ mem' = [mem EXCEPT !.st[Top.pkg] = "not"]
  /\ stack' = <<>> /\ pc' = "status"
  /\ UNCHANGED <<disk, db, feed, owner, obs, changed, dirty, history>>

-----------------------------------------------------------------------------
(* opkg_configure_packages runs the postinst scripts in the order of Order. *)
Untried == {i \in 1..Len(Order) : mem.st[Order[i]] = "unpacked" /\ Order[i] \notin Range(tried)}
opkg_configure(ok) ==
  /\ pc = "configure" /\ Untried # {}
  /\ LET p == Order[CHOOSE i \in Untried : \A j \in Untried : i <= j]
     IN  /\ tried' = Append(tried, p)
         /\ mem' = IF ok THEN [mem EXCEPT !.st[p] = "installed"] ELSE mem
  /\ dirty' = (dirty \/ ok)
  /\ UNCHANGED <<disk, db, feed, owner, obs, changed, pc, stack, edits, cmds, faults, touched, abandoned,
                 torn, spoiled, litter>>

ConfigureDone ==
  /\ pc = "configure" /\ Untried = {} /\ pc' = "status"
  /\ UNCHANGED <<disk, db, feed, memory, stack, history>>

(* opkg_conf_write_status_files: a package that is neither installed nor wanted *)
(* is left out, and so is a conffile without a sum.                             *)
Persistent(m) ==
  LET printed == {p \in Pkgs : m.st[p] # "not" \/ p \in m.want}
      Known5(p) == {f \in DOMAIN m.sum[p] : m.sum[p][f] \notin {"", "null"}}
  IN  [m EXCEPT !.auto = @ \cap printed,
                !.sum = [p \in Pkgs |-> IF p \in printed THEN [f \in Known5(p) |-> @[p][f]] ELSE NoSums]]
write_status_files ==
  /\ pc = "status" /\ dirty
  /\ db' = Persistent(mem) /\ touched' = {} /\ pc' = "lists"
  /\ spoiled' = spoiled \cup (abandoned \X {"abandoned"})
  /\ litter' = litter \cup UNION {list[n] : n \in abandoned}
  /\ UNCHANGED <<disk, feed, memory, stack, edits, cmds, faults, abandoned, torn, tried>>

nothing_to_be_done ==
  /\ pc = "status" /\ ~dirty
  /\ preinstall_check(db, list) /\ pc' = "idle" /\ touched' = {} /\ abandoned' = {} /\ tried' = <<>>
  /\ UNCHANGED <<disk, db, feed, stack, edits, cmds, faults, torn, spoiled, litter>>

pkg_write_changed_filelists ==
  /\ pc = "lists"
  /\ LET Of(n) == {p \in changed : Name[p] = n /\ Installed(p, mem)}
     IN  list' = [n \in Names |-> IF Of(n) = {} THEN list[n]
                                  ELSE {f \in File : owner[f] \in Of(n)}]
  /\ preinstall_check(db, list')
  /\ pc' = "idle" /\ touched' = {} /\ abandoned' = {} /\ tried' = <<>>
  /\ UNCHANGED <<files, backup, db, feed, stack, edits, cmds, faults, torn, spoiled, litter>>

(* SIGINT where it is not blocked: the handler writes the database and exits. *)
sigint_handler ==
  /\ \/ pc = "configure"
     \/ pc = "pkg" /\ Top.pc \in {"prepare", "deps", "rm_files", "rm_list", "rm_done"}
  /\ pc' = "status" /\ stack' = <<>>
  /\ abandoned' = abandoned \cup GivenUp(Range(stack))
  /\ spoiled' = spoiled \cup {<<Name[fr.pkg], "interrupted">> :
                               fr \in {g \in Range(stack) : g.pc \in {"rm_list", "rm_done"}}}
  /\ UNCHANGED <<disk, db, feed, memory, edits, cmds, faults, touched, torn, litter, tried>>

(* The process is killed or the power fails.  Packages whose lists then name    *)
(* the same file are as good as damaged: it will be taken from one of them.     *)
Unlisted == IF pc = "lists" THEN {Name[p] : p \in changed} ELSE {}
Crash ==
  /\ pc # "idle" /\ faults < MaxFaults
  /\ faults' = faults + 1 /\ pc' = "idle" /\ stack' = <<>>
  /\ preinstall_check(db, list)
  /\ spoiled' = spoiled \cup ((touched \cup {Name[p] : p \in changed'}) \X {"crash"})
  /\ litter' = litter \cup {f \in File : owner[f] # None /\ Name[owner[f]] \in touched \cup Unlisted}
  /\ torn' = torn \cup {f \in ConfFile : backup[f] # None}
                  \cup {f \in ConfFile : \E p \in Pkgs : Installed(p, db) /\ f \in list[Name[p]] \ Conf[p]}
  /\ touched' = {} /\ abandoned' = {} /\ tried' = <<>>
  /\ UNCHANGED <<disk, db, feed, edits, cmds>>

Next ==
  \/ \E f \in ConfFile, e \in Edits : Edit(f, e)
  \/ opkg_update
  \/ \E n \in Names : opkg_install_cmd(n) \/ opkg_remove_cmd(n)
  \/ Prepare \/ PrepareFails \/ satisfy_dependencies_for \/ Enter
  \/ preinst_configure \/ preinst_fails \/ backup_modified_conffiles \/ backup_fails
  \/ check_data_file_clashes \/ clash_found \/ remove_old_files \/ remove_old_list
  \/ pc = "pkg" /\ \E S \in SUBSET Files[Top.pkg] : Extract(S)
  \/ pkg_write_filelist \/ Finish
  \/ \E kept \in SUBSET ConfFile : resolve_conffiles(kept)
  \/ remove_data_files \/ remove_list \/ Removed
  \/ \E ok \in BOOLEAN : opkg_configure(ok)
  \/ ConfigureDone \/ write_status_files \/ nothing_to_be_done \/ pkg_write_changed_filelists
  \/ sigint_handler \/ Crash

Spec == Init /\ [][Next]_vars

-----------------------------------------------------------------------------
Content == Pkgs \cup Edits \cup {None}
Sums == [st : [Pkgs -> {"not", "unpacked", "installed"}], auto : SUBSET Pkgs, want : SUBSET Pkgs,
         sum : [Pkgs -> UNION {[D -> Content \cup {"", "null"}] : D \in SUBSET ConfFile}]]

(* Every variable has its type; the calls under way are nested at most twice    *)
(* (opkg_install_pkg for a dependency inside opkg_install_pkg).                 *)
TypeOK ==
  /\ files \in [File -> Content] /\ backup \in [File -> Content]
  /\ list \in [Names -> SUBSET File] /\ {db, mem} \subseteq Sums /\ feed \in {FirstFeed, NextFeed}
  /\ owner \in [File -> Pkgs \cup {None}] /\ obs \subseteq File /\ changed \subseteq Pkgs
  /\ dirty \in BOOLEAN /\ pc \in {"idle", "pkg", "configure", "status", "lists"}
  /\ Len(stack) <= 2 /\ (pc = "pkg" <=> stack # <<>>)
  /\ \A fr \in Range(stack) : fr.pkg \in Pkgs /\ fr.old \in Pkgs \cup {None} /\ fr.marks \subseteq Mishaps
  /\ edits \in [ConfFile -> Edits \cup {None}] /\ cmds \in 0..MaxCmds /\ faults \in 0..MaxFaults
  /\ touched \subseteq Names /\ abandoned \subseteq Names /\ torn \subseteq ConfFile
  /\ spoiled \subseteq Names \X Mishaps /\ litter \subseteq File /\ tried \in Seq(Pkgs)

Rest == pc = "idle"

(* What a user wrote into a configuration file is never lost unless he chose the *)
(* maintainer's version, whatever failed, was interrupted or crashed: it is in   *)
(* the file or, while a command runs and where an upgrade has removed the file,  *)
(* in its backup.  The exceptions (torn) are a partial extraction; a crash with  *)
(* a backup on disk, or with the new version's list there and the old version in *)
(* the status file, which does not know that the file is a conffile; and, for a  *)
(* package that brings a conffile of which an earlier upgrade left a backup, an  *)
(* installation that gives up and removes that backup, or one that leaves it     *)
(* there in place of the file the user made since.                               *)
EditKept ==
  \A f \in ConfFile \ torn :
    edits[f] # None => \/ files[f] = edits[f]
                       \/ backup[f] = edits[f] /\ (Rest => files[f] = None)

Matches(p) == list[Name[p]] = Files[p] /\ \A f \in Files[p] \ Conf[p] : files[f] = p

(* Between commands the database and the file system agree: a package the        *)
(* status file calls installed or unpacked has its files, and its list names     *)
(* exactly these, unless one of the mishaps befell it.                           *)
DbMatches ==
  Rest => \A p \in Pkgs : Installed(p, db) /\ ({Name[p]} \X Mishaps) \cap spoiled = {} => Matches(p)

(* No two versions of a package are installed at once, in memory or in the       *)
(* status file, whatever crashed between finishing one and writing the file.     *)
OneVersion ==
  \A p, q \in Pkgs : Name[p] = Name[q] /\ p # q =>
    /\ ~(Installed(p, mem) /\ Installed(q, mem))
    /\ ~(Installed(p, db) /\ Installed(q, db))

(* A data file that is on the disk between commands is in the list of an         *)
(* installed package.  The exceptions (litter) are the files of packages that a  *)
(* crash caught between their extraction and the writing of status and list, the *)
(* files of a package whose upgrade was given up, and files brought in while     *)
(* file_hash had another owner for them; each until a package brings it anew.    *)
NoGhostFiles ==
  Rest => \A f \in File \ ConfFile :
    files[f] # None => f \in litter \/ \E p \in Pkgs : Installed(p, db) /\ f \in list[Name[p]]

(* Packages that split: a file that moves to a new dependency survives the       *)
(* upgrade ("upgrades of packages that split will not fail").                    *)
SplitKept ==
  Rest => \A p \in Pkgs :
    Installed(p, db) /\ ({Name[p]} \X (Mishaps \ {"split"})) \cap spoiled = {}
      => \A f \in Files[p] \ Conf[p] : files[f] # None

(* Packages are configured in the order of their dependencies.                   *)
ConfiguredInOrder ==
  \A i, j \in 1..Len(tried) : i < j => Name[tried[j]] \notin Deps[tried[i]]
=============================================================================
