# TLA+ models of gsmd and opkg

This directory holds a verification project for the openmoko repository: TLA+
modules that model **gsmd**, the daemon through which every program on the phone
talks to the GSM modem, with the client library's side of its socket, and the
core of **opkg**, the package manager that installs the phone's software; TLC
configurations that model-check them; and TLAPS proofs. File names below are
relative to `src/target/gsm/src/gsmd/` of the repository, in the parts about opkg
to `src/target/opkg/libopkg/`, unless they start with a directory.

## Inventory

### The repository

The repository collects everything the openmoko phones are made of. Most of it
is hardware data (`doc/hardware`, `gta02-core`), vendored programs
(`src/host/qemu-neo1973`, `src/target/AR6kSDK.build_sw.18`), graphical
applications, widgets and panel plugins (`src/target/OM-2007.2`), the package
manager `opkg` (a fork of ipkg), and small host tools (`dfu-util`, `envedit`,
`sjf2410-linux`, ...). The program with the most state, concurrency and failure
handling of its own is gsmd, `src/target/gsm`; the one with the most persistent
state to keep consistent is `opkg`. This project is about these two.
`PROJECT.json` lists the other parts with the reason why they are left out.

### gsmd's components

| component | state | operations | talks to |
|---|---|---|---|
| AT command engine, `atcmd.c` | `pending_atcmds`, `busy_atcmds`, write interest in the UART, `mlbuf`, `mlunsolicited`, `interpreter_ready` | `atcmd_submit`, `cancel_atcmd`, `atcmd_select_cb`, `ml_parse`, `atcmd_prompt`, `atcmd_done`, `discard_timeout`, `atcmd_terminate_matching` | modem (lines), callbacks of the commands, timers |
| line parser (in `atcmd.c`) | parser state, 1 KB line | `llparse_string` | calls `ml_parse`, `atcmd_prompt` |
| client socket, `usock.c` | `users`; per client its outgoing messages and write interest | `gsmd_usock_cb`, `gsmd_usock_user_cb`, one handler per message type | submits commands, queues replies |
| messages and cell broadcast, `sms_cb.c` | none of its own | `usock_rcv_sms`, `usock_rcv_cb`, reply callbacks, `+CMT` parser, `sms_cb_network_init` | engine, clients |
| unsolicited codes, `unsolicited.c` | `dev_state` (registered, ringing) | `unsolicited_parse`, `usock_evt_send`, `generate_event_from_cme` | clients (events), engine (`+CREG` submits settings) |
| start-up and liveness, `gsmd.c` | `alive_responded`, interval timer | `gsmd_initsettings`, `gsmd_modem_alive`, `alive_tmr_cb` | engine, timers |
| GTA01 plugin, `machine_gta01.c` | none | wake-up command before every command, power-off | engine, timers |
| timers, `timer.c` | list of timers, the kernel timer | register, unregister, `gsmd_timer_check_n_run` (in the SIGALRM handler) | callbacks above |
| select loop, `select.c` | list of descriptors | `gsmd_select_main` | handlers above |
| response parser, PDU coding, operator cache, vendor plugins | - | pure parsing and tables | engine |
| `libgsmd` | next message id, stream buffer | `lgsm_send`, `lgsm_handle_packet` | daemon's socket |

### opkg's components

| component | state | operations | talks to |
|---|---|---|---|
| commands, `opkg_cmd.c` | `opkg_state_changed` | install, upgrade, remove, configure; the SIGINT handler; writing the database at the end | all below |
| installation, `opkg_install.c` | `obs_file_hash`; backups of conffiles | `opkg_install_pkg`: dependencies, orphans, scripts, backups, clash check, removal of the old version, extraction, conffiles; unwinding | file system, dependency solver |
| removal, `opkg_remove.c` | - | `opkg_remove_pkg`, `remove_data_files_and_list` | file system, file lists |
| database, `pkg.c`, `pkg_hash.c`, `opkg_conf.c` | packages with state and wish, `file_hash` (who owns a file), status file, one `.list` per package | reading both at start, `pkg_write_filelist`, `opkg_conf_write_status_files` | file system |
| dependencies, `pkg_depends.c` | `dependencies_checked` | `pkg_hash_fetch_unsatisfied_dependencies` | database |

### What is hard

* A reply is matched to a command only by position: whatever line arrives
  belongs to the head of `busy_atcmds`. Timers, hang-ups and departing clients
  remove that head while the modem is still answering.
* One flag, the write interest in the UART, is the only thing that makes the
  queue move. It is cleared on every visit and set from several handlers.
* A two-line command (an SMS) stays in `pending_atcmds` between its two lines,
  where the rest of the engine takes it for an unsent command.
* Commands point to their client; clients disconnect at any time.
* Timers are linked, fired, unlinked and freed by different functions, and the
  callbacks run inside a signal handler that can interrupt any of them.
* The modem's bytes and the clients' messages come in reads of any size, while
  the code of the socket takes one read for whole messages.
* opkg changes the file system step by step and writes its database once at the
  end: a failure, an interrupt or a crash in between leaves the two apart.

`PROJECT.json` lists the hazards line by line, with the properties that cover
each one or the reason why none does yet.

### What makes the components correct

* engine: commands are sent in order, one at a time, under a live timer; the
  queue never sleeps on work; every command ends exactly once and eventually;
  lines reach the command they answer; no crash.
* clients: no reference to a departed client; no queued message forgotten;
  replies carry the id of the request.
* line parser: every line and prompt is delivered once, however it was cut up,
  and a damaged line does not damage those after it.
* timers: none runs early, none is forgotten, none is used after it was freed.
* socket: requests and answers keep their order, a blocking call returns, and
  with its own answer.
* opkg: what a user wrote into a configuration file is not lost; database, lists
  and file system agree; one version of a package at a time; no file without an
  owner.
* start-up, liveness and GTA01: the same engine properties with the extra
  commands and timers they bring.

## Modules

* **`Gsmd`** - the engine, the client socket, the daemon's own commands, the
  GTA01 plugin and the modem. Details below.
* **`CommandService`** - what the engine promises: commands are numbered as they
  arrive, served from the front one at a time, and never come back; only an
  urgent command goes to the front, ending the one being served; commands may be
  withdrawn wherever they stand, and those that stay keep their order.
* **`GsmdService`** - the refinement mapping (`pending` is the line, `busy` the
  command being served) and `ImplementsService`.
* **`LlParse`** - the byte-level line parser of `atcmd.c` with its read loop, fed
  by a modem and a line that loses bytes.
* **`Timer`** - `timer.c` with the clock, the kernel timer and SIGALRM, and its
  users: the discard timer, the ringing timer and the liveness interval.
* **`Stream`** - the socket between libgsmd and gsmd as two streams of units.
* **`Opkg`** - install, upgrade and remove, with failures, interrupts, crashes.
* **`MCGsmd`**, **`MCLlParse`**, **`MCOpkg`** - values for TLC.
* **`GsmdProofs`** - lemmas on the operators, the type invariant, the engine's
  inductive invariant and what follows.
* **`GsmdOrderProofs`** - the order of the commands, whose answers the modem owes,
  the refinement of `CommandService`, and whose lines a reply is made of.
* **`LlParseProofs`**, **`TimerProofs`**, **`StreamProofs`** - the theorems of the
  other parts of gsmd.
* **`OpkgProofs`**, **`OpkgEditProofs`**, **`OpkgFilesProofs`** - the theorems about
  opkg: types and versions, the user's edits, and the files with their lists.

### How `Gsmd` corresponds to the code

| variable | code |
|---|---|
| `pending`, `busy` | `g->pending_atcmds`, `g->busy_atcmds`; a command keeps its kind, `ctx`, whether `cb` is set, the lines left to send and the state of its timer |
| `want` | `GSMD_FD_WRITE` in `g->gfd_uart.when` |
| `ready` | `g->interpreter_ready` |
| `mlbuf`, `mlunsol` | `g->mlbuf`, by line; `g->mlunsolicited` |
| `responded`, `registered` | `g->alive_responded`, `g->dev_state.registered` |
| `conn`, `out`, `uwant` | `g->users`, `finished_ucmds` and `GSMD_FD_WRITE` of each client |
| `up` | running, ended by `exit`, or crashed |
| `owed` | *external*: lines the modem has read and not answered |
| `n`, `ended`, `held`, `early`, `orphan`, `stray` | history, read by properties only (`n` also numbers the commands). `early`: a command ended before it was answered in full; `orphan`: one without callback left lines in `mlbuf`; `stray`: a prompt came that no half-sent command waited for |

A step is one call of a handler: `UartWrite` is one visit of the writable UART
and sends one line; `Request`, `Hangup`, `PowerOff`, `Connect`, `Disconnect`
and `UserWrite` are the socket; `FinalLine`, `InfoLine`, `UrcLine`,
`CarrierLine`, `ReadyLine` and `Prompt` are lines from the modem;
`discard_timeout`, `wakeup_timeout`, `alive_tmr_cb`, `poweroff_timeout` and
`AliveInterval` are timers. A callback that runs inside a handler is part of
the handler's step.

*Commands* are abstracted to **kinds**, by what the engine can tell apart:
whether the text is extended (`AT+...`), whether it has two lines, whether it
has a callback, whether the callback replies to an information text or to a bare
result, whether the client's id is kept. The set `pcmd_type_handlers` gives, for
each handler of a client message, the kinds it submits. `KeepsId` distinguishes
handlers that pass on the request's id from those that pass 0; a kind whose name
ends in 0 belongs to the latter. *Lines* are abstracted to the command they
answer and to how `ml_parse` classifies them: `+CREG`, a two-line message,
another extended line, plain text.

*The modem* is external. It answers what it read in order and at most once, may
drop any line, may refuse the first line of a message instead of prompting,
and sends the unsolicited lines in `Urc` at any time. This is weaker than what
the code expects of it; losing and delaying answers is what the timers are for.

*Timers.* A timer that is on the list may expire at any moment.
`gsmd_timer_check_n_run` takes it off the list before its callback runs; the
callbacks of commands act on the head of `busy` only and return when the timer
is not the head's, leaving the command with a pointer to an unlinked timer
(`"dead"`). `alive_tmr_cb` frees its timer under the command (`"freed"`).
Unlinking a dead timer dereferences the poison left by `llist_del`: a crash. A
freed timer's memory may have been reused, so unlinking it crashes or not: a
nondeterministic choice.

*Deliberate abstractions.* Handlers are atomic, although SIGALRM may interrupt
one (`Timer` splits the ones that use the timer list). Echoed lines and failed
writes change nothing and are stutters. The UART and the sockets take whole lines
and messages or nothing (`LlParse` and `Stream` are about what happens when they
do not). Every event goes to every client (a new client subscribes to everything;
the mask is left out). The immediate reply to an IMSI request, the ringing flag
and the codes that only make an event change none of the modelled state and are
left out. The text of a reply is well formed. A few settings (`InitKinds`,
`NetKinds`) represent the dozen that the daemon submits after its first command
and on registration; the theorems hold for every sequence of settings.
`ReadyAtStart` is the plugin's choice in its `init` or the command line's `wait`
option (`gsmd.c`, `main`). `DropPending` describes the surviving queue by the
number of removed commands before each survivor, which the prover can reason
about.

### `LlParse`

`llparse_byte` is a function from a parser (`state`, `buf`) and a byte to a parser
or an error; `llparse_string` folds it over what one `read` returned and appends
to `got` what it hands to `ml_parse` or `atcmd_prompt`; an error ends the fold and
throws the rest of the read away, as in the code. `Reading` cuts the wire anywhere
up to the size of `rxbuf`. The modem sends items: a response `CR LF text CR LF`, a
prompt, or the echo of a command, `text CR`. A byte is a string that names it.
Texts are not empty and hold no CR or LF, which only delimit them.
The build has no `STRICT`, and the flags are `LGSM_ATCMD_F_EXTENDED` alone
(`atcmd_init`), so the branches of `LFCR` are not taken and are left out.

### `Timer`

Time is a number of ticks, `Sec` of them to a second; a `timeval` is the record of
both fields, so that the missing normalisation in `gsmd_timer_register` and
`tv_sub` is what it is in the code. The main program is a list `todo` of steps
(`add` or `del` on the list, `calc`: read the clock and compute the difference,
`set`: call `setitimer`), and `sig_handler` may come between any two: it runs all
expired timers and re-arms the kernel timer from its own calculation. `setitimer`
is external: it refuses a negative time and disarms on zero. The timer of a
command is registered and unregistered by `discard_timer` and `atcmd_done`, the
ringing timer by `state_ringing_update`; `live` holds the timers to which the
program has a pointer.

### `Stream`

A message is a header unit and some units of payload. The daemon reads up to
`DaemonBuf` units and takes them for one request; it writes whole messages or,
`WriteShort`, a part of one, which it then sends again. The client sends
(`lgsm_passthrough_send`), waits in `lgsm_blocking_wait_packet`, or dispatches in
its event loop. Events carry an arbitrary id because `usock_build_event` does not
set one. The AT engine is one step: it answers its commands in order.

### `Opkg`

A package is a name and a version with files, conffiles and dependencies, all
constants. The state is what is on the disk (`files`, their `backup`s, the
`list`s, the status file `db`, the feed), what the process holds (`mem`, `owner`
for `file_hash`, `obs` for `obs_file_hash`, `changed`, `dirty`), and where it is
(`pc`, and a `stack` of calls, because a dependency is installed inside the
installation that needs it). One action per call of `opkg_install_pkg`'s body, so
that a crash can come between any two. Every step that can fail before the point
of no return has an action that fails and unwinds. What a file holds is the
package it came from or an edit of the user; its md5sum is that content, and the
empty string for a file that is not there. `file_hash` and the database are those
of the next process as soon as one ends, since reading them changes nothing else.

### Mishaps

Several properties of `Timer`, `Stream` and `Opkg` are conditional on history
variables that record a small set of named mishaps: in `Timer` time that passes
inside the timer code, a handler inside a calculation, an expiration of more than
a second's microseconds; in `Stream` reads that hold several messages or parts of
one; in `Opkg` crashes, upgrades given up half-way, partial extraction, a split
package. Each names a situation the code does not handle; TLC finds a violation
when any one is dropped from the condition. The properties say that nothing else
goes wrong, and what the mishaps cannot break: `NotEarly` and `OneVersion` hold
unconditionally, `OwnAnswer` however the stream is cut, `CallsReturn` in spite of
short writes, `EditKept` in spite of every failure and interrupt. `EditKept` leaves
out the conffiles in `torn`: those of a partial extraction; those with a backup on
the disk at a crash, or in a new list while the status file still names the old
version; and, where an earlier upgrade left a backup, those of an installation that
gives up and removes that backup (`opkg_install.c:1186`), or that leaves it in
place of the file the user has made since (`:1174`). The last two were found when
the invariant below turned out not to be inductive. TLC finds both: the second on
the packages of `MCOpkg`, the first when E has a file of another package too, so
that its installation can fail after the backups were made.

`DbMatches` leaves out the packages flagged in `spoiled` since their last
installation, `NoGhostFiles` the files in `litter`. Both conditions were corrected
when their proofs failed, and TLC then confirmed the counterexamples:

* A crash can leave two lists that name the same file (the new owner's was written,
  the old owner's was not). The next command that reads them gives the file to one
  of the two, and can take it from the other, which the crash itself had not
  touched. `Crash` therefore flags every package whose list another one overlaps;
  it takes three faults to see the difference.
* What lies about without an owner stays there when a later installation of another
  version of the package clears the package's flags: partial extraction, a crash,
  and a complete installation leave such a file. So the exceptions of `NoGhostFiles`
  are files, not packages: `litter` gets the files of the packages that a crash
  catches between extraction and the writing of status and list, those of an upgrade
  that was given up, and those extracted while `file_hash` had another owner for
  them, and loses those that a package brings anew.

## Bounds

| constant | meaning | values and why |
|---|---|---|
| `Users` | clients | two, so that one client's command can meet another's reply; one where a run is about the modem |
| `MaxCmd` | commands from outside | 4: the daemon's first command and three more, enough for one executing, one waiting and one arriving; 6 with wake-up commands, i.e. three pairs |
| `MaxLines` | lines in `mlbuf` when a line arrives | 1: a leftover line and the next one. 0 in `service`, where lines play no part |
| `MaxOut` | messages waiting for a client when a line arrives | 1 or 2 |
| `BufSize`, `ReadSize`, `MaxItems`, `MaxLoss` (`LlParse`) | line buffer, read buffer, items sent, bytes lost | 3, 5, 3, 1: texts that fit, fill and overfill the buffer; a read that ends inside, at the end of or after an item; the damaged item, its neighbour and one after |
| `Sec`, `CmdTimeout`, `AliveEvery`, `Jitter`, `MaxTime` (`Timer`) | ticks per second, intervals, clock | 2, 2, 1, 1, 8: intervals with and without a fraction, and time for each timer to run, be re-armed and run again |
| `Sizes`, `DaemonBuf`, `WaitBuf`, `AppBuf`, `MaxReq`, `MaxEvt`, `MaxShort` (`Stream`) | sizes in units, messages | 1 or 4, 4, 4, 5, 3, 1, 2: requests that fit a read and that do not, buffers that hold two short messages or cut a long one |
| `MaxCmds`, `MaxFaults`, `Edits` (`Opkg`) | commands, crashes and partial extractions, user texts | 3, 1, 2: install, upgrade, and one command that meets what they left behind |

`MCOpkg` has a package A in two versions, the second of which keeps a file and one
of two conffiles, drops the other and a file, and takes a file; a dependency D of the
first version that owns the file the second one takes; a dependency B of the second
that has the file the first one drops; and a package E, offered with the second
version, that has the conffile that was dropped. The two user texts are
interchangeable, and the run uses that symmetry (3.6 million states). One fault is
enough for the mutants but not for everything: the two corrections under Mishaps
take two and three, which is where the proofs, for any number, say more. The
commands a callback submits are not counted against `MaxCmd`, so the callbacks are
never blocked. Clients are interchangeable; runs of invariants
with two clients use that symmetry. Deadlock is not checked: the daemon may
exit or crash, and an instance stops when its commands are used up.

## Runs

| run | instance | checks |
|---|---|---|
| `core` | two clients; plain, extended and hang-up commands; registration changes that submit a setting | `QueueAwake`, `NoStaleUser`, `Fifo`, `MessagesFlow`, `NoCrossTalk`, `CrashFree`, `AnswersInOrder` |
| `messages` | two clients; plain commands, two-line messages, empty texts | `TypeOK`, `ToldOnce`, `OneInFlight`, `AnswersInOrder` |
| `gta01` | wake-up commands, liveness check, power-off, callback-less commands, every unsolicited line, not ready at start | `QueueAwake`, `OneInFlight`, `ToldOnce` |
| `service` | hang-ups and plain commands, one initial setting, fairness | `Served`, `ImplementsService` |
| `lines` | texts short, overlong, beginning like a prompt or taken for one; echoes; reads cut anywhere; a lost byte; fairness | `TypeOK`, `NoResidue`, `ExactLines`, `NoFalseReset`, `Resync`, `Delivered` |
| `timers` | three timers, the clock, the handler at every point | `TypeOK`, `Armed`, `NoStaleTimer`, `NotEarly` |
| `stream` | one client, the daemon, short writes, events; fairness | `TypeOK`, `RequestsInOrder`, `RepliesInOrder`, `OwnAnswer`, `CallsReturn` |
| `opkg` | the packages above, every failure, SIGINT, a crash or partial extraction | `TypeOK`, `EditKept`, `DbMatches`, `OneVersion`, `NoGhostFiles` |

What they show: the wake-up protocol never loses the queue except at a half-sent
or empty command; a departed client leaves no reference behind; a command's
callback is told its end once; order is kept except for hang-ups; replies are
made of another command's lines only after a command was given up early, one
without a callback left lines behind, or a prompt arrived that nobody waited for;
answers meet the command they answer unless one was given up with its answer
outstanding or such a prompt came; and one command is in flight until then. The line parser delivers exactly
the lines sent, and a lost byte harms two items at most (of those sent after the last loss, one) or, the LF of a header,
all that follow. No timer fires early by more than its fraction of a second; the
kernel timer is armed when a timer is registered, except after the three mishaps;
a freed timer is touched only when the handler comes between the program's look at
the pointer and its use. Requests and replies are framed correctly as long as
each read holds whole messages, and a blocking call gets its own answer even when
they do not. opkg keeps user edits and a consistent database through every failure
before the point of no return.

Four runs check a statement of the code's own comments and end in a
counterexample. Each is a finding in `PROJECT.json`:

| run | statement | what happens instead |
|---|---|---|
| `early_body` | more lines are sent "after a "> "" | any other submission sends the body before the prompt |
| `null_callback` | disconnecting finishes the client's commands | commands without callback make the daemon call NULL |
| `split` | "so that upgrades of packages that split will not fail" | the file that moved to a new dependency is deleted with the old version |
| `configure_order` | "Reorder pkgs in order to be configured according to the Depends: tag order" | the order is computed and not used; scripts run by name |

The mutants in `PROJECT.json` change one definition each as a plausible bug
would (a forgotten flag, a wrong end of the queue, a kept callback); every
property of a passing run is violated by one of them.

## Fairness

`FairSpec` assumes weak fairness of `UartWrite`, because `select()` reports a
writable UART for as long as the flag is set, and of the timers of the commands
in `busy`, because a timer on the list is run when it expires. Nothing is
assumed of the clients or of the modem. The second assumption is about
`timer.c`: it hands `setitimer` a zero or negative time when the first timer is
already overdue, and timers then stand still until another is registered (`Armed`
in `Timer` says when). `Served` is relative to timers that work. It is checked
without two-line commands, empty texts and the liveness check, each of which can
block the queue (`QueueAwake` and `OneInFlight` say how).

`LlParse!FairSpec` assumes that bytes that arrived are read and parsed: `select`
reports them until they are. `Stream!FairSpec` assumes that both processes run,
that the daemon's socket becomes writable, and that the engine ends every command,
which is `Served`. `Timer` and `Opkg` state no liveness: a registered timer is not
always run, and a command line tool may stop at any moment.

## Proofs

The theorems hold for every value of the constants, the bounds included, under the
assumption in the module that declares them.

### The engine

`ConstantsOK`: finitely many clients, any kinds, unsolicited lines and settings.

* `TypeCorrect`: `Spec => []TypeOK`, one step per action, from lemmas about
  filling, submitting, queueing and ending commands.
* `Inductive`: `Spec => []IInv`, the inductive invariant:
  * `QueuesSafe` - every queued command belongs to the daemon or to a connected
    client (`NoStaleUser` follows), a client's command without callback, a
    liveness check, and a half-sent or empty command exist only where the
    instance issues such kinds. The part about callbacks is what limits the
    crashes when a client leaves; the part about half-sent commands limits where
    a UART visit can stop.
  * `Awake` and `HeldOK` - the two halves of `QueueAwake`.
  * `Flight` - until a stray prompt, at most one command is in flight, its timer
    armed (the liveness check excepted), and the UART is not asked for while it
    executes. The last part is the strengthening that makes the first inductive:
    `UartWrite` looks at `want`, not at `busy`.
  * `CrashFree`, `MessagesFlow` and `TypeOK`, which the other parts complete.
* `NoLostWakeup`, `NoDanglingClient`, `MessagesAreSent`, `SingleCommand` and
  `KnownCrashes` draw `QueueAwake`, `NoStaleUser`, `MessagesFlow`, `OneInFlight`
  and `CrashFree` from it.
* `OrderInductive`: `Spec => []OInv`. The queues are moved in a few ways only
  (`Moves`): nothing changes but timers and callbacks (`Stays`), a first line goes
  out (`Halves`), a command goes out (`Sends`), commands are added (`Adds`), the
  executing one ends and may bring new ones (`Finishes`), a hang-up ends it and goes
  to the front (`Preempts`), a client's commands leave (`Leaves`). `StepMoves` shows
  once that every action is one of these; what follows is about moves. `OInv` is
  `IInv` with
  * `Ordered` - in `busy` followed by `pending`, identifiers are distinct and ascend
    but for hang-ups, and none with a callback has been told its end. `Fifo`
    (`CommandsInOrder`) and `ToldOnce` (`ToldAtMostOnce`) follow.
  * `Answers` - while no command ended early and no stray prompt came, everything
    the modem owes is for the executing command or, when none executes, for the
    half-sent one at the head of `pending`. `AnswersInOrder` looks at the head only
    and is not inductive without it; `AnswersMatch` follows.
  * `NoPrompts` - without two-line kinds nothing is half-sent and no prompt is
    stray.
* `EngineImplements`: `Spec /\ []~stray => ImplementsService`. Each move maps to one
  step of `CommandService` or to a stutter: `Sends` to `Serve`, `Adds` to `Arrive`,
  `Finishes` and `Preempts` to their namesakes, `Leaves` to `Withdraw`. `Flight`
  gives the single command being served, and distinct identifiers give `gone`. A
  stray prompt puts two commands in flight, so the condition is needed;
  `PlainEngineImplements` drops it for instances without two-line commands.
* `RepliesNotMixed`: `Spec => []NoCrossTalk`. `LInv` adds to `OInv` that with a quiet
  modem, and before any of the three causes, `mlbuf` is empty or holds lines of the
  executing command only and no line is taken for the first of an unsolicited
  message.

### The line parser

`LlParseAssumption`: buffers of at least one byte, texts that are not empty and hold
no CR or LF.

* `LinesTyped` (`TypeOK`: the buffer is never overrun) and `LinesSeparate`
  (`NoResidue`) from `PInv`, which adds that a line under way is not empty, by a
  lemma that says which states one byte leads to and what it leaves in the buffer.
* `NoReset` (`NoFalseReset`). When no byte is lost, the invariant is about the bytes
  still to be parsed, those read and those on the wire together (`stream`): after
  every LF, and from where the parser stands, they begin an item (`Sound`, `Here`).
  That survives any cut into reads, and a text that overfills the buffer: the rest
  of that read is dropped, and the parser resumes in the middle of an item.
* `LinesExact` (`ExactLines`) from `ExactInv`. `Cut` assigns to every item the place
  of its first byte in `stream`, counted from the next byte to be parsed, and says
  that the items sent after the last loss are there byte for byte; `Place` says how
  many bytes `n` of which item `i` have been parsed. For such a place, `CleanAt` says
  what the parser's state and buffer are, an echo included (after it the parser
  waits in `RESULT_CR` for an LF and reports the echo with every byte), and what has
  been reported is, for the upper layer, what was sent before the place. One lemma
  per kind of item says what a byte of it does (`ReadsStep`, `EchoStep`).
* `LinesResync` (`Resync`) from `LossInv`, which uses the same `Cut` after the last
  loss only. The first item after it may be read wrongly, but no item ends in `>`, so
  at its end the parser is not in `PROMPT`; from any state but that and `ERROR` the
  two bytes of a header bring it back, and from the second item on it reads as
  it should (`Synced`).
* `Lines`, the filter in `ExactLines`, is a recursive function. What the proofs need
  of it (`LinesAppend`, `LinesPrefix`) is proved by induction, stated with a set in
  the place of the predicate (`Induction`), from the least element of a set of
  naturals.

### The timers

`TimerAssumption`: a second has at least one tick, the clock reaches one second.

* `TimersInductive`: `SInv` holds whatever the handler interrupts: the steps left in
  `todo` are of the shapes the functions make (`WellFormed`); an expiration is when
  the timer is due, in fields whose second may be too large (`Lists`); the list
  holds the allocated timers but the one the program is about to add or free
  (`Owned`); a timer is missing only if the handler took it in between (`Races`).
* `CallbacksNotEarly`: `NotEarly`, an action property; `NoStale`: `NoStaleTimer`;
  `TimersTyped`: `TypeOK`. All three follow from `SInv`.
* `TimersArmed`: `Armed`, from `Prompt`: until a mishap, expirations are normal and in
  the future, the kernel timer covers them whenever the program is not between its
  change of the list and its `setitimer`, and there the difference it computed is
  that of the present list.

### The socket

`StreamAssumption`: messages and buffers of at least one unit; ids that do not wrap.

* `StreamTyped` (`TypeOK`), `CallsOwnAnswer` (`OwnAnswer`, however streams are cut).
* `RequestsKeepOrder` (`RequestsInOrder`) from `QInv`: what is in the socket starts
  with the header of the next request the daemon expects, and every header is
  followed by its payload and the next header.
* `RepliesKeepOrder` (`RepliesInOrder`) from `RInv`: the units under way can be given
  ranks, the places of their messages among those queued, that begin at the next
  one the client expects, stay the same after a header and grow by one after a
  payload. The header that a short write left behind has the rank of its repetition.

### opkg

`OpkgAssumption`: any packages with any files, conffiles and dependencies, where a
file that is a conffile of one package is one of every package that has it, and
dependencies are offered and have none of their own.

* `PackagesTyped` (`TypeOK`), with the nesting of the calls.
* `VersionsSingle` (`OneVersion`) from `Versions`: no version but the one a call took
  for the old one when it began is installed, in spite of the dependencies that are
  installed inside it, and memory and status file hold one version each.
* `EditsKept` (`EditKept`) from `EditInv`, which relates four things that the code
  keeps apart: the sums in the database (an installed package has a sum for each
  conffile, and none is that of an edit), the lists and `file_hash` (a conffile in a
  list belongs to that package, but where a call has relisted it or the end of the
  command will), the calls under way, and the place of the last edit: in the file,
  or in a backup with the file gone or just overwritten (`EditSafe`, `BackedUp`,
  `Extracted`).

* `DatabaseMatches` (`DbMatches`) from `FilesInv`, which holds at every step of a
  command, between any two of which a crash may come. It says which packages memory
  and status file can disagree on (`Agreed`: those `touched`); who may own a file in
  `file_hash` while calls are nested (`Claimed`, `Takes`, `Obsolete`); that a file in
  the list of an installed package is its own or the list is going to be rewritten
  (`Listed`); what the top call has checked, erased and extracted so far (`TopInv`);
  and that a package without flags that no call is working on has exactly its files,
  on the disk, in its list and in `file_hash`, and shares none with a list that stays
  (`Settled`, and `Untouched` for what a crash would bring back).
* `NoGhosts` (`NoGhostFiles`) from `GhostsInv` on top of it: each data file that is
  not `litter` has an installed package that vouches for it, by its list or by the
  list that is going to be written, or the top call has just brought it (`Ghosts`);
  and the files of a package that goes are gone before its list is (`Leaves`).

### Only model-checked

Every safety property that a run checks is proved, and so is the refinement.
`Served`, `Delivered` and `CallsReturn` are liveness under fairness, out of the
prover's reach. The four runs that end in a counterexample have nothing to prove.

## Plan

Done: the engine with its clients, the abstract service, the line parser, the
timers, the socket's framing, opkg's installation and removal; proofs of every
safety property and of the refinement. Left:

1. opkg's `Replaces` and `Conflicts`, nested dependencies and `autoremove`.
2. Short writes to the UART.

## Not modelled

* The select loop has no state of its own; its promise is the fairness assumed.
* The response parser (`ext_response.c`), the PDU coding (`sms_pdu.c`) and the
  operator name cache are pure functions of characters; in `Gsmd` their result is
  a free choice. They have nothing that interleaves, fails half-way or waits, and
  a model of them would repeat the code.
* Vendor and other machine plugins add settings and codes of the kinds `Gsmd` has.
* opkg's query commands, download, feeds and signatures, several destinations,
  `-force` options, `Provides`, `Essential`, `Recommends`: they do not change the
  database, or are left out to keep the instance small.
* `neod`, the phone libraries and the user interface are callbacks of GTK with
  little state; `dfu-util` and the host tools are straight-line I/O; the emulator
  and the WLAN driver are vendored. These are by far most of the repository's
  lines, so the share of it that is modelled is small.
