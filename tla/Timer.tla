------------------------------- MODULE Timer -------------------------------
(***************************************************************************)
(* gsmd's timers (src/target/gsm/src/gsmd/timer.c) and the code that sets  *)
(* them, seen through the clock: SIGALRM runs the callbacks inside the     *)
(* signal handler, between any two steps of the main program, and time     *)
(* passes everywhere.  signal() blocks a signal in its own handler only,   *)
(* so that SIGUSR1, which has the same handler, can come inside SIGALRM's  *)
(* and the other way round.  Times are in ticks, Sec of them a second; a   *)
(* timeval keeps its two fields, which the code does not normalise.  List  *)
(* operations are atomic.  The kernel's clock and interval timer are       *)
(* external.                                                               *)
(***************************************************************************)
EXTENDS Integers, Sequences, FiniteSets, SequencesExt

CONSTANTS Sec,         \* ticks in a second
          CmdTimeout,  \* GSMD_ATCMD_TIMEOUT, in seconds
          AliveEvery,  \* GSMD_ALIVE_INTERVAL, in seconds
          Jitter,      \* GSMD_RING_MAX_JITTER, in ticks
          MaxTime      \* bound: ticks of a behaviour

ASSUME TimerAssumption ==
  /\ Sec \in Nat \ {0} /\ Jitter \in 0..(Sec - 1) /\ MaxTime \in Nat /\ Sec <= MaxTime
  /\ CmdTimeout \in Nat \ {0} /\ AliveEvery \in Nat \ {0}

Timers == {"cmd", "ring", "alive"}
Off == -1                        \* the kernel's timer is not armed
Tv(s, u) == [sec |-> s, usec |-> u]
Interval == [t \in Timers |-> CASE t = "cmd"   -> Tv(CmdTimeout, 0)
                                [] t = "ring"  -> Tv(1, Jitter)
                                [] t = "alive" -> Tv(AliveEvery, 0)]

VARIABLES now,      \* the clock
          itimer,   \* the kernel's timer: when it goes off, or Off
          alarm,    \* SIGALRM is pending
          timers,   \* gsmd_timers: the timer, its expires and when it is due
          live,     \* timers that are allocated
          ptr,      \* timers that timeout of the executing command or ring_check points to
          todo,     \* what is left of the main program's current operation
          diff,     \* diff of its calc_next_expiration
          hpc,      \* the signal whose handler runs, or "off"
          hnow,     \* now of its gsmd_timer_check_n_run
          found,    \* the timer its loop has found expired and is about to run
          outer,    \* the handler it has interrupted, and what that one's loop holds
          hist,     \* history: what has happened that the timer code is not made for
          uaf       \* history: the program used a timer that was freed or unlinked

kernel  == <<now, itimer, alarm>>
program == <<timers, live, ptr>>
main    == <<todo, diff>>
handler == <<hpc, hnow, found, outer>>
vars == <<now, itimer, alarm, timers, live, ptr, todo, diff, hpc, hnow, found, outer, hist, uaf>>

(* "slip": time passed inside the timer code.  "raced": the handler ran inside *)
(* an operation of the main program.  "nested": a handler ran inside another. *)
(* "unstored": a timer ran before its creator had stored the pointer to it.   *)
(* "denormal": a timer was registered whose microseconds make more than a     *)
(* second.                                                                    *)
AboutTo(do) == todo # <<>> /\ Head(todo).do = do
Mishaps == {"slip", "raced", "nested", "unstored", "denormal"}
NoTv == Tv(0, 0)
None == "none"
Frame(pc, tv, fnd, nxt) == [pc |-> pc, now |-> tv, found |-> fnd, next |-> nxt]
NoFrame == Frame("off", NoTv, None, None)

-----------------------------------------------------------------------------
(* The arithmetic of timer.c. *)

gettimeofday == Tv(now \div Sec, now % Sec)
Ticks(tv) == tv.sec * Sec + tv.usec

tv_sub(from, sub) ==
  IF from.usec >= sub.usec
  THEN Tv(from.sec - sub.sec, from.usec - sub.usec)
  ELSE Tv(from.sec - sub.sec - 1, from.usec - sub.usec + Sec)

tv_later_seconds(e, n) == e.sec >= n.sec

tv_later(e, n) == e.sec > n.sec \/ (e.sec = n.sec /\ e.usec >= n.usec)

(* The loop of calc_next_expiration, for a list that is not empty. *)
min_first(list) == list[1].expires

min(list) ==
  (CHOOSE x \in Range(list) : \A y \in Range(list) : tv_later(y.expires, x.expires)).expires

setitimer_any(d) == itimer' = IF Ticks(d) = 0 THEN Off ELSE now + Ticks(d)

(* setitimer refuses a negative or denormal time and keeps its setting; zero *)
(* disarms the timer.                                                        *)
setitimer(d) ==
  itimer' = IF d.sec < 0 \/ d.usec >= Sec THEN itimer
            ELSE IF Ticks(d) = 0 THEN Off
            ELSE now + Ticks(d)

(* calc_next_expiration in one go: an empty list leaves the setting alone.   *)
calc_next_expiration(list) ==
  IF list = <<>> THEN itimer' = itimer
  ELSE setitimer(tv_sub(min(list), gettimeofday))

(* llist_del *)
Without(list, t) == RemoveFirstMatch(list, LAMBDA x : x.tmr = t)

Registered == {x.tmr : x \in Range(timers)}

(* gsmd_timer_register up to calc_next_expiration. *)
register(t, list) ==
  LET usec == Interval[t].usec + gettimeofday.usec
  IN  /\ timers' = Append(list, [tmr |-> t,
                                 expires |-> Tv(Interval[t].sec + gettimeofday.sec, usec),
                                 due |-> now + Ticks(Interval[t])])
      /\ hist' = IF usec >= Sec THEN hist \cup {"denormal"} ELSE hist

-----------------------------------------------------------------------------
Init ==
  /\ now \in 0..(Sec - 1) /\ itimer = Off /\ alarm = FALSE
  /\ timers = <<>> /\ live = {} /\ ptr = {}
  /\ todo = <<>> /\ diff = NoTv
  /\ hpc = "off" /\ hnow = NoTv /\ found = None /\ outer = NoFrame
  /\ hist = {} /\ uaf = FALSE

(* The clock ticks, and the kernel's timer goes off. *)
Tick ==
  /\ now < MaxTime
  /\ now' = now + 1
  /\ alarm' = (alarm \/ now + 1 = itimer)
  /\ itimer' = IF now + 1 = itimer THEN Off ELSE itimer
  /\ hist' = IF hpc # "off" \/ todo # <<>> THEN hist \cup {"slip"} ELSE hist
  /\ UNCHANGED <<program, main, handler, uaf>>

-----------------------------------------------------------------------------
(* The main program.  An operation is a sequence of steps the handler can  *)
(* come between.                                                           *)

Step(do, t) == [do |-> do, tmr |-> t]
Registering(t) == <<Step("add", t), Step("calc", t), Step("set", t)>>
Unregistering(t) == <<Step("del", t), Step("calc", t), Step("set", t)>>

Begin(steps) ==
  /\ hpc = "off" /\ todo = <<>> /\ ~uaf
  /\ todo' = steps
  /\ UNCHANGED <<kernel, timers, ptr, diff, handler, hist, uaf>>

(* gsmd_timer_create: the caller stores the pointer when it has returned. *)
gsmd_timer_create(t) ==
  /\ Begin(Append(Registering(t), Step("store", t)))
  /\ live' = live \cup {t}

(* gsmd_alive_start, once.  Nobody keeps the pointer. *)
gsmd_alive_start ==
  /\ "alive" \notin live
  /\ Begin(Registering("alive"))
  /\ live' = live \cup {"alive"}

(* atcmd_select_cb has written a command: create_timer_func, then the pointer *)
(* is stored and the command put into busy_atcmds.                            *)
discard_timer ==
  /\ "cmd" \notin ptr
  /\ gsmd_timer_create("cmd")

(* atcmd_done, from the moment ml_parse has the head of busy_atcmds: the     *)
(* timer is unregistered and freed, then the command.                        *)
atcmd_done ==
  /\ "cmd" \in ptr
  /\ Begin(Append(Unregistering("cmd"), Step("free", "cmd")))
  /\ UNCHANGED live

(* +CRING: the ring check is moved on, or set for the first time. *)
state_ringing_update ==
  \/ /\ "ring" \in ptr
     /\ Begin(Unregistering("ring") \o Registering("ring"))
     /\ UNCHANGED live
  \/ /\ "ring" \notin ptr
     /\ gsmd_timer_create("ring")

(* The next step of main's operation.  gsmd_timer_unregister of a timer that *)
(* a handler has run works on freed memory, or on an entry llist_del has     *)
(* poisoned: what follows is not modelled.                                   *)
Add(t) ==
  /\ register(t, timers)
  /\ UNCHANGED <<live, ptr, diff, uaf, itimer>>

Del(t) ==
  /\ uaf' = (t \notin Registered)
  /\ timers' = Without(timers, t)
  /\ UNCHANGED <<live, ptr, diff, itimer, hist>>

Calc ==
  /\ diff' = IF timers = <<>> THEN Tv(-1, 0) ELSE tv_sub(min(timers), gettimeofday)
  /\ UNCHANGED <<program, itimer, hist, uaf>>

Set ==
  /\ setitimer(diff)
  /\ diff' = NoTv
  /\ UNCHANGED <<program, hist, uaf>>

Free(t) ==
  /\ live' = live \ {t} /\ ptr' = ptr \ {t}
  /\ UNCHANGED <<timers, diff, itimer, hist, uaf>>

Store(t) ==
  /\ ptr' = ptr \cup {t}
  /\ UNCHANGED <<timers, live, diff, itimer, hist, uaf>>

MainStep ==
  /\ hpc = "off" /\ todo # <<>> /\ ~uaf
  /\ LET s == Head(todo)
     IN  \/ s.do = "add" /\ Add(s.tmr)
         \/ s.do = "del" /\ Del(s.tmr)
         \/ s.do = "calc" /\ Calc
         \/ s.do = "set" /\ Set
         \/ s.do = "free" /\ Free(s.tmr)
         \/ s.do = "store" /\ Store(s.tmr)
  /\ todo' = Tail(todo)
  /\ UNCHANGED <<now, alarm, handler>>

-----------------------------------------------------------------------------
(* The signal handler: gsmd_timer_check_n_run on SIGALRM and on SIGUSR1.   *)
(* It comes between two steps of main or of the other signal's handler,    *)
(* whose loop then holds the timer it has found and the next entry of the  *)
(* list, any one of them.                                                  *)

sig_handler(signal) ==
  /\ signal # hpc /\ outer = NoFrame /\ ~uaf
  /\ signal = "ALRM" => alarm
  /\ alarm' = (signal # "ALRM" /\ alarm)
  /\ hpc' = signal /\ hnow' = gettimeofday /\ found' = None
  /\ \/ hpc = "off" /\ UNCHANGED outer
     \/ hpc # "off" /\ \E nxt \in Registered \cup {None} : outer' = Frame(hpc, hnow, found, nxt)
  /\ hist' = hist \cup (IF AboutTo("set") \/ AboutTo("del") THEN {"raced"} ELSE {})
                  \cup (IF hpc # "off" THEN {"nested"} ELSE {})
  /\ UNCHANGED <<now, itimer, program, main, uaf>>

Expired == {i \in 1..Len(timers) : tv_later(hnow, timers[i].expires)}

(* The loop's test finds the first timer that has expired ... *)
Find(i) ==
  /\ hpc # "off" /\ found = None /\ ~uaf
  /\ i \in Expired /\ \A j \in Expired : i <= j
  /\ found' = timers[i].tmr
  /\ UNCHANGED <<kernel, program, main, hpc, hnow, outer, hist, uaf>>

(* The callbacks.  discard_timeout and state_ringing_timeout free the timer  *)
(* and clear the pointer to it, but discard_timeout returns at once when no  *)
(* executing command has this timer; alive_interval_tmr_cb registers its     *)
(* timer again.                                                              *)
cb_dangling(t) ==
  /\ timers' = Without(timers, t)
  /\ live' = live \ {t}
  /\ UNCHANGED <<itimer, ptr, hist>>

cb(t) ==
  \/ /\ t = "alive"
     /\ register(t, Without(timers, t))
     /\ calc_next_expiration(timers')
     /\ UNCHANGED <<live, ptr>>
  \/ /\ t # "alive"
     /\ timers' = Without(timers, t)
     /\ live' = IF t = "cmd" /\ t \notin ptr THEN live ELSE live \ {t}
     /\ ptr' = ptr \ {t}
     /\ hist' = IF t \in ptr THEN hist ELSE hist \cup {"unstored"}
     /\ UNCHANGED itimer

(* ... and takes it off the list and runs it.  When that was an entry the    *)
(* interrupted loop holds, that loop is bound to work on freed memory or on  *)
(* a poisoned entry: what follows is not modelled.                           *)
Fire ==
  /\ found # None /\ ~uaf
  /\ cb(found)
  /\ uaf' = (found # "alive" /\ found \in {outer.found, outer.next})
  /\ found' = None
  /\ UNCHANGED <<now, alarm, main, hpc, hnow, outer>>

(* The loop is over, and the handler returns to what it has interrupted. *)
Rearm ==
  /\ hpc # "off" /\ found = None /\ Expired = {} /\ ~uaf
  /\ calc_next_expiration(timers)
  /\ hpc' = outer.pc /\ hnow' = outer.now /\ found' = outer.found /\ outer' = NoFrame
  /\ UNCHANGED <<now, alarm, program, main, hist, uaf>>

Next ==
  \/ Tick
  \/ gsmd_alive_start \/ discard_timer \/ atcmd_done \/ state_ringing_update
  \/ MainStep
  \/ \E s \in {"ALRM", "USR1"} : sig_handler(s)
  \/ \E i \in Expired : Find(i)
  \/ Fire
  \/ Rearm

Spec == Init /\ [][Next]_vars

-----------------------------------------------------------------------------
AtRest == hpc = "off" /\ todo = <<>>

(* The variables have their types, and the kernel's timer is set for a time   *)
(* to come.                                                                   *)
TypeOK ==
  /\ now \in 0..MaxTime /\ alarm \in BOOLEAN
  /\ itimer = Off \/ (itimer \in Nat /\ itimer > now)
  /\ Registered \subseteq live /\ live \subseteq Timers /\ ptr \subseteq {"cmd", "ring"}
  /\ hpc \in {"off", "ALRM", "USR1"} /\ outer.pc \in {"off", "ALRM", "USR1"} \ ({hpc} \ {"off"})
  /\ hist \subseteq Mishaps /\ uaf \in BOOLEAN

(* gsmd_timer_check_n_run calls no callback before its time: not at all when  *)
(* the interval is in whole seconds, and by less than the fraction otherwise, *)
(* for tv_later compares the fields of an expiration that was not normalised. *)
(* This holds whatever the handler interrupted and however time passed, but   *)
(* for the liveness timer when handlers nest: it is not freed, and a handler  *)
(* that was interrupted between its test and the callback runs it once more.  *)
NotEarly ==
  [][\A i \in 1..Len(timers) :
        (Fire /\ timers[i].tmr = found /\ ~(found = "alive" /\ "nested" \in hist))
        => now + Interval[found].usec >= timers[i].due]_vars

(* Whenever the program goes back to its select loop with a timer registered, *)
(* SIGALRM is pending or the kernel's timer goes off no later than the first  *)
(* timer is due, so that no timer is forgotten.  In this model it takes one   *)
(* of four things to break this: time passes inside the timer code, so that   *)
(* calc_next_expiration finds the first timer in the past; the handler comes  *)
(* between the gettimeofday and the setitimer of the main program; it comes   *)
(* inside the other signal's handler; or a timer is registered whose          *)
(* microseconds make a second.                                                *)
Armed ==
  (AtRest /\ timers # <<>> /\ hist = {} /\ ~alarm)
  => itimer # Off /\ \A x \in Range(timers) : itimer <= x.due

(* The program works on a timer that was freed or unlinked only when the      *)
(* handler came between its look at the pointer and its gsmd_timer_unregister *)
(* or inside another handler's loop, or when a timer ran before its creator   *)
(* had stored the pointer.  Otherwise cmd->timeout and ring_check point to    *)
(* just the allocated timers, all of which are on the list, and once.  A      *)
(* pointer is stored too late only when time passed inside gsmd_timer_create. *)
NoStaleTimer ==
  /\ uaf => hist \cap {"raced", "nested", "unstored"} # {}
  /\ AtRest /\ ~uaf /\ "unstored" \notin hist =>
        Registered = live /\ ptr = live \ {"alive"} /\ Len(timers) = Cardinality(live)
  /\ "unstored" \in hist => "slip" \in hist

=============================================================================
