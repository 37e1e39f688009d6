-------------------------------- MODULE Daemon --------------------------------
(***************************************************************************)
(* sem_05/lab_05_deamon/daemon.c: a daemon that is started any number of   *)
(* times, takes the lock file, blocks every signal and leaves the signals  *)
(* to a thread that waits for them.                                        *)
(*                                                                         *)
(* A process is where its program counter says; a process that ended says  *)
(* by what.  The action of a signal depends on how far the process is:     *)
(* SIGHUP ends it, is ignored, ends it again, and is then kept pending.    *)
(* Signals do not queue.  A reboot empties /var/run (external).            *)
(***************************************************************************)
EXTENDS Naturals, FiniteSets

CONSTANTS
  NStarts,    \* bound: how often the program is started
  NEdits,     \* bound: changes of CONFIGFILE
  NSignals,   \* bound: signals sent
  NBoots      \* bound: reboots

VARIABLES
  pc,        \* where main() is, or what ended the process
  thread,    \* thr_fn: "none", "sigwait", "read", "close" or "gone"
  pending,   \* the blocked signals that were sent
  lockfile,  \* LOCKFILE exists
  lock,      \* the process with the fcntl lock, or 0
  config,    \* version of CONFIGFILE
  tried,     \* the version each process found at its last reread()
  passed,    \* history: the processes that already_running() let pass since the boot
  bound      \* signals and reboots that are left

vars == <<pc, thread, pending, lockfile, lock, config, tried, passed, bound>>

Procs == 1 .. NStarts
Signals == {"HUP", "TERM", "USR1"}
Ended == Signals \cup {"exit", "KILL"}

(* The way through main(), with the state SIGHUP is in on it.               *)
HupDefault == {"getrlimit", "setsid", "mask"}
HupIgnored == {"chdir", "open", "fcntl", "sigdfl"}
AllBlocked == {"create", "loop"}

Live(p) == pc[p] \notin Ended \cup {"not_started"}

Init ==
  /\ pc = [p \in Procs |-> "not_started"]
  /\ thread = [p \in Procs |-> "none"]
  /\ pending = [p \in Procs |-> {}]
  /\ lockfile = FALSE /\ lock = 0
  /\ config = 1
  /\ tried = [p \in Procs |-> 0]
  /\ passed = {}
  /\ bound = [signals |-> NSignals, boots |-> NBoots]

Goto(p, here, there) == pc[p] = here /\ pc' = [pc EXCEPT ![p] = there]

(* The process is gone: its descriptors are closed, which drops the lock;   *)
(* nothing removes the file.                                                *)
End(p, cause) ==
  /\ pc' = [pc EXCEPT ![p] = cause]
  /\ lock' = IF lock = p THEN 0 ELSE lock

files == <<lockfile, config, tried, passed>>

-----------------------------------------------------------------------------
(* main(), daemonize(), already_running()                                   *)

(* The shell starts one more (the process numbers are given in order).      *)
Start(p) ==
  /\ Goto(p, "not_started", "getrlimit")
  /\ \A q \in 1 .. p - 1 : pc[q] # "not_started"
  /\ UNCHANGED <<thread, pending, lock, files, bound>>

(* daemonize(): getrlimit and fork, of which the child goes on, setsid and  *)
(* SIGHUP to SIG_IGN, chdir, close of every descriptor and /dev/null for    *)
(* 0, 1 and 2.                                                              *)
Daemonize(p) ==
  /\ \/ Goto(p, "getrlimit", "setsid")
     \/ Goto(p, "setsid", "chdir")
     \/ Goto(p, "chdir", "open")
  /\ UNCHANGED <<thread, pending, lock, files, bound>>

(* A call of daemonize(), fcntl with another error, sigaction or sigfillset *)
(* fails: exit(1).                                                          *)
CallFails(p) ==
  /\ pc[p] \in {"getrlimit", "setsid", "chdir", "fcntl", "sigdfl", "mask"}
  /\ End(p, "exit")
  /\ UNCHANGED <<thread, pending, files, bound>>

(* open(LOCKFILE, O_CREAT | O_RDWR | O_EXCL): exit(1) if the file exists.   *)
FaultyOpenLockFile(p) ==
  /\ Goto(p, "open", "fcntl") /\ lockfile' = TRUE /\ lock' = lock
  /\ UNCHANGED <<thread, pending, config, tried, passed, bound>>
OpenLockFile(p) ==
  /\ IF lockfile
     THEN pc[p] = "open" /\ End(p, "exit") /\ lockfile' = TRUE
     ELSE Goto(p, "open", "fcntl") /\ lockfile' = TRUE /\ lock' = lock
  /\ UNCHANGED <<thread, pending, config, tried, passed, bound>>

(* fcntl(F_SETLK); "already running" if another process has the lock.       *)
SetLock(p) ==
  /\ IF lock # 0
     THEN pc[p] = "fcntl" /\ End(p, "exit") /\ passed' = passed
     ELSE Goto(p, "fcntl", "sigdfl") /\ lock' = p /\ passed' = passed \cup {p}
  /\ UNCHANGED <<thread, pending, lockfile, config, tried, bound>>

(* SIGHUP back to SIG_DFL, and then every signal blocked.                   *)
SetSignals(p) ==
  /\ Goto(p, "sigdfl", "mask") \/ Goto(p, "mask", "create")
  /\ UNCHANGED <<thread, pending, lock, files, bound>>

(* pthread_create returns a positive number when it fails, and the test     *)
(* for -1 lets that pass: the loop then runs without the thread.            *)
EarlyCreateThread(p) ==
  /\ pc[p] \in {"sigdfl", "create"}
  /\ pc' = [pc EXCEPT ![p] = IF @ = "create" THEN "loop" ELSE "mask"]
  /\ thread' = [thread EXCEPT ![p] = "sigwait"]
  /\ UNCHANGED <<pending, lock, files, bound>>
CreateThread(p) ==
  /\ Goto(p, "create", "loop")
  /\ \E t \in {"sigwait", "none"} : thread' = [thread EXCEPT ![p] = t]
  /\ UNCHANGED <<pending, lock, files, bound>>

Main(p) == \/ Daemonize(p) \/ CallFails(p) \/ OpenLockFile(p) \/ SetLock(p)
           \/ SetSignals(p) \/ CreateThread(p)

-----------------------------------------------------------------------------
(* thr_fn, the thread that waits for signals                                *)

ThreadAt(p, t) == Live(p) /\ thread[p] = t

(* sigwait takes a pending signal: SIGHUP calls reread(), SIGTERM ends the  *)
(* thread (not the process), any other is reported.                         *)
Sigwait(p) ==
  /\ ThreadAt(p, "sigwait")
  /\ \E s \in pending[p] :
       /\ pending' = [pending EXCEPT ![p] = @ \ {s}]
       /\ thread' = [thread EXCEPT ![p] = CASE s = "HUP"  -> "read"
                                            [] s = "TERM" -> "gone"
                                            [] OTHER      -> "sigwait"]
  /\ UNCHANGED <<pc, lock, files, bound>>

SigwaitFails(p) ==
  /\ ThreadAt(p, "sigwait")
  /\ End(p, "exit")
  /\ UNCHANGED <<thread, pending, files, bound>>

(* reread(): what it finds, or that it cannot, is only logged; then close.  *)
Reread(p) ==
  /\ ThreadAt(p, "read")
  /\ tried' = [tried EXCEPT ![p] = config]
  /\ thread' = [thread EXCEPT ![p] = "close"]
  /\ UNCHANGED <<pc, pending, lockfile, lock, config, passed, bound>>

FaultyRereadEnd(p) ==
  /\ ThreadAt(p, "close")
  /\ thread' = [thread EXCEPT ![p] = "sigwait"]
  /\ pending' = [pending EXCEPT ![p] = @ \ {"HUP"}]
  /\ UNCHANGED <<pc, lock, files, bound>>
RereadEnd(p) ==
  /\ ThreadAt(p, "close")
  /\ thread' = [thread EXCEPT ![p] = "sigwait"]
  /\ UNCHANGED <<pc, pending, lock, files, bound>>

Thread(p) == Sigwait(p) \/ Reread(p) \/ RereadEnd(p)

-----------------------------------------------------------------------------
(* Signals from outside, the administrator, the machine; none of these, nor *)
(* an error of sigwait, has to happen.                                      *)

Signal(p, s) ==
  /\ Live(p) /\ bound.signals > 0
  /\ bound' = [bound EXCEPT !.signals = @ - 1]
  /\ IF pc[p] \in AllBlocked
     THEN /\ pending' = [pending EXCEPT ![p] = @ \cup {s}]
          /\ UNCHANGED <<pc, lock>>
     ELSE /\ IF s = "HUP" /\ pc[p] \in HupIgnored
             THEN UNCHANGED <<pc, lock>> ELSE End(p, s)
          /\ UNCHANGED pending
  /\ UNCHANGED <<thread, files>>

Kill(p) ==
  /\ Live(p) /\ bound.signals > 0
  /\ bound' = [bound EXCEPT !.signals = @ - 1]
  /\ End(p, "KILL")
  /\ UNCHANGED <<thread, pending, files>>

EditConfig ==
  /\ config < NEdits + 1
  /\ config' = config + 1
  /\ UNCHANGED <<pc, thread, pending, lockfile, lock, tried, passed, bound>>

Reboot ==
  /\ bound.boots > 0
  /\ bound' = [bound EXCEPT !.boots = @ - 1]
  /\ pc' = [p \in Procs |-> IF Live(p) THEN "KILL" ELSE pc[p]]
  /\ lockfile' = FALSE /\ lock' = 0 /\ passed' = {}
  /\ UNCHANGED <<thread, pending, config, tried>>

World == \/ \E p \in Procs : Start(p) \/ Kill(p) \/ \E s \in Signals : Signal(p, s)
         \/ \E p \in Procs : SigwaitFails(p)
         \/ EditConfig \/ Reboot

Next == World \/ \E p \in Procs : Main(p) \/ Thread(p)

-----------------------------------------------------------------------------
(* Properties.                                                              *)

TypeOK ==
  /\ pc \in [Procs -> Ended \cup {"not_started"} \cup HupDefault \cup HupIgnored \cup AllBlocked]
  /\ thread \in [Procs -> {"none", "sigwait", "read", "close", "gone"}]
  /\ pending \in [Procs -> SUBSET Signals]
  /\ lockfile \in BOOLEAN /\ lock \in 0 .. NStarts
  /\ config \in 1 .. NEdits + 1
  /\ tried \in [Procs -> 0 .. NEdits + 1]
  /\ passed \subseteq Procs

(* already_running() lets one process pass between two boots.  Neither a    *)
(* race of two starts nor the death of the daemon, which leaves the file    *)
(* without its lock, lets a second one through.                             *)
OncePerBoot == Cardinality(passed) <= 1

(* A daemon whose thread was created is not ended by SIGHUP, SIGTERM or     *)
(* another signal it can block, at any moment: the window of SIG_DFL is     *)
(* over before there is a thread.                                           *)
ServiceOutlivesSignals == \A p \in Procs : thread[p] # "none" => pc[p] \notin Signals

(* A SIGHUP that reaches a daemon with its thread leads to a reread() that  *)
(* finds the configuration of that moment or a later one, also when it      *)
(* comes during a reread() or merges with another SIGHUP, unless SIGTERM    *)
(* ended the thread or something ended the process.                         *)
HupRereads ==
  \A p \in Procs : \A v \in 1 .. NEdits + 1 :
    ("HUP" \in pending[p] /\ thread[p] # "none" /\ config = v)
      ~> (tried[p] >= v \/ thread[p] = "gone" \/ ~ Live(p))
=============================================================================
