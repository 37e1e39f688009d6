----------------------------- MODULE ReaderWriter -----------------------------
(***************************************************************************)
(* sem_05/lab_03/reader-writer/main.c: writers step one shared letter      *)
(* through the alphabet, readers print it, and the writer that has seen    *)
(* the alphabet end twice sends SIGTERM to the whole process group.        *)
(*                                                                         *)
(* Each request is one semop of five operations, so the queue counters     *)
(* READ_COUNT and WRITE_COUNT go up and down within one atomic step.       *)
(***************************************************************************)
EXTENDS Naturals, FiniteSets, SysVSem

CONSTANTS
  NWriters,   \* writers, forked first (5 in the code)
  NReaders,   \* readers, forked last (2 in the code)
  L           \* letters of the alphabet (26 in the code)

ASSUME ReaderWriterAssumption ==
  NWriters \in Nat \ {0} /\ NReaders \in Nat /\ L \in Nat \ {0}

COUNT_ACTIVE_READERS == 0
ACTIVE_WRITER        == 1
READ_COUNT           == 2
WRITE_COUNT          == 3

Writers  == 1 .. NWriters
Readers  == NWriters + 1 .. NWriters + NReaders
Children == Writers \cup Readers
Main     == 0
Procs    == {Main} \cup Children
NChildren == NWriters + NReaders

VARIABLES
  sem,      \* the semaphore set semfd
  ipc,      \* IPC objects that exist, of {"sem", "shm"}
  parent,   \* where main() is
  next,     \* the child main() forks next
  reaped,   \* children wait() has returned
  pc,       \* where each child is
  flag,     \* `flag' of every process; fork copies the parent's
  count,    \* `count' of every writer: private, fork copies 0
  pending,  \* processes with a SIGTERM not yet delivered
  addr      \* the shared letter: 0 is 'a' - 1, L is 'z', L + 1 is 'z' + 1

vars == <<sem, ipc, parent, next, reaped, pc, flag, count, pending, addr>>

Reading == {"read", "leave"}
Writing == {"inc", "wrap", "kill", "stop"}
Final   == {"exit0", "exit1"}
Live(c) == pc[c] \notin Final \cup {"unborn"}

Init ==
  /\ sem = [n \in 0 .. 3 |-> 0]
  /\ ipc = {}
  /\ parent = "semget"
  /\ next = 1
  /\ reaped = {}
  /\ pc = [c \in Children |-> "unborn"]
  /\ flag = [p \in Procs |-> TRUE]
  /\ count = [w \in Writers |-> 0]
  /\ pending = {}
  /\ addr = 0

-----------------------------------------------------------------------------
(* The arrays of struct sembuf.                                             *)

start_read(s) == s ## <<READ_COUNT, 1>> ## <<ACTIVE_WRITER, 0>> ## <<WRITE_COUNT, 0>>
                   ## <<COUNT_ACTIVE_READERS, 1>> ## <<READ_COUNT, -1>>
stop_read(s)  == s ## <<COUNT_ACTIVE_READERS, -1>>

FaultyStartWrite(s) == s ## <<WRITE_COUNT, 1>> ## <<ACTIVE_WRITER, 0>>
                         ## <<ACTIVE_WRITER, 1>> ## <<WRITE_COUNT, -1>>
start_write(s) == s ## <<WRITE_COUNT, 1>> ## <<COUNT_ACTIVE_READERS, 0>>
                    ## <<ACTIVE_WRITER, 0>> ## <<ACTIVE_WRITER, 1>> ## <<WRITE_COUNT, -1>>
stop_write(s)  == s ## <<ACTIVE_WRITER, -1>>

Start(c, s) == IF c \in Writers THEN start_write(s) ELSE start_read(s)
Stop(c, s)  == IF c \in Writers THEN stop_write(s)  ELSE stop_read(s)

-----------------------------------------------------------------------------
(* A child.                                                                 *)

Goto(c, l) == pc' = [pc EXCEPT ![c] = l]
parentVars == <<ipc, parent, next, reaped>>
sigVars    == <<flag, pending>>

(* while (flag); a child that leaves the loop calls exit(0).                *)
Test(c) ==
  /\ pc[c] = "loop"
  /\ Goto(c, IF flag[c] THEN "start" ELSE "exit0")
  /\ UNCHANGED <<sem, parentVars, sigVars, count, addr>>

(* semop(start_...) succeeds, at once or after a sleep.                     *)
Enter(c) ==
  /\ pc[c] \in {"start", "sleep"}
  /\ Start(c, sem) # Blocked
  /\ sem' = Start(c, sem)
  /\ Goto(c, IF c \in Writers THEN "inc" ELSE "read")
  /\ UNCHANGED <<parentVars, sigVars, count, addr>>

Sleep(c) ==
  /\ pc[c] = "start"
  /\ Start(c, sem) = Blocked
  /\ Goto(c, "sleep")
  /\ UNCHANGED <<sem, parentVars, sigVars, count, addr>>

(* The reader prints the letter.                                            *)
Read(c) ==
  /\ pc[c] = "read"
  /\ Goto(c, "leave")
  /\ UNCHANGED <<sem, parentVars, sigVars, count, addr>>

(* The writer's increment of the shared letter.                             *)
Inc(c) ==
  /\ pc[c] = "inc"
  /\ addr' = addr + 1
  /\ Goto(c, "wrap")
  /\ UNCHANGED <<sem, parentVars, sigVars, count>>

(* Past 'z': count the round and start again at 'a'.                        *)
Wrap(c) ==
  /\ pc[c] = "wrap"
  /\ IF addr = L + 1
     THEN addr' = 1 /\ count' = [count EXCEPT ![c] = @ + 1]
     ELSE UNCHANGED <<addr, count>>
  /\ Goto(c, "kill")
  /\ UNCHANGED <<sem, parentVars, sigVars>>

(* if (count == 2) kill(0, SIGTERM).  The caller runs its own handler       *)
(* before kill returns; the others have the signal pending.                 *)
Kill(c) ==
  /\ pc[c] = "kill"
  /\ IF count[c] = 2
     THEN /\ pending' = (pending \cup {Main} \cup {d \in Children : Live(d)}) \ {c}
          /\ flag' = [flag EXCEPT ![c] = FALSE]
     ELSE UNCHANGED sigVars
  /\ Goto(c, "stop")
  /\ UNCHANGED <<sem, parentVars, count, addr>>

(* semop(stop_...).                                                         *)
Leave(c) ==
  /\ pc[c] \in {"leave", "stop"}
  /\ Stop(c, sem) # Blocked
  /\ sem' = Stop(c, sem)
  /\ Goto(c, "loop")
  /\ UNCHANGED <<parentVars, sigVars, count, addr>>

(* SIGTERM reaches a child: asleep in semop it gets EINTR and calls         *)
(* exit(1), elsewhere its flag is cleared.                                  *)
Deliver(c) ==
  /\ c \in pending /\ Live(c)
  /\ pending' = pending \ {c}
  /\ flag' = [flag EXCEPT ![c] = FALSE]
  /\ Goto(c, IF pc[c] = "sleep" THEN "exit1" ELSE pc[c])
  /\ UNCHANGED <<sem, parentVars, count, addr>>

Child(c) ==
  \/ Test(c) \/ Enter(c) \/ Sleep(c) \/ Read(c)
  \/ Inc(c) \/ Wrap(c) \/ Kill(c) \/ Leave(c)

-----------------------------------------------------------------------------
(* The parent.                                                              *)

(* One call of main() that may fail; on failure main returns 1 and removes  *)
(* nothing it created before.                                               *)
Call(here, there, got) ==
  /\ parent = here
  /\ \/ parent' = there /\ ipc' = ipc \cup got
     \/ parent' = "exited" /\ ipc' = ipc
  /\ UNCHANGED <<sem, next, reaped, pc, sigVars, count, addr>>

(* The SETVALs to 0 leave the fresh set as it is; *addr = 'a' - 1 and       *)
(* signal(SIGTERM) come after shmat.                                        *)
Setup ==
  \/ Call("semget", "semctl", {"sem"})
  \/ Call("semctl", "shmget", {})
  \/ Call("shmget", "shmat", {"shm"})
  \/ Call("shmat", "fork", {})

(* fork() is restarted after a pending signal, so a child forked after      *)
(* SIGTERM inherits a cleared flag.                                         *)
FaultyFork ==
  /\ parent = "fork" /\ next <= NChildren
  /\ pc' = [pc EXCEPT ![next] = "loop"]
  /\ next' = next + 1
  /\ UNCHANGED <<sem, ipc, parent, reaped, flag, pending, count, addr>>
Fork ==
  /\ parent = "fork" /\ next <= NChildren
  /\ Main \notin pending
  /\ pc' = [pc EXCEPT ![next] = "loop"]
  /\ flag' = [flag EXCEPT ![next] = flag[Main]]
  /\ next' = next + 1
  /\ UNCHANGED <<sem, ipc, parent, reaped, pending, count, addr>>

ForkFails ==
  /\ parent = "fork" /\ next <= NChildren
  /\ parent' = "exited"
  /\ UNCHANGED <<sem, ipc, next, reaped, pc, sigVars, count, addr>>

Forked ==
  /\ parent = "fork" /\ next > NChildren
  /\ parent' = "wait"
  /\ UNCHANGED <<sem, ipc, next, reaped, pc, sigVars, count, addr>>

(* SIGTERM reaches the parent; signal() restarts wait().                    *)
DeliverMain ==
  /\ Main \in pending /\ parent # "exited"
  /\ pending' = pending \ {Main}
  /\ flag' = [flag EXCEPT ![Main] = FALSE]
  /\ UNCHANGED <<sem, parentVars, pc, count, addr>>

Wait ==
  /\ parent = "wait"
  /\ \E c \in Children \ reaped : pc[c] \in Final /\ reaped' = reaped \cup {c}
  /\ parent' = IF reaped' = Children THEN "clean" ELSE "wait"
  /\ UNCHANGED <<sem, ipc, next, pc, sigVars, count, addr>>

(* shmdt, semctl(IPC_RMID), shmctl(IPC_RMID).                               *)
CleanUp ==
  /\ parent = "clean"
  /\ ipc' = {}
  /\ parent' = "exited"
  /\ UNCHANGED <<sem, next, reaped, pc, sigVars, count, addr>>

Parent == Setup \/ Fork \/ ForkFails \/ Forked \/ Wait \/ CleanUp

-----------------------------------------------------------------------------
AllGone == parent = "exited" /\ \A c \in Children : ~ Live(c)

Terminating == AllGone /\ UNCHANGED vars

Next == \/ Parent
        \/ DeliverMain
        \/ \E c \in Children : Child(c) \/ Deliver(c)
        \/ Terminating

Spec == Init /\ [][Next]_vars

-----------------------------------------------------------------------------
(* Properties.                                                              *)

TypeOK ==
  /\ sem \in [0 .. 3 -> Nat]
  /\ ipc \in SUBSET {"sem", "shm"}
  /\ parent \in {"semget", "semctl", "shmget", "shmat", "fork", "wait", "clean", "exited"}
  /\ next \in 1 .. NChildren + 1
  /\ reaped \in SUBSET Children
  /\ pc \in [Children -> {"unborn", "loop", "start", "sleep"} \cup Reading \cup Writing \cup Final]
  /\ flag \in [Procs -> BOOLEAN]
  /\ count \in [Writers -> 0 .. 2]
  /\ pending \in SUBSET Procs
  /\ addr \in 0 .. L + 1

ActiveReaders == {c \in Children : pc[c] \in Reading}
ActiveWriters == {c \in Children : pc[c] \in Writing}

(* The semaphores count the active processes, and the two queue counters    *)
(* are zero whenever anyone can look at them: a waiting writer is invisible *)
(* to a reader, so READ_COUNT and WRITE_COUNT never hold anyone back.       *)
CountersMatch ==
  /\ sem[COUNT_ACTIVE_READERS] = Cardinality(ActiveReaders)
  /\ sem[ACTIVE_WRITER] = Cardinality(ActiveWriters)
  /\ sem[READ_COUNT] = 0
  /\ sem[WRITE_COUNT] = 0

(* A writer works alone: no second writer and no reader beside it; and the  *)
(* semaphores count exactly those who work.                                 *)
Exclusion ==
  /\ \A v, w \in ActiveWriters : v = w
  /\ ActiveWriters = {} \/ ActiveReaders = {}
  /\ CountersMatch

(* Between its two semops a reader may look at the letter as often as it    *)
(* likes: the letter stays, and it is never the transient 'z' + 1.          *)
ReadersSeeStableLetter ==
  [][ActiveReaders # {} => addr' = addr /\ addr # L + 1]_vars
=============================================================================
