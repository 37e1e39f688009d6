--------------------------- MODULE ProducerConsumer ---------------------------
(***************************************************************************)
(* sem_05/lab_03/producer-consumer/main.c: a parent creates a semaphore    *)
(* set and a page of shared memory, forks producers and consumers that     *)
(* pass letters through the page until their alarm(1) clears `flag', waits *)
(* for all of them and removes the IPC objects.                            *)
(*                                                                         *)
(* The page holds the two pointers, the next letter, and ROOM bytes of     *)
(* data.  Neither pointer ever wraps: a letter beyond the last byte of the *)
(* page is stored outside it, which kills the process (SIGSEGV) or lands   *)
(* in whatever is mapped there.  BUFFER_EMPTY limits how far the producer  *)
(* pointer runs ahead of the consumer pointer, not how far it runs.        *)
(*                                                                         *)
(* childpid[8] is indexed 1..8; the store past its end hits padding in the *)
(* frames gcc lays out, so it changes no state of this model.              *)
(***************************************************************************)
EXTENDS Naturals, Sequences, FiniteSets, SysVSem

CONSTANTS
  N,          \* slots announced by BUFFER_EMPTY (26 in the code)
  K,          \* number of children (8 in the code)
  PERIOD,     \* child i is a producer iff i % PERIOD = 0 (3 in the code)
  ROOM,       \* data bytes of the page (4079 with 4 KiB pages)
  L,          \* letters of the alphabet (26 in the code)
  MaxItems    \* bound: no producer begins a new item once so many are stored

ASSUME ProducerConsumerAssumption ==
  /\ N \in Nat \ {0} /\ K \in Nat \ {0} /\ PERIOD \in Nat \ {0}
  /\ ROOM \in Nat \ {0} /\ L \in Nat \ {0} /\ MaxItems \in Nat

BUFFER_EMPTY == 0
BUFFER_FULL  == 1
BIN_SEM      == 2

Children  == 1 .. K
Producers == {i \in Children : i % PERIOD = 0}
Consumers == Children \ Producers

Blank  == L            \* a byte no producer has written
Offset == 0 .. ROOM - 1
Letters == 0 .. L - 1

VARIABLES
  sem,        \* the semaphore set semfd
  ipc,        \* IPC objects that exist, of {"sem", "shm"}
  parent,     \* where main() is
  next,       \* main()'s i: the child it forks next
  reaped,     \* children wait() has returned
  pc,         \* where each child is
  flag,       \* each process has its own copy of `flag'
  alarm,      \* "none" before the fork, then "armed", then "fired" or "missed"
  pr, con,    \* *pr_ptr and *con_ptr as offsets into the data bytes
  letter,     \* *letter
  mem,        \* the data bytes
  symb,       \* each producer's local symb
  out         \* history: what the consumers printed, in the order of the reads

ipcVars   == <<sem, ipc>>
parentVars == <<parent, next, reaped>>
procVars  == <<pc, flag, alarm>>
shmVars   == <<pr, con, letter, mem>>
vars == <<ipcVars, parentVars, procVars, shmVars, symb, out>>

Critical == {"take", "put", "advance", "stop"}
Final    == {"exit0", "exit1", "killed"}
Live(c)  == pc[c] \notin Final \cup {"unborn"}

Init ==
  /\ sem = [n \in 0 .. 2 |-> 0]
  /\ ipc = {}
  /\ parent = "semget"
  /\ next = 1
  /\ reaped = {}
  /\ pc = [c \in Children |-> "unborn"]
  /\ flag = [c \in Children |-> TRUE]
  /\ alarm = [c \in Children |-> "none"]
  /\ pr = 0
  /\ con = 0
  /\ letter = Blank
  /\ mem = [a \in Offset |-> Blank]
  /\ symb = [c \in Children |-> Blank]
  /\ out = << >>

-----------------------------------------------------------------------------
(* The four arrays of struct sembuf.                                        *)

FaultyStartProduce(s) == s ## <<BUFFER_EMPTY, -1>>
start_produce(s) == s ## <<BUFFER_EMPTY, -1>> ## <<BIN_SEM, -1>>

FaultyStopProduce(s) == s ## <<BIN_SEM, 1>> ## <<BUFFER_FULL, 1>> ## <<BUFFER_EMPTY, 1>>
stop_produce(s)  == s ## <<BIN_SEM, 1>> ## <<BUFFER_FULL, 1>>

FaultyStartConsume(s) == s ## <<BIN_SEM, -1>>
start_consume(s) == s ## <<BUFFER_FULL, -1>> ## <<BIN_SEM, -1>>
stop_consume(s)  == s ## <<BIN_SEM, 1>> ## <<BUFFER_EMPTY, 1>>

Start(c, s) == IF c \in Producers THEN start_produce(s) ELSE start_consume(s)
Stop(c, s)  == IF c \in Producers THEN stop_produce(s)  ELSE stop_consume(s)

-----------------------------------------------------------------------------
(* A child.                                                                 *)

Goto(c, l) == pc' = [pc EXCEPT ![c] = l]

(* while (flag); after the loop the child calls exit(0).  The bound keeps a *)
(* producer from starting another item, as if it were not scheduled until   *)
(* its alarm.                                                               *)
Test(c) ==
  /\ pc[c] = "loop"
  /\ \/ flag[c] /\ (c \in Producers => pr < MaxItems) /\ Goto(c, "start")
     \/ ~ flag[c] /\ Goto(c, "exit0")
  /\ UNCHANGED <<ipcVars, parentVars, flag, alarm, shmVars, symb, out>>

(* semop(start_...) returns 0, at once or after a sleep.                    *)
Enter(c) ==
  /\ pc[c] \in {"start", "sleep"}
  /\ Start(c, sem) # Blocked
  /\ sem' = Start(c, sem)
  /\ Goto(c, IF c \in Producers THEN "take" ELSE "put")
  /\ UNCHANGED <<ipc, parentVars, flag, alarm, shmVars, symb, out>>

(* semop(start_...) puts the process to sleep.                              *)
Sleep(c) ==
  /\ pc[c] = "start"
  /\ Start(c, sem) = Blocked
  /\ Goto(c, "sleep")
  /\ UNCHANGED <<ipcVars, parentVars, flag, alarm, shmVars, symb, out>>

(* symb = (star letter)++, back to 'a' after 'z'.                           *)
Succ(x) == IF x + 1 = L THEN 0 ELSE x + 1

Take(c) ==
  /\ pc[c] = "take"
  /\ symb' = [symb EXCEPT ![c] = letter]
  /\ letter' = Succ(letter)
  /\ Goto(c, "put")
  /\ UNCHANGED <<ipcVars, parentVars, flag, alarm, pr, con, mem, out>>

(* The store through pr_ptr, and the load and print through con_ptr.  Past  *)
(* the end of the page the process is killed, or touches a foreign byte.    *)
Fault(c) ==
  /\ pc[c] = "put"
  /\ ROOM <= IF c \in Producers THEN pr ELSE con
  /\ Goto(c, "killed")
  /\ UNCHANGED <<ipcVars, parentVars, flag, alarm, shmVars, symb, out>>

Put(c) ==
  /\ pc[c] = "put"
  /\ c \in Producers
  /\ mem' = IF pr < ROOM THEN [mem EXCEPT ![pr] = symb[c]] ELSE mem
  /\ Goto(c, "advance")
  /\ UNCHANGED <<ipcVars, parentVars, flag, alarm, pr, con, letter, symb, out>>

Get(c) ==
  /\ pc[c] = "put"
  /\ c \in Consumers
  /\ out' = Append(out, IF con < ROOM THEN mem[con] ELSE Blank)
  /\ Goto(c, "advance")
  /\ UNCHANGED <<ipcVars, parentVars, flag, alarm, shmVars, symb>>

(* The pointer increment of the producer and of the consumer.               *)
Advance(c) ==
  /\ pc[c] = "advance"
  /\ IF c \in Producers THEN pr' = pr + 1 /\ con' = con
                        ELSE con' = con + 1 /\ pr' = pr
  /\ Goto(c, "stop")
  /\ UNCHANGED <<ipcVars, parentVars, flag, alarm, letter, mem, symb, out>>

(* semop(stop_...); the block's local symb ends here.                       *)
Leave(c) ==
  /\ pc[c] = "stop"
  /\ Stop(c, sem) # Blocked
  /\ sem' = Stop(c, sem)
  /\ symb' = [symb EXCEPT ![c] = Blank]
  /\ Goto(c, "loop")
  /\ UNCHANGED <<ipc, parentVars, flag, alarm, shmVars, out>>

(* SIGALRM.  A process asleep in semop gets EINTR after the handler and     *)
(* calls exit(1); anywhere else only flag changes, and the semop it may     *)
(* already be about to call will not be interrupted again ("missed").       *)
Spent(c) == IF pc[c] = "start" THEN "missed" ELSE "fired"
DeafAlarm(c) ==
  /\ alarm[c] = "armed" /\ Live(c)
  /\ alarm' = [alarm EXCEPT ![c] = Spent(c)]
  /\ flag' = [flag EXCEPT ![c] = FALSE]
  /\ pc' = pc
  /\ UNCHANGED <<ipcVars, parentVars, shmVars, symb, out>>
Alarm(c) ==
  /\ alarm[c] = "armed" /\ Live(c)
  /\ alarm' = [alarm EXCEPT ![c] = Spent(c)]
  /\ flag' = [flag EXCEPT ![c] = FALSE]
  /\ Goto(c, IF pc[c] = "sleep" THEN "exit1" ELSE pc[c])
  /\ UNCHANGED <<ipcVars, parentVars, shmVars, symb, out>>

Child(c) ==
  \/ Test(c) \/ Enter(c) \/ Sleep(c) \/ Take(c) \/ Fault(c)
  \/ Put(c) \/ Get(c) \/ Advance(c) \/ Leave(c)

-----------------------------------------------------------------------------
(* The parent.                                                              *)

(* One call of main() that may fail; on failure main returns 1 and removes  *)
(* nothing it created before.                                               *)
Call(here, there, got) ==
  /\ parent = here
  /\ \/ parent' = there /\ ipc' = ipc \cup got
     \/ parent' = "exited" /\ ipc' = ipc
  /\ UNCHANGED <<next, reaped, procVars, symb, out>>

Semget == Call("semget", "semctl", {"sem"}) /\ UNCHANGED <<sem, shmVars>>

(* The three SETVALs and signal(), which is installed before any fork.      *)
Semctl ==
  /\ Call("semctl", "shmget", {})
  /\ sem' = [n \in 0 .. 2 |-> CASE n = BUFFER_EMPTY -> N
                                [] n = BUFFER_FULL  -> 0
                                [] n = BIN_SEM      -> 1]
  /\ UNCHANGED shmVars

Shmget == Call("shmget", "shmat", {"shm"}) /\ UNCHANGED <<sem, shmVars>>

Shmat ==
  /\ Call("shmat", "fork", {})
  /\ pr' = 0 /\ con' = 0 /\ letter' = 0
  /\ UNCHANGED <<sem, mem>>

(* fork(), and alarm(1) in the child.                                       *)
Fork ==
  /\ parent = "fork"
  /\ next <= K
  /\ pc' = [pc EXCEPT ![next] = "loop"]
  /\ alarm' = [alarm EXCEPT ![next] = "armed"]
  /\ next' = next + 1
  /\ UNCHANGED <<ipcVars, parent, reaped, flag, shmVars, symb, out>>

(* fork() fails: main calls exit(1); children already forked go on.         *)
ForkFails ==
  /\ parent = "fork"
  /\ next <= K
  /\ parent' = "exited"
  /\ UNCHANGED <<ipcVars, next, reaped, procVars, shmVars, symb, out>>

FaultyForked ==
  /\ parent = "fork"
  /\ next > K
  /\ parent' = "clean"
  /\ UNCHANGED <<ipcVars, next, reaped, procVars, shmVars, symb, out>>
Forked ==
  /\ parent = "fork"
  /\ next > K
  /\ parent' = "wait"
  /\ UNCHANGED <<ipcVars, next, reaped, procVars, shmVars, symb, out>>

(* wait() returns some terminated child; after K of them the loop ends.     *)
Wait ==
  /\ parent = "wait"
  /\ \E c \in Children \ reaped :
       /\ pc[c] \in Final
       /\ reaped' = reaped \cup {c}
  /\ parent' = IF reaped' = Children THEN "clean" ELSE "wait"
  /\ UNCHANGED <<ipcVars, next, procVars, shmVars, symb, out>>

(* shmdt, semctl(IPC_RMID), shmctl(IPC_RMID): they cannot fail on objects   *)
(* this process owns.                                                       *)
CleanUp ==
  /\ parent = "clean"
  /\ ipc' = {}
  /\ parent' = "exited"
  /\ UNCHANGED <<sem, next, reaped, procVars, shmVars, symb, out>>

Parent == \/ Semget \/ Semctl \/ Shmget \/ Shmat
          \/ Fork \/ ForkFails \/ Forked \/ Wait \/ CleanUp

-----------------------------------------------------------------------------
(* Nothing is left to happen: every child has ended or sleeps for good.     *)
Rest ==
  /\ parent \in {"exited", "wait"}
  /\ \A c \in Children : Live(c) => /\ pc[c] = "sleep" /\ alarm[c] # "armed"
                                     /\ Start(c, sem) = Blocked
  /\ parent = "wait" => \E c \in Children : Live(c)

Terminating == Rest /\ UNCHANGED vars

Next == \/ Parent
        \/ \E c \in Children : Child(c) \/ Alarm(c)
        \/ Terminating

Spec == Init /\ [][Next]_vars

(* Every process that can run is eventually scheduled, and the alarm of a   *)
(* live process goes off.                                                   *)
FairSpec == /\ Spec
            /\ WF_vars(Parent)
            /\ \A c \in Children : WF_vars(Child(c)) /\ WF_vars(Alarm(c))

-----------------------------------------------------------------------------
(* Properties.                                                              *)

TypeOK ==
  /\ sem \in [0 .. 2 -> Nat]
  /\ ipc \in SUBSET {"sem", "shm"}
  /\ parent \in {"semget", "semctl", "shmget", "shmat", "fork", "wait", "clean", "exited"}
  /\ next \in 1 .. K + 1
  /\ reaped \in SUBSET Children
  /\ pc \in [Children -> {"unborn", "loop", "start", "sleep"} \cup Critical \cup Final]
  /\ flag \in [Children -> BOOLEAN]
  /\ alarm \in [Children -> {"none", "armed", "fired", "missed"}]
  /\ pr \in Nat /\ con \in Nat
  /\ letter \in 0 .. L
  /\ mem \in [Offset -> 0 .. L]
  /\ symb \in [Children -> 0 .. L]
  /\ out \in Seq(0 .. L)

(* The children between start_... and stop_..., dead ones included: a child *)
(* killed there never gives BIN_SEM back (no SEM_UNDO).                     *)
Holders == {c \in Children : pc[c] \in Critical \cup {"killed"}}

(* BIN_SEM admits one child at a time to the pointers, also when an alarm   *)
(* or a page fault strikes inside the critical section.                     *)
MutualExclusion == \A c, d \in Holders : c = d

(* How many letters the pointers say are in the buffer.                     *)
Pending == pr - con

(* The counters agree with the pointers at all times: a full slot is a      *)
(* letter between con_ptr and pr_ptr, and a slot in use by the holder is in *)
(* neither counter.  Only the setup and the hand-over may change them.      *)
SlotsConserved ==
  parent \notin {"semget", "semctl", "shmget", "shmat"} /\ next > 1 =>
    /\ sem[BUFFER_EMPTY] + sem[BUFFER_FULL] + Cardinality(Holders) = N
    /\ sem[BIN_SEM] + Cardinality(Holders) = 1
    /\ Holders = {} => sem[BUFFER_FULL] = Pending

(* The consumer never overtakes the producer and the producer never runs    *)
(* more than N letters ahead.                                               *)
WithinWindow == con <= pr /\ Pending <= N

(* While the buffer stays inside the page the consumers print exactly what  *)
(* the producers stored: the alphabet in order, nothing lost, repeated or   *)
(* read before it was written.                                              *)
AlphabetInOrder ==
  \A i \in 1 .. Len(out) :
    i <= ROOM => out[i] = IF i = 1 THEN 0 ELSE Succ(out[i - 1])

(* The IPC objects exist as long as some child may use them, whatever order *)
(* the children end in; main removes them only after the last wait().       *)
IpcOutlivesChildren == (\E c \in Children : Live(c)) => ipc = {"sem", "shm"}

(* An alarm never makes a child leave the critical section early: whoever   *)
(* gets out alive has given BIN_SEM and its slot back.                      *)
AlarmIsClean ==
  [][\A c \in Children : pc[c] \in Critical => pc'[c] \in Critical \cup {"loop", "killed"}]_vars

(* The program ends, unless some child's only alarm was spent between the   *)
(* test of flag and semop and that child then slept for good; with it the   *)
(* parent waits for ever.  Nothing else keeps the program: not a full page, *)
(* not a killed holder of BIN_SEM, not an alarm that finds a child asleep.  *)
Ended == parent = "exited" /\ \A c \in Children : ~ Live(c)
Stranded(c) == pc[c] = "sleep" /\ alarm[c] = "missed"
EndsOrStranded == <>[](Ended \/ \E c \in Children : Stranded(c))
=============================================================================
