--------------------------- MODULE PcServerThreads ---------------------------
(***************************************************************************)
(* lab_sockets/lab_03/lab_03: the threaded buffer server (server_1.c) with *)
(* its clients (client.c).  Every request comes over a connection of its   *)
(* own and is handled by a thread of its own; semop makes the thread wait  *)
(* for a slot or an item, so the client waits for the reply.               *)
(*                                                                         *)
(* SIGINT is taken by the main thread: accept() fails with EINTR (a thread *)
(* on descriptor -1 ends at once), the loop ends, and after sleep(30) the  *)
(* semaphore set is removed under the threads that still wait on it.  A    *)
(* second SIGINT while main is in the handler goes to another thread.      *)
(*                                                                         *)
(* A client has one connection at a time, so the thread serving it is      *)
(* named by the client.  After the reply that thread can only see the end  *)
(* of the connection and close it.                                         *)
(***************************************************************************)
EXTENDS Naturals, Sequences, FiniteSets, SysVSem

CONSTANTS
  Clients,    \* client processes
  ARR_SIZE,   \* slots of the ring (26 in the code)
  WARMUP,     \* letters a client produces first (5 in the code)
  ITER,       \* alternating requests after that (40000 in the code)
  L           \* letters of the alphabet (26 in the code)

ASSUME ThreadsAssumption ==
  /\ IsFiniteSet(Clients)
  /\ ARR_SIZE \in Nat \ {0} /\ WARMUP \in Nat /\ L \in Nat \ {0}
  /\ ITER \in Nat /\ ITER % 2 = 0

SEM_EMPTY == 0
SEM_FULL  == 1
SEM_MUTEX == 2

Slots   == 0 .. ARR_SIZE - 1
Letters == 0 .. L - 1
Blank   == L              \* a slot never written

VARIABLES
  main,     \* where the server's main thread is
  flag,     \* the server's `flag'
  semset,   \* the semaphore set: "none", "live" or "removed"
  sem,      \* its values
  ring, head, tail,
  th,       \* the thread serving each client's current connection
  req,      \* the letter in that thread's req
  cl,       \* where each client is
  iter,     \* requests each client has completed
  letter,   \* each client's next letter
  taken     \* history: the letter handed out last, when head moved past it

serverVars == <<main, flag, semset>>
ringVars   == <<ring, head, tail, taken>>
clientVars == <<cl, iter, letter>>
vars == <<serverVars, sem, ringVars, th, req, clientVars>>

Init ==
  /\ main = "init"
  /\ flag = TRUE
  /\ semset = "none"
  /\ sem = [n \in 0 .. 2 |-> 0]
  /\ ring = [i \in Slots |-> Blank]
  /\ head = 0 /\ tail = 0
  /\ th = [c \in Clients |-> "none"]
  /\ req = [c \in Clients |-> Blank]
  /\ cl = [c \in Clients |-> "ready"]
  /\ iter = [c \in Clients |-> 0]
  /\ letter = [c \in Clients |-> 0]
  /\ taken = Blank

(* main() of the client: WARMUP produces, then produce and consume in turn. *)
IsProduce(c) == iter[c] < WARMUP \/ (iter[c] - WARMUP) % 2 = 0

-----------------------------------------------------------------------------
(* Semaphore arrays and the thread function process_client.                 *)

start_produce(s) == s ## <<SEM_EMPTY, -1>> ## <<SEM_MUTEX, -1>>
stop_produce(s)  == s ## <<SEM_MUTEX, 1>> ## <<SEM_FULL, 1>>
FaultyStartConsume(s) == s ## <<SEM_FULL, -1>>
start_consume(s) == s ## <<SEM_FULL, -1>> ## <<SEM_MUTEX, -1>>
FaultyStopConsume(s) == s ## <<SEM_MUTEX, 1>>
stop_consume(s)  == s ## <<SEM_MUTEX, 1>> ## <<SEM_EMPTY, 1>>

Start(c, s) == IF IsProduce(c) THEN start_produce(s) ELSE start_consume(s)
Stop(c, s)  == IF IsProduce(c) THEN stop_produce(s)  ELSE stop_consume(s)

Up == main \notin {"exit0", "exit1", "failed"}
At(c, l) == Up /\ th[c] = l
Goto(c, l) == th' = [th EXCEPT ![c] = l]

(* recv() of the request.                                                   *)
Recv(c) ==
  /\ At(c, "recv")
  /\ req' = [req EXCEPT ![c] = IF IsProduce(c) THEN letter[c] ELSE Blank]
  /\ Goto(c, "start")
  /\ UNCHANGED <<serverVars, sem, ringVars, clientVars>>

(* semop(start_...): the thread waits until the array can run.              *)
Enter(c) ==
  /\ At(c, "start")
  /\ semset = "live"
  /\ Start(c, sem) # Blocked
  /\ sem' = Start(c, sem)
  /\ Goto(c, "slot")
  /\ UNCHANGED <<serverVars, ringVars, req, clientVars>>

(* ring[tail] = req.letter, or req.letter = ring[head]                      *)
Slot(c) ==
  /\ At(c, "slot")
  /\ IF IsProduce(c) THEN ring' = [ring EXCEPT ![tail] = req[c]] /\ req' = req
                     ELSE req' = [req EXCEPT ![c] = ring[head]] /\ ring' = ring
  /\ Goto(c, "move")
  /\ UNCHANGED <<serverVars, sem, head, tail, taken, clientVars>>

Successor(i) == (i + 1) % ARR_SIZE

(* tail = (tail + 1) % ARR_SIZE, or the same for head                       *)
Move(c) ==
  /\ At(c, "move")
  /\ IF IsProduce(c)
     THEN tail' = Successor(tail) /\ UNCHANGED <<head, taken>>
     ELSE head' = Successor(head) /\ taken' = req[c] /\ tail' = tail
  /\ Goto(c, "stop")
  /\ UNCHANGED <<serverVars, sem, ring, req, clientVars>>

Leave(c) ==
  /\ At(c, "stop")
  /\ semset = "live"
  /\ sem' = Stop(c, sem)
  /\ Goto(c, "send")
  /\ UNCHANGED <<serverVars, ringVars, req, clientVars>>

(* A semop on the removed set fails: exit(EXIT_FAILURE) ends the process.   *)
SemopFails(c) ==
  /\ th[c] \in {"start", "stop"} /\ Up
  /\ semset = "removed"
  /\ main' = "exit1"
  /\ UNCHANGED <<flag, semset, sem, ringVars, th, req, clientVars>>

(* send() of the reply; the thread has no more use for its req.             *)
Send(c) ==
  /\ At(c, "send")
  /\ Goto(c, "sent")
  /\ req' = [req EXCEPT ![c] = Blank]
  /\ UNCHANGED <<serverVars, sem, ringVars, clientVars>>

Thread(c) == \/ Recv(c) \/ Enter(c) \/ Slot(c) \/ Move(c) \/ Leave(c)
             \/ SemopFails(c) \/ Send(c)

-----------------------------------------------------------------------------
(* The server's main thread.                                                *)

(* fopen and sigaction; from here on SIGINT is handled.                     *)
Startup ==
  /\ main = "init"
  /\ main' \in {"setup", "failed"}
  /\ UNCHANGED <<flag, semset, sem, ringVars, th, req, clientVars>>

(* semget, the SETVALs, bind, listen.  A failure exits; after semget it     *)
(* leaves the set behind.                                                   *)
Setup ==
  /\ main = "setup"
  /\ \/ main' = "test" /\ semset' = "live"
     \/ main' = "failed" /\ semset' \in {"none", "live"}
  /\ sem' = [n \in 0 .. 2 |-> CASE n = SEM_EMPTY -> ARR_SIZE
                                [] n = SEM_FULL  -> 0
                                [] n = SEM_MUTEX -> 1]
  /\ UNCHANGED <<flag, ringVars, th, req, clientVars>>

(* while (flag)                                                             *)
TestFlag ==
  /\ main = "test"
  /\ main' = IF flag THEN "accept" ELSE "sleep"
  /\ UNCHANGED <<flag, semset, sem, ringVars, th, req, clientVars>>

(* accept() and pthread_create                                              *)
Accept ==
  /\ main = "accept"
  /\ \E c \in Clients : th[c] = "backlog" /\ Goto(c, "recv")
  /\ main' = "test"
  /\ UNCHANGED <<flag, semset, sem, ringVars, req, clientVars>>

(* The handler in the main thread.  accept() and sleep() return early if    *)
(* they sleep; just before the call the flag is cleared and nothing else.   *)
Handled == Up /\ main # "init"
Handler ==
  /\ Handled
  /\ flag' = FALSE
  /\ \/ main' = main
     \/ main = "accept" /\ (\A c \in Clients : th[c] # "backlog") /\ main' = "test"
     \/ main = "sleep" /\ main' = "remove"

Sigint == Handler /\ UNCHANGED <<semset, sem, ringVars, th, req, clientVars>>

(* A second SIGINT before the handler returns, taken by the thread of c: a  *)
(* recv() that waits fails and the thread closes the connection; a semop    *)
(* that waits fails with EINTR: exit(EXIT_FAILURE).  Elsewhere the thread   *)
(* only clears the flag again, and stop_... never waits.                    *)
Waiting(c) == th[c] = "start" /\ Start(c, sem) = Blocked
SigintThread(c) ==
  \/ /\ At(c, "recv") /\ Handler
     /\ Goto(c, "closed")
     /\ UNCHANGED <<semset, sem, ringVars, req, clientVars>>
  \/ /\ Waiting(c) /\ semset = "live" /\ Handled
     /\ flag' = FALSE /\ main' = "exit1"
     /\ UNCHANGED <<semset, sem, ringVars, th, req, clientVars>>

(* sleep(30) is over.                                                       *)
Awake ==
  /\ main = "sleep"
  /\ main' = "remove"
  /\ UNCHANGED <<flag, semset, sem, ringVars, th, req, clientVars>>

(* close(listenfd), semctl(IPC_RMID)                                        *)
FaultyRemove ==
  /\ main = "remove"
  /\ main' = "exit"
  /\ UNCHANGED <<flag, semset, sem, ringVars, th, req, clientVars>>
Remove ==
  /\ main = "remove"
  /\ semset' = "removed"
  /\ main' = "exit"
  /\ UNCHANGED <<flag, sem, ringVars, th, req, clientVars>>

Exit ==
  /\ main = "exit"
  /\ main' = "exit0"
  /\ UNCHANGED <<flag, semset, sem, ringVars, th, req, clientVars>>

Main == Startup \/ Setup \/ TestFlag \/ Accept \/ Awake \/ Remove \/ Exit

-----------------------------------------------------------------------------
(* A client.                                                                *)

Listening == main \in {"test", "accept", "sleep", "remove"}

(* do_connect and send: the kernel completes the connection before the      *)
(* server accepts it.  connect() fails when nobody listens: exit(1).        *)
Request(c) ==
  /\ cl[c] = "ready" /\ iter[c] < WARMUP + ITER
  /\ IF Listening
     THEN cl' = [cl EXCEPT ![c] = "wait"] /\ Goto(c, "backlog")
     ELSE cl' = [cl EXCEPT ![c] = "failed"] /\ th' = th
  /\ UNCHANGED <<serverVars, sem, ringVars, req, iter, letter>>

(* recv() of the reply, close(), and the next request.  What the client     *)
(* prints of the reply to 'p', an int that fills only the first bytes of    *)
(* req, decides nothing; neither does a recv() that fails.                  *)
Reply(c) ==
  /\ cl[c] = "wait" /\ th[c] \in {"sent", "closed"}
  /\ letter' = IF IsProduce(c) THEN [letter EXCEPT ![c] = (@ + 1) % L] ELSE letter
  /\ iter' = [iter EXCEPT ![c] = @ + 1]
  /\ cl' = [cl EXCEPT ![c] = IF iter'[c] = WARMUP + ITER THEN "done" ELSE "ready"]
  /\ Goto(c, "none")
  /\ UNCHANGED <<serverVars, sem, ringVars, req>>

(* The server is gone and no reply is on the way.  recv() fails unnoticed,  *)
(* and unless this was its last request the client's next connect() is      *)
(* refused: exit(1).                                                        *)
Lost(c) ==
  /\ cl[c] = "wait" /\ th[c] \notin {"sent", "closed"} /\ ~ Up
  /\ cl' = [cl EXCEPT ![c] = IF iter[c] + 1 = WARMUP + ITER THEN "done" ELSE "failed"]
  /\ UNCHANGED <<serverVars, sem, ringVars, th, req, iter, letter>>

Client(c) == Request(c) \/ Reply(c) \/ Lost(c)

Terminating ==
  /\ ~ Up
  /\ \A c \in Clients : cl[c] \in {"failed", "done"}
  /\ UNCHANGED vars

Next == \/ Main \/ Sigint
        \/ \E c \in Clients : Thread(c) \/ SigintThread(c) \/ Client(c)
        \/ Terminating

Spec == Init /\ [][Next]_vars

(* Nothing makes the user send SIGINT.                                      *)
FairSpec == /\ Spec
            /\ WF_vars(Main)
            /\ \A c \in Clients : WF_vars(Thread(c)) /\ WF_vars(Client(c))

-----------------------------------------------------------------------------
(* Properties.                                                              *)

TypeOK ==
  /\ main \in {"init", "setup", "test", "accept", "sleep", "remove", "exit", "exit0", "exit1", "failed"}
  /\ flag \in BOOLEAN
  /\ semset \in {"none", "live", "removed"}
  /\ sem \in [0 .. 2 -> Nat]
  /\ ring \in [Slots -> 0 .. L]
  /\ head \in Slots /\ tail \in Slots
  /\ th \in [Clients -> {"none", "backlog", "recv", "start", "slot", "move", "stop", "send", "sent", "closed"}]
  /\ req \in [Clients -> 0 .. L]
  /\ cl \in [Clients -> {"ready", "wait", "failed", "done"}]
  /\ iter \in [Clients -> 0 .. WARMUP + ITER]
  /\ letter \in [Clients -> Letters]
  /\ taken \in 0 .. L

(* The letters in the buffer, oldest first: a slot counts from the moment   *)
(* stop_produce releases it until the consumer moves head past it.          *)
Stored == sem[SEM_FULL] + Cardinality({c \in Clients : ~ IsProduce(c) /\ th[c] \in {"slot", "move"}})
Buffer == [i \in 1 .. Stored |-> ring[(head + i - 1) % ARR_SIZE]]

Fifo == INSTANCE BoundedFifo WITH
          Capacity <- ARR_SIZE, Items <- Letters, None <- Blank, queue <- Buffer

(* However the threads interleave, the server is a bounded first-in         *)
(* first-out buffer: no letter is lost, duplicated, reordered or read from  *)
(* a slot being written.                                                    *)
ImplementsFifo == Fifo!Spec

(* A client that produced and never consumed what it is owed leaves its     *)
(* letters behind: WARMUP per client.  As long as those fit the ring with a *)
(* slot to spare, the clients never all wait for each other.                *)
Gridlock ==
  /\ \E c \in Clients : Waiting(c)
  /\ \A c \in Clients : Waiting(c) \/ cl[c] \in {"done", "failed"}
Spare == WARMUP * Cardinality(Clients) < ARR_SIZE
NoGridlock == Spare /\ flag => ~ Gridlock

(* Whoever ends the process, main or a thread whose semop failed, and       *)
(* however many SIGINTs it took: a server that has started leaves no        *)
(* semaphore set behind, unless it ends while a thread waits in semop,      *)
(* which a SIGINT then ended.                                               *)
SetRemovedAtExit ==
  ~ Up /\ main # "failed" => semset = "removed" \/ \E c \in Clients : Waiting(c)

(* A request is answered, unless the server is being shut down, as long as  *)
(* the ring has that slot to spare.  (With the constants of the code six    *)
(* clients can all wait for ever.)                                          *)
RequestAnswered ==
  Spare => \A c \in Clients : cl[c] = "wait" ~> (th[c] = "sent" \/ ~ flag)
=============================================================================
