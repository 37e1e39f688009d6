-------------------------- MODULE PcServerIterative --------------------------
(***************************************************************************)
(* lab_sockets/lab_03/lab_03/server_2.c, the second buffer server for the  *)
(* clients of client.c: epoll watches only the listening socket, and       *)
(* serve() stays with one connection until its client closes it.           *)
(*                                                                         *)
(* SIGINT only clears `flag' while the server computes; if it waits in     *)
(* epoll_wait or recv, these treat EINTR as fatal: exit(1) without         *)
(* removing the semaphore set.                                             *)
(*                                                                         *)
(* A client may be killed while it waits.  What recv() then says of the    *)
(* connection depends on what was on its way: the end of the stream, or a  *)
(* reset, and that is fatal too.                                           *)
(***************************************************************************)
EXTENDS Naturals, Sequences, FiniteSets, SysVSem

CONSTANTS
  Clients,    \* client processes
  ARR_SIZE,   \* slots of the ring (26 in the code)
  WARMUP,     \* letters a client produces first (5 in the code)
  ITER,       \* alternating requests after that (40000 in the code)
  L           \* letters of the alphabet (26 in the code)

ASSUME IterativeAssumption ==
  /\ IsFiniteSet(Clients)
  /\ ARR_SIZE \in Nat \ {0} /\ WARMUP \in Nat /\ ITER \in Nat /\ L \in Nat \ {0}

SEM_EMPTY == 0
SEM_FULL  == 1

Slots   == 0 .. ARR_SIZE - 1
Letters == 0 .. L - 1
Blank   == L
Nobody  == "nobody"

VARIABLES
  main,     \* where the server is
  flag,     \* the server's `flag'
  semset,   \* the semaphore set: "none", "live" or "removed"
  sem,      \* its values
  ring, head, tail,
  cur,      \* the client whose connection serve() has, or Nobody
  conn,     \* each client's connection
  item,     \* the letter in the reply
  cl,       \* where each client is
  iter,     \* requests each client has completed
  letter,   \* each client's next letter
  taken     \* history: the letter handed out last

ringVars   == <<sem, ring, head, tail>>
clientVars == <<cl, iter, letter>>
vars == <<main, flag, semset, ringVars, cur, conn, item, clientVars, taken>>

Init ==
  /\ main = "init"
  /\ flag = TRUE
  /\ semset = "none"
  /\ sem = [n \in 0 .. 1 |-> 0]
  /\ ring = [i \in Slots |-> Blank]
  /\ head = 0 /\ tail = 0
  /\ cur = Nobody
  /\ conn = [c \in Clients |-> "none"]
  /\ item = [c \in Clients |-> Blank]
  /\ cl = [c \in Clients |-> "ready"]
  /\ iter = [c \in Clients |-> 0]
  /\ letter = [c \in Clients |-> 0]
  /\ taken = Blank

IsProduce(c) == iter[c] < WARMUP \/ (iter[c] - WARMUP) % 2 = 0
Replies == {"OK", "ERR_BUF_FULL", "ERR_BUF_EMPTY"}
Up == main \notin {"exit0", "exit1"}

-----------------------------------------------------------------------------
(* The server.                                                              *)

start_produce(s) == s ## <<SEM_EMPTY, -1>>
stop_produce(s)  == s ## <<SEM_FULL, 1>>
start_consume(s) == s ## <<SEM_FULL, -1>>
stop_consume(s)  == s ## <<SEM_EMPTY, 1>>

(* The ring index after i.                                                  *)
Successor(i) == (i + 1) % ARR_SIZE

(* Everything up to semctl: the handler of SIGINT and the semaphore set.    *)
Startup ==
  /\ main = "init"
  /\ \/ main' = "setup" /\ semset' = "live"
     \/ main' = "exit1" /\ semset' = "none"
  /\ sem' = [n \in 0 .. 1 |-> IF n = SEM_EMPTY THEN ARR_SIZE ELSE 0]
  /\ UNCHANGED <<flag, ring, head, tail, cur, conn, item, clientVars, taken>>

(* The sockets and epoll; a failure leaves the set behind.                  *)
Setup ==
  /\ main = "setup"
  /\ main' \in {"test", "exit1"}
  /\ UNCHANGED <<flag, semset, ringVars, cur, conn, item, clientVars, taken>>

(* while (flag)                                                             *)
TestFlag ==
  /\ main = "test"
  /\ main' = IF flag THEN "epoll" ELSE "remove"
  /\ UNCHANGED <<flag, semset, ringVars, cur, conn, item, clientVars, taken>>

(* Connections that accept() has still to take; some are dead already.      *)
Pending(c) == conn[c] \in {"backlog", "dead", "closed"}

(* epoll_wait times out after 500 ms without a connection.                  *)
NoTimeout ==
  /\ main = "epoll" /\ FALSE
  /\ UNCHANGED vars
EpollTimeout ==
  /\ main = "epoll"
  /\ \A c \in Clients : ~ Pending(c)
  /\ main' = "test"
  /\ UNCHANGED <<flag, semset, ringVars, cur, conn, item, clientVars, taken>>

(* epoll_wait reports the listening socket and accept() takes a connection. *)
Accept ==
  /\ main = "epoll"
  /\ \E c \in Clients : Pending(c) /\ cur' = c
  /\ main' = "recv"
  /\ UNCHANGED <<flag, semset, ringVars, conn, item, clientVars, taken>>

(* recv() returns a request; both semops and the reply follow at once.  The *)
(* end of a killed client answers with a reset, but the end of its stream   *)
(* came before that, and recv() may report either.                          *)
Answer(v) ==
  \E w \in (IF conn[cur] = "dead" THEN {"closed", "reset"} ELSE {v}) :
    conn' = [conn EXCEPT ![cur] = w]

ServeProduce ==
  /\ main = "recv" /\ conn[cur] \in {"backlog", "dead"} /\ IsProduce(cur)
  /\ IF start_produce(sem) = Blocked
     THEN Answer("ERR_BUF_FULL") /\ UNCHANGED <<sem, ring, tail>>
     ELSE /\ sem' = stop_produce(start_produce(sem))
          /\ ring' = [ring EXCEPT ![tail] = letter[cur]]
          /\ tail' = Successor(tail)
          /\ Answer("OK")
  /\ UNCHANGED <<main, flag, semset, head, cur, item, clientVars, taken>>

FaultyServeConsume ==
  /\ main = "recv" /\ conn[cur] \in {"backlog", "dead"} /\ ~ IsProduce(cur)
  /\ sem' = stop_consume(sem)
  /\ item' = [item EXCEPT ![cur] = ring[head]]
  /\ taken' = ring[head]
  /\ head' = Successor(head)
  /\ Answer("OK")
  /\ UNCHANGED <<main, flag, semset, ring, tail, cur, clientVars>>
WaitingServeConsume ==
  /\ main = "recv" /\ conn[cur] \in {"backlog", "dead"} /\ ~ IsProduce(cur)
  /\ start_consume(sem) # Blocked
  /\ sem' = stop_consume(start_consume(sem))
  /\ item' = [item EXCEPT ![cur] = ring[head]]
  /\ taken' = ring[head]
  /\ head' = Successor(head)
  /\ Answer("OK")
  /\ UNCHANGED <<main, flag, semset, ring, tail, cur, clientVars>>
ServeConsume ==
  /\ main = "recv" /\ conn[cur] \in {"backlog", "dead"} /\ ~ IsProduce(cur)
  /\ IF start_consume(sem) = Blocked
     THEN Answer("ERR_BUF_EMPTY") /\ UNCHANGED <<sem, item, head, taken>>
     ELSE /\ sem' = stop_consume(start_consume(sem))
          /\ item' = [item EXCEPT ![cur] = ring[head]]
          /\ taken' = ring[head]
          /\ head' = Successor(head)
          /\ Answer("OK")
  /\ UNCHANGED <<main, flag, semset, ring, tail, cur, clientVars>>

(* recv() returns 0: the client closed the connection.                      *)
Closed ==
  /\ main = "recv" /\ conn[cur] = "closed"
  /\ conn' = [conn EXCEPT ![cur] = "none"]
  /\ cur' = Nobody
  /\ main' = "test"
  /\ UNCHANGED <<flag, semset, ringVars, item, clientVars, taken>>

(* recv() returns -1: the connection was reset.                             *)
Reset ==
  /\ main = "recv" /\ conn[cur] = "reset"
  /\ main' = "exit1"
  /\ UNCHANGED <<flag, semset, ringVars, cur, conn, item, clientVars, taken>>

(* SIGINT clears the flag; main() goes on where it is, be it before         *)
(* epoll_wait or recv, unless it waits in one of the two already.           *)
Waits == \/ main = "epoll" /\ \A c \in Clients : ~ Pending(c)
         \/ main = "recv" /\ conn[cur] \in Replies \cup {"backlog"}

Sigint ==
  /\ \/ main \in {"setup", "test", "epoll", "recv"} /\ main' = main
     \/ Waits /\ main' = "exit1"
  /\ flag' = FALSE
  /\ UNCHANGED <<semset, ringVars, cur, conn, item, clientVars, taken>>

Remove ==
  /\ main = "remove"
  /\ semset' = "removed"
  /\ main' = "exit0"
  /\ UNCHANGED <<flag, ringVars, cur, conn, item, clientVars, taken>>

Server == Startup \/ Setup \/ TestFlag \/ EpollTimeout \/ Accept \/ ServeProduce \/ ServeConsume
          \/ Closed \/ Reset \/ Remove

-----------------------------------------------------------------------------
(* A client.                                                                *)

(* A new connection is made only when the server has seen the end of the    *)
(* client's last one, or never will.                                        *)
Request(c) ==
  /\ cl[c] = "ready" /\ iter[c] < WARMUP + ITER /\ conn[c] # "closed"
  /\ IF main \in {"test", "epoll", "recv"}
     THEN cl' = [cl EXCEPT ![c] = "wait"] /\ conn' = [conn EXCEPT ![c] = "backlog"]
     ELSE cl' = [cl EXCEPT ![c] = "failed"] /\ conn' = conn
  /\ UNCHANGED <<main, flag, semset, ringVars, cur, item, iter, letter, taken>>

(* recv() of the reply, close(); a refused letter is not sent again.        *)
Reply(c) ==
  /\ cl[c] = "wait" /\ conn[c] \in Replies
  /\ conn' = [conn EXCEPT ![c] = "closed"]
  /\ iter' = [iter EXCEPT ![c] = @ + 1]
  /\ letter' = IF IsProduce(c) THEN [letter EXCEPT ![c] = (@ + 1) % L] ELSE letter
  /\ cl' = [cl EXCEPT ![c] = IF iter'[c] = WARMUP + ITER THEN "done" ELSE "ready"]
  /\ UNCHANGED <<main, flag, semset, ringVars, cur, item, taken>>

(* The server is gone: recv() fails and the next connect() is refused.      *)
Lost(c) ==
  /\ \/ cl[c] = "wait" /\ conn[c] \notin Replies
     \/ cl[c] = "ready" /\ conn[c] = "closed"
  /\ ~ Up
  /\ cl' = [cl EXCEPT ![c] = "failed"]
  /\ UNCHANGED <<main, flag, semset, ringVars, cur, conn, item, iter, letter, taken>>

(* The client is killed: before or after it sent its request, or before or  *)
(* after it read its reply.  An unread reply makes the kernel reset the     *)
(* connection, else the stream just ends.                                   *)
Killed(c) ==
  /\ cl[c] = "wait"
  /\ cl' = [cl EXCEPT ![c] = "killed"]
  /\ \E w \in {"closed", IF conn[c] = "backlog" THEN "dead" ELSE "reset"} :
       conn' = [conn EXCEPT ![c] = w]
  /\ UNCHANGED <<main, flag, semset, ringVars, cur, item, iter, letter, taken>>

Client(c) == Request(c) \/ Reply(c) \/ Lost(c)

Terminating ==
  /\ ~ Up
  /\ \A c \in Clients : cl[c] \in {"done", "failed", "killed"}
  /\ UNCHANGED vars

Next == \/ Server \/ Sigint
        \/ \E c \in Clients : Client(c) \/ Killed(c)
        \/ Terminating

Spec == Init /\ [][Next]_vars

(* The server and the clients run, and the backlog is a queue: a pending    *)
(* connection is not passed over for ever.                                  *)
FairSpec == /\ Spec
            /\ WF_vars(Server)
            /\ \A c \in Clients : /\ WF_vars(Client(c))
                                  /\ SF_vars(Accept /\ cur' = c)

-----------------------------------------------------------------------------
(* Properties.                                                              *)

TypeOK ==
  /\ main \in {"init", "setup", "test", "epoll", "recv", "remove", "exit0", "exit1"}
  /\ flag \in BOOLEAN
  /\ semset \in {"none", "live", "removed"}
  /\ sem \in [0 .. 1 -> Nat]
  /\ ring \in [Slots -> 0 .. L]
  /\ head \in Slots /\ tail \in Slots
  /\ cur \in Clients \cup {Nobody}
  /\ conn \in [Clients -> {"none", "backlog", "dead", "reset", "closed"} \cup Replies]
  /\ item \in [Clients -> 0 .. L]
  /\ cl \in [Clients -> {"ready", "wait", "failed", "killed", "done"}]
  /\ iter \in [Clients -> 0 .. WARMUP + ITER]
  /\ letter \in [Clients -> Letters]
  /\ taken \in 0 .. L

Buffer == [i \in 1 .. sem[SEM_FULL] |-> ring[(head + i - 1) % ARR_SIZE]]

Fifo == INSTANCE BoundedFifo WITH
          Capacity <- ARR_SIZE, Items <- Letters, None <- Blank, queue <- Buffer

(* The iterative server is a bounded first-in first-out buffer, too.        *)
ImplementsFifo == Fifo!Spec

(* serve() keeps everyone else waiting, but not for ever: a client that     *)
(* waits is answered, unless it or the server goes away.                    *)
RequestAnswered ==
  \A c \in Clients : cl[c] = "wait" ~> (conn[c] \in Replies \/ cl[c] # "wait" \/ ~ Up)

(* SIGINT ends the server wherever it strikes once the handler is there: in *)
(* epoll_wait or recv at once; between the test of the flag and epoll_wait  *)
(* because the wait of 500 ms ends; else at the next test of the flag,      *)
(* which the clients still connected do not put off for ever.               *)
SigintEnds == ~ flag ~> ~ Up
=============================================================================
