---------------------------- MODULE PcServerEpoll ----------------------------
(***************************************************************************)
(* lab_sockets/lab_03/multiplex: the single-threaded epoll buffer server   *)
(* (server.c) and its retrying clients (client.c).  The server handles one *)
(* event at a time and uses IPC_NOWAIT, so it refuses what it cannot do    *)
(* now; the client connects again and repeats the request.                 *)
(*                                                                         *)
(* Each request uses a connection of its own.  Once it is answered the     *)
(* server only has its end to see and its descriptor to close, which       *)
(* touches no other state; messages are small enough to arrive whole.      *)
(***************************************************************************)
EXTENDS Naturals, Sequences, FiniteSets, SysVSem

CONSTANTS
  Clients,        \* client processes
  ProducerMode,   \* those started with mode 'p'; the others run mode 'c'
  ARR_SIZE,       \* slots of the ring (26 in the code)
  ITER,           \* requests per client (300 in the code)
  L               \* letters of the alphabet (26 in the code)

ASSUME EpollAssumption ==
  /\ IsFiniteSet(Clients) /\ ProducerMode \subseteq Clients
  /\ ARR_SIZE \in Nat \ {0} /\ ITER \in Nat /\ L \in Nat \ {0}

SEM_EMPTY == 0
SEM_FULL  == 1

Slots   == 0 .. ARR_SIZE - 1
Letters == 0 .. L - 1
Blank   == L

VARIABLES
  server,   \* "init", "up", "exit0" or "exit1"
  semset,   \* the semaphore set: "none", "live" or "removed"
  sem,      \* its values
  ring, head, tail,
  conn,     \* each client's current connection, up to the reply on it
  item,     \* the letter in the reply to a consume
  cl,       \* where each client is
  iter,     \* requests each client has reported as done
  letter,   \* each client's next letter
  status,   \* produce()'s local status
  served,   \* history: requests the server carried out, per client
  taken     \* history: the letter handed out last

serverVars == <<server, semset>>
ringVars   == <<sem, ring, head, tail>>
clientVars == <<cl, iter, letter, status>>
vars == <<serverVars, ringVars, conn, item, clientVars, served, taken>>

Init ==
  /\ server = "init"
  /\ semset = "none"
  /\ sem = [n \in 0 .. 1 |-> 0]
  /\ ring = [i \in Slots |-> Blank]
  /\ head = 0 /\ tail = 0
  /\ conn = [c \in Clients |-> "none"]
  /\ item = [c \in Clients |-> Blank]
  /\ cl = [c \in Clients |-> "ready"]
  /\ iter = [c \in Clients |-> 0]
  /\ letter = [c \in Clients |-> 0]
  /\ status = [c \in Clients |-> "garbage"]
  /\ served = [c \in Clients |-> 0]
  /\ taken = Blank

(* main() of the client: every third request is of the other kind.          *)
IsProduce(c) == (c \in ProducerMode) = (iter[c] % 3 # 2)

-----------------------------------------------------------------------------
(* The server.                                                              *)

start_produce(s) == s ## <<SEM_EMPTY, -1>>
stop_produce(s)  == s ## <<SEM_FULL, 1>>
start_consume(s) == s ## <<SEM_FULL, -1>>
FaultyStopConsume(s) == s
stop_consume(s)  == s ## <<SEM_EMPTY, 1>>

(* The ring index after i.                                                  *)
Successor(i) == (i + 1) % ARR_SIZE

Up == server = "up"

(* fopen, signal, semget, bind, listen, epoll_create1; a failure after      *)
(* semget leaves the set behind.                                            *)
Startup ==
  /\ server = "init"
  /\ \/ server' = "up" /\ semset' = "live"
     \/ server' = "exit1" /\ semset' \in {"none", "live"}
  /\ sem' = [n \in 0 .. 1 |-> IF n = SEM_EMPTY THEN ARR_SIZE ELSE 0]
  /\ UNCHANGED <<ring, head, tail, conn, item, clientVars, served, taken>>

(* An event on listenfd: accept and EPOLL_CTL_ADD.                          *)
Accept(c) ==
  /\ Up /\ conn[c] = "backlog"
  /\ conn' = [conn EXCEPT ![c] = "open"]
  /\ UNCHANGED <<serverVars, ringVars, item, clientVars, served, taken>>

(* handle_client_command, case 'P'                                          *)
FaultyProduce(c) ==
  /\ Up /\ conn[c] = "open" /\ IsProduce(c)
  /\ sem' = stop_produce(sem)
  /\ ring' = [ring EXCEPT ![tail] = letter[c]]
  /\ tail' = Successor(tail)
  /\ conn' = [conn EXCEPT ![c] = "OK"]
  /\ served' = [served EXCEPT ![c] = @ + 1]
  /\ UNCHANGED <<serverVars, head, item, clientVars, taken>>
TwiceProduce(c) ==
  /\ Up /\ conn[c] = "open" /\ IsProduce(c)
  /\ start_produce(sem) # Blocked
  /\ sem' = stop_produce(start_produce(sem))
  /\ ring' = [ring EXCEPT ![tail] = letter[c]]
  /\ tail' = Successor(tail)
  /\ conn' = [conn EXCEPT ![c] = "BUFFER_FULL_ERR"]
  /\ served' = [served EXCEPT ![c] = @ + 1]
  /\ UNCHANGED <<serverVars, head, item, clientVars, taken>>
Produce(c) ==
  /\ Up /\ conn[c] = "open" /\ IsProduce(c)
  /\ IF start_produce(sem) = Blocked
     THEN /\ conn' = [conn EXCEPT ![c] = "BUFFER_FULL_ERR"]
          /\ UNCHANGED <<sem, ring, tail, served>>
     ELSE /\ sem' = stop_produce(start_produce(sem))
          /\ ring' = [ring EXCEPT ![tail] = letter[c]]
          /\ tail' = Successor(tail)
          /\ conn' = [conn EXCEPT ![c] = "OK"]
          /\ served' = [served EXCEPT ![c] = @ + 1]
  /\ UNCHANGED <<serverVars, head, item, clientVars, taken>>

(* handle_client_command, case 'C'                                          *)
Consume(c) ==
  /\ Up /\ conn[c] = "open" /\ ~ IsProduce(c)
  /\ IF start_consume(sem) = Blocked
     THEN /\ conn' = [conn EXCEPT ![c] = "BUFFER_EMPTY_ERR"]
          /\ UNCHANGED <<sem, head, item, served, taken>>
     ELSE /\ sem' = stop_consume(start_consume(sem))
          /\ item' = [item EXCEPT ![c] = ring[head]]
          /\ taken' = ring[head]
          /\ head' = Successor(head)
          /\ conn' = [conn EXCEPT ![c] = "OK"]
          /\ served' = [served EXCEPT ![c] = @ + 1]
  /\ UNCHANGED <<serverVars, ring, tail, clientVars>>

(* sigint_handler: it may run at any time and ends the process.             *)
Sigint ==
  /\ Up
  /\ server' = "exit0"
  /\ semset' = "removed"
  /\ UNCHANGED <<ringVars, conn, item, clientVars, served, taken>>

Serve(c) == Accept(c) \/ Produce(c) \/ Consume(c)

-----------------------------------------------------------------------------
(* A client.                                                                *)

(* do_connect and send; connect() fails when nobody listens: exit(1).       *)
Request(c) ==
  /\ cl[c] = "ready" /\ iter[c] < ITER
  /\ IF Up THEN /\ cl' = [cl EXCEPT ![c] = "wait"]
                /\ conn' = [conn EXCEPT ![c] = "backlog"]
           ELSE /\ cl' = [cl EXCEPT ![c] = "failed"]
                /\ conn' = conn
  /\ UNCHANGED <<serverVars, ringVars, item, iter, letter, status, served, taken>>

(* The loop of produce()/consume() ends: the client prints Response: OK.    *)
Report(c) ==
  /\ iter' = [iter EXCEPT ![c] = @ + 1]
  /\ cl' = [cl EXCEPT ![c] = IF iter'[c] = ITER THEN "done" ELSE "ready"]
  /\ letter' = IF IsProduce(c) THEN [letter EXCEPT ![c] = (@ + 1) % L] ELSE letter
  /\ status' = [status EXCEPT ![c] = "garbage"]

(* ... or the client goes round again.                                      *)
Retry(c, s) ==
  /\ cl' = [cl EXCEPT ![c] = "ready"]
  /\ status' = [status EXCEPT ![c] = s]
  /\ UNCHANGED <<iter, letter>>

(* recv() returns the reply.                                                *)
Reply(c) ==
  /\ cl[c] = "wait"
  /\ conn[c] \in {"OK", "BUFFER_FULL_ERR", "BUFFER_EMPTY_ERR"}
  /\ conn' = [conn EXCEPT ![c] = "none"]
  /\ IF conn[c] = "OK" THEN Report(c) ELSE Retry(c, conn[c])
  /\ UNCHANGED <<serverVars, ringVars, item, served, taken>>

(* The server went away before it replied; recv() fails, unnoticed.  In     *)
(* produce() status keeps its value, uninitialized at first: any value. In  *)
(* consume() buf[0] is still the 'C' of the request.                        *)
Lost(c) ==
  /\ cl[c] = "wait" /\ ~ Up
  /\ conn[c] \in {"backlog", "open"}
  /\ conn' = [conn EXCEPT ![c] = "none"]
  /\ \/ status[c] # "BUFFER_FULL_ERR" /\ Report(c)
     \/ IsProduce(c) /\ Retry(c, status[c])
  /\ UNCHANGED <<serverVars, ringVars, item, served, taken>>

Client(c) == Request(c) \/ Reply(c) \/ Lost(c)

Terminating ==
  /\ \A c \in Clients : cl[c] \in {"done", "failed"}
  /\ UNCHANGED vars

Next == \/ Startup \/ Sigint
        \/ \E c \in Clients : Serve(c) \/ Client(c)
        \/ Terminating

Spec == Init /\ [][Next]_vars

(* epoll_wait reports every ready descriptor, so every connection is        *)
(* eventually looked at; nothing makes the user send SIGINT.                *)
FairSpec == /\ Spec
            /\ WF_vars(Startup)
            /\ \A c \in Clients : WF_vars(Serve(c)) /\ WF_vars(Client(c))

-----------------------------------------------------------------------------
(* Properties.                                                              *)

Replies == {"OK", "BUFFER_FULL_ERR", "BUFFER_EMPTY_ERR"}

TypeOK ==
  /\ server \in {"init", "up", "exit0", "exit1"}
  /\ semset \in {"none", "live", "removed"}
  /\ sem \in [0 .. 1 -> Nat]
  /\ ring \in [Slots -> 0 .. L]
  /\ head \in Slots /\ tail \in Slots
  /\ conn \in [Clients -> {"none", "backlog", "open"} \cup Replies]
  /\ item \in [Clients -> 0 .. L]
  /\ cl \in [Clients -> {"ready", "wait", "failed", "done"}]
  /\ iter \in [Clients -> 0 .. ITER]
  /\ letter \in [Clients -> Letters]
  /\ status \in [Clients -> {"garbage"} \cup Replies]
  /\ served \in [Clients -> Nat]
  /\ taken \in 0 .. L

Buffer == [i \in 1 .. sem[SEM_FULL] |-> ring[(head + i - 1) % ARR_SIZE]]

Fifo == INSTANCE BoundedFifo WITH
          Capacity <- ARR_SIZE, Items <- Letters, None <- Blank, queue <- Buffer

(* A refusal is honest: BUFFER_FULL_ERR is sent only when the ring holds    *)
(* ARR_SIZE letters, BUFFER_EMPTY_ERR only when it holds none.              *)
RefusalJustified ==
  [][\A c \in Clients :
       /\ conn[c] = "open" /\ conn'[c] = "BUFFER_FULL_ERR"  => Len(Buffer) = ARR_SIZE
       /\ conn[c] = "open" /\ conn'[c] = "BUFFER_EMPTY_ERR" => Len(Buffer) = 0]_vars

(* With two counting semaphores and no mutex the single-threaded server is  *)
(* a bounded first-in first-out buffer, and its refusals are honest.        *)
ImplementsFifo == Fifo!Spec /\ RefusalJustified

(* Retries do not duplicate: while the server runs, the requests it carried *)
(* out for a client are those the client has reported, plus the one whose   *)
(* OK is on the way.                                                        *)
ServedOnce ==
  Up => \A c \in Clients : served[c] = iter[c] + IF conn[c] = "OK" THEN 1 ELSE 0

(* In the end every client has finished or failed, or all that are left are *)
(* refused for ever: each wants to produce into a full ring, or each wants  *)
(* to consume from an empty one.  Nobody spins while another could go on.   *)
Unfinished == {c \in Clients : cl[c] \in {"ready", "wait"}}
SettledOrGridlocked ==
  <>[](\/ Unfinished = {}
       \/ Len(Buffer) = ARR_SIZE /\ \A c \in Unfinished : IsProduce(c)
       \/ Len(Buffer) = 0 /\ \A c \in Unfinished : ~ IsProduce(c))

(* The header of client.c: the client repeats the request until it gets OK, *)
(* so a request it reports as done was carried out.                         *)
OkMeansServed == \A c \in Clients : iter[c] <= served[c]
=============================================================================
