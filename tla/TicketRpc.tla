------------------------------ MODULE TicketRpc ------------------------------
(***************************************************************************)
(* sem_05/rpc/compile/0: clients take a ticket with GET_NUMBER and then    *)
(* poll BAKERY_PROC until it is their turn.  The server's main thread runs *)
(* svc_run; a GET_NUMBER call is handed to a detached thread of its own,   *)
(* BAKERY_PROC is executed by the main thread.  Both reply under           *)
(* send_mutex, and the thread also takes its ticket under it.              *)
(*                                                                         *)
(* Calls go over TCP, one connection for each ticket: nothing is lost or   *)
(* duplicated, and a call fails only when the server has died (a live      *)
(* server is assumed to answer within the 25 seconds of clnt_call).        *)
(***************************************************************************)
EXTENDS Naturals, Sequences, SequencesExt

CONSTANTS Clients,      \* client processes
          MaxTickets    \* bound: sessions that are ever begun

VARIABLES
  \* server
  up,                     \* the server process is alive
  client_num,             \* the next ticket
  client_number_service,  \* the ticket whose turn it is
  send_mutex,             \* holder of send_mutex, or Free
  worker,                 \* the thread serving a client's GET_NUMBER
  res,                    \* that thread's local result
  main,                   \* the reply the main thread is about to send, or Idle
  \* connections
  open,                   \* the server has a transport for the client
  request,                \* the call waiting in the client's socket
  reply,                  \* the answer waiting in the client's socket
  \* clients
  pc, flag, ticket,
  \* histories
  sessions,               \* sessions begun
  issued,                 \* the clients in the order they were given tickets
  served                  \* the clients in the order their turn came

Free == [free |-> TRUE]
Idle == [idle |-> TRUE]
None == << >>

ASSUME TicketRpcAssumption == Clients # {} /\ Free \notin Clients /\ MaxTickets \in Nat

srvVars  == <<client_num, client_number_service, send_mutex, worker, res, main>>
sockVars == <<open, request, reply>>
cliVars  == <<pc, flag, ticket>>
histVars == <<sessions, issued, served>>
vars == <<up, srvVars, sockVars, cliVars, histVars>>

Init ==
  /\ up = TRUE
  /\ client_num = 0
  /\ client_number_service = 0
  /\ send_mutex = Free
  /\ worker = [c \in Clients |-> "none"]
  /\ res = [c \in Clients |-> 0]
  /\ main = Idle
  /\ open = [c \in Clients |-> FALSE]
  /\ request = [c \in Clients |-> "none"]
  /\ reply = [c \in Clients |-> None]
  /\ pc = [c \in Clients |-> "test"]
  /\ flag = [c \in Clients |-> TRUE]
  /\ ticket = [c \in Clients |-> 0]
  /\ sessions = 0
  /\ issued = << >>
  /\ served = << >>

-----------------------------------------------------------------------------
(* A client.                                                                *)

Goto(c, l) == pc' = [pc EXCEPT ![c] = l]

(* while(flag) bakery_prog_1(host);  exit(0)                                *)
Test(c) ==
  /\ pc[c] = "test"
  /\ \/ flag[c] /\ sessions < MaxTickets /\ Goto(c, "create") /\ sessions' = sessions + 1
     \/ ~ flag[c] /\ Goto(c, "exit0") /\ UNCHANGED sessions
  /\ UNCHANGED <<up, srvVars, sockVars, flag, ticket, issued, served>>

(* clnt_create connects, and get_number_1 sends its call; without a server  *)
(* the client calls exit(1).                                                *)
Create(c) ==
  /\ pc[c] = "create"
  /\ IF up THEN /\ open' = [open EXCEPT ![c] = TRUE]
                /\ request' = [request EXCEPT ![c] = "GET_NUMBER"]
                /\ Goto(c, "get")
           ELSE Goto(c, "exit1") /\ UNCHANGED <<open, request>>
  /\ UNCHANGED <<up, srvVars, reply, flag, ticket, histVars>>

(* The answer to GET_NUMBER: the first BAKERY_PROC is sent.                 *)
Got(c) ==
  /\ pc[c] = "get" /\ reply[c] # None
  /\ ticket' = [ticket EXCEPT ![c] = reply[c][1]]
  /\ reply' = [reply EXCEPT ![c] = None]
  /\ request' = [request EXCEPT ![c] = "BAKERY_PROC"]
  /\ Goto(c, "bakery")
  /\ UNCHANGED <<up, srvVars, open, flag, histVars>>

(* The answer to BAKERY_PROC: poll again until is_recieved_time, then       *)
(* clnt_destroy closes the connection.                                      *)
Polled(c) ==
  /\ pc[c] = "bakery" /\ reply[c] # None
  /\ reply' = [reply EXCEPT ![c] = None]
  /\ IF reply[c] = <<1>>
     THEN /\ Goto(c, "test")
          /\ open' = [open EXCEPT ![c] = FALSE]
          /\ ticket' = [ticket EXCEPT ![c] = 0]
          /\ UNCHANGED request
     ELSE /\ request' = [request EXCEPT ![c] = "BAKERY_PROC"]
          /\ UNCHANGED <<pc, open, ticket>>
  /\ UNCHANGED <<up, srvVars, flag, histVars>>

(* The server is dead and the call fails.  After GET_NUMBER the client only *)
(* prints the error and goes on to BAKERY_PROC, which fails too: exit(1).   *)
Fails(c) ==
  /\ ~ up /\ pc[c] \in {"get", "bakery"} /\ reply[c] = None
  /\ Goto(c, "exit1")
  /\ UNCHANGED <<up, srvVars, sockVars, flag, ticket, histVars>>

(* sig_handler: the flag is only looked at between two sessions.            *)
Sigint(c) ==
  /\ flag[c] /\ pc[c] \notin {"exit0", "exit1", "killed"}
  /\ flag' = [flag EXCEPT ![c] = FALSE]
  /\ UNCHANGED <<up, srvVars, sockVars, pc, ticket, histVars>>

(* A client killed at any point; its ticket dies with it.                   *)
Killed(c) ==
  /\ pc[c] \notin {"exit0", "exit1", "killed"}
  /\ Goto(c, "killed")
  /\ reply' = [reply EXCEPT ![c] = None]
  /\ UNCHANGED <<up, srvVars, open, request, flag, ticket, histVars>>

-----------------------------------------------------------------------------
(* The server.                                                              *)

(* bakery_prog_1 for GET_NUMBER: a detached thread, and back to svc_run.    *)
DispatchGet(c) ==
  /\ up /\ main = Idle /\ request[c] = "GET_NUMBER"
  /\ request' = [request EXCEPT ![c] = "none"]
  /\ worker' = [worker EXCEPT ![c] = "lock"]
  /\ UNCHANGED <<up, client_num, client_number_service, send_mutex, res, main,
                 open, reply, cliVars, histVars>>

(* bakery_proc_1_svc(n): only the client whose turn it is gets the time,    *)
(* and its turn is over.                                                    *)
bakery_proc(c, n) ==
  /\ main' = [to |-> c, recieved |-> IF n = client_number_service THEN 1 ELSE 0]
  /\ IF n = client_number_service
     THEN /\ client_number_service' = client_number_service + 1
          /\ served' = Append(served, c)
     ELSE UNCHANGED <<client_number_service, served>>

(* bakery_prog_1 for BAKERY_PROC, up to the lock of send_mutex.             *)
DispatchBakery(c) ==
  /\ up /\ main = Idle /\ request[c] = "BAKERY_PROC"
  /\ request' = [request EXCEPT ![c] = "none"]
  /\ bakery_proc(c, ticket[c])
  /\ UNCHANGED <<up, client_num, send_mutex, worker, res, open, reply, cliVars,
                 sessions, issued>>

(* A reply for a client that is gone is dropped by the kernel.              *)
SendTo(c, v) == reply' = IF pc[c] = "killed" THEN reply ELSE [reply EXCEPT ![c] = <<v>>]

(* The main thread sends its reply under send_mutex.                        *)
MainReply ==
  /\ up /\ main # Idle /\ send_mutex = Free
  /\ SendTo(main.to, main.recieved)
  /\ main' = Idle
  /\ UNCHANGED <<up, client_num, client_number_service, send_mutex, worker, res,
                 open, request, cliVars, histVars>>

(* svc_run finds a closed connection and destroys its transport.            *)
Hangup(c) ==
  /\ up /\ main = Idle /\ pc[c] = "killed" /\ open[c] /\ request[c] = "none"
  /\ open' = [open EXCEPT ![c] = FALSE]
  /\ UNCHANGED <<up, srvVars, request, reply, cliVars, histVars>>

(* get_number_worker: lock send_mutex; get_number_1_svc reads the ticket... *)
FaultyWorkerRead(c) ==
  /\ worker[c] = "lock"
  /\ send_mutex' = c
  /\ res' = [res EXCEPT ![c] = client_num]
  /\ worker' = [worker EXCEPT ![c] = "inc"]
  /\ UNCHANGED <<up, client_num, client_number_service, main, sockVars, cliVars, histVars>>
WorkerRead(c) ==
  /\ worker[c] = "lock" /\ send_mutex = Free
  /\ send_mutex' = c
  /\ res' = [res EXCEPT ![c] = client_num]
  /\ worker' = [worker EXCEPT ![c] = "inc"]
  /\ UNCHANGED <<up, client_num, client_number_service, main, sockVars, cliVars, histVars>>

(* ... and increments the counter ...                                       *)
WorkerInc(c) ==
  /\ worker[c] = "inc"
  /\ client_num' = client_num + 1
  /\ issued' = Append(issued, c)
  /\ worker' = [worker EXCEPT ![c] = "send"]
  /\ UNCHANGED <<up, client_number_service, send_mutex, res, main, sockVars, cliVars,
                 sessions, served>>

(* ... svc_sendreply; unlock.  When the transport has been destroyed the    *)
(* thread uses freed memory: the server may crash (Crash) or go on.         *)
FaultyWorkerSend(c) ==
  /\ worker[c] = "send"
  /\ SendTo(c, res[c])
  /\ worker' = [worker EXCEPT ![c] = "none"]
  /\ res' = [res EXCEPT ![c] = 0]
  /\ UNCHANGED <<up, client_num, client_number_service, send_mutex, main, open,
                 request, cliVars, histVars>>
WorkerSend(c) ==
  /\ worker[c] = "send"
  /\ SendTo(c, res[c])
  /\ worker' = [worker EXCEPT ![c] = "none"]
  /\ res' = [res EXCEPT ![c] = 0]
  /\ send_mutex' = Free
  /\ UNCHANGED <<up, client_num, client_number_service, main, open, request,
                 cliVars, histVars>>

(* The server dies: main and all its threads are gone, sockets are closed.  *)
Die ==
  /\ up' = FALSE
  /\ main' = Idle
  /\ send_mutex' = Free
  /\ worker' = [c \in Clients |-> "none"]
  /\ res' = [c \in Clients |-> 0]
  /\ open' = [c \in Clients |-> FALSE]
  /\ request' = [c \in Clients |-> "none"]
  /\ UNCHANGED <<client_num, client_number_service, reply, cliVars, histVars>>

Crash(c)   == up /\ worker[c] = "send" /\ ~ open[c] /\ Die
KillServer == up /\ Die

-----------------------------------------------------------------------------
Client(c) == Test(c) \/ Create(c) \/ Got(c) \/ Polled(c) \/ Fails(c)
Worker(c) == WorkerRead(c) \/ WorkerInc(c) \/ WorkerSend(c)
Dispatch(c) == DispatchGet(c) \/ DispatchBakery(c) \/ Hangup(c)

(* All clients have ended, or wait for more sessions than the bound allows. *)
Terminating ==
  /\ \A c \in Clients : pc[c] \in {"exit0", "exit1", "killed", "test"}
  /\ UNCHANGED vars

Next ==
  \/ \E c \in Clients : \/ Client(c) \/ Worker(c) \/ Dispatch(c)
                        \/ Sigint(c) \/ Killed(c) \/ Crash(c)
  \/ MainReply \/ KillServer
  \/ Terminating

Spec == Init /\ [][Next]_vars

(* Processes and threads that can run do run, and each round of svc_run     *)
(* looks at every ready socket, so a request is not passed over for ever.   *)
FairSpec == /\ Spec
            /\ WF_vars(MainReply)
            /\ \A c \in Clients : /\ WF_vars(Client(c))
                                  /\ SF_vars(Dispatch(c))
                                  /\ SF_vars(Worker(c))

-----------------------------------------------------------------------------
(* Properties.                                                              *)

TypeOK ==
  /\ up \in BOOLEAN
  /\ client_num \in 0 .. MaxTickets
  /\ client_number_service \in 0 .. MaxTickets
  /\ send_mutex \in Clients \cup {Free}
  /\ worker \in [Clients -> {"none", "lock", "inc", "send"}]
  /\ res \in [Clients -> 0 .. MaxTickets]
  /\ main \in {Idle} \cup [to : Clients, recieved : 0 .. 1]
  /\ open \in [Clients -> BOOLEAN]
  /\ request \in [Clients -> {"none", "GET_NUMBER", "BAKERY_PROC"}]
  /\ reply \in [Clients -> {None} \cup {<<v>> : v \in 0 .. MaxTickets}]
  /\ pc \in [Clients -> {"test", "create", "get", "bakery", "exit0", "exit1", "killed"}]
  /\ flag \in [Clients -> BOOLEAN]
  /\ ticket \in [Clients -> 0 .. MaxTickets]
  /\ sessions \in 0 .. MaxTickets

(* First come, first served: the clients are served exactly in the order    *)
(* in which the threads drew their tickets, nobody twice for one ticket and *)
(* nobody passed over, however the threads and the main thread interleave.  *)
FirstComeFirstServed == IsPrefix(served, issued)

(* Somebody will still present ticket t: its client has it, or its answer   *)
(* is on the way.                                                           *)
Presented(t) ==
  \E c \in Clients :
    \/ pc[c] = "bakery" /\ ticket[c] = t
    \/ pc[c] = "get" /\ reply[c] = <<t>>
    \/ pc[c] = "get" /\ worker[c] \in {"inc", "send"} /\ res[c] = t

(* No ticket that was drawn and not served is lost while the server lives,  *)
(* unless its client was killed: answers are never given to the wrong       *)
(* connection or overwritten.                                               *)
NoTicketLost ==
  up /\ (\A c \in Clients : pc[c] # "killed") =>
    \A t \in client_number_service .. client_num - 1 : Presented(t)

(* A waiting client gets its time, unless the server dies or the client     *)
(* whose turn it is was killed: then nobody is ever served again.           *)
ServedUnlessAbandoned ==
  \A c \in Clients :
    pc[c] = "bakery" ~> \/ pc[c] # "bakery"
                        \/ ~ up
                        \/ \E d \in Clients : pc[d] = "killed" /\ ~ Presented(client_number_service)
=============================================================================
