------------------------------ MODULE Calculator ------------------------------
(***************************************************************************)
(* sem_05/rpc/calculator_multithread: clients that make one call per       *)
(* connection, and a server that answers each call in a thread of its own. *)
(*                                                                         *)
(* A connection is a number; the server's SVCXPRT of it lives until        *)
(* svc_run (external) sees that the client has hung up.  The thread goes   *)
(* on using it: what it does with a destroyed one is undefined, and it may *)
(* end the server, do nothing, or reach a later connection whose SVCXPRT   *)
(* lies at the same address.  calculator_proc_1_svc returns an             *)
(* uninitialised retval, on which it depends whether a reply is sent.      *)
(* The arguments of a call are named by its connection, and a result by    *)
(* the arguments it was computed from.                                     *)
(***************************************************************************)
EXTENDS Naturals

CONSTANTS Users,     \* client processes
          NConns     \* bound: connections

VARIABLES
  up,        \* the server runs
  xprt,      \* SVCXPRT of each connection: "none", "open", "eof" or "gone"
  call,      \* the call on its way to the server, or None
  data,      \* thread_data_t of each connection's thread
  worker,    \* where that thread is
  res,       \* its result
  reply,     \* the answer on its way to the client, or None
  opened,    \* connections so far
  cl,        \* where each client is
  conn,      \* its connection, and the arguments of its call
  result,    \* result_1 of its last call
  flag,      \* while (flag)
  late       \* history: a thread used a connection that was gone

vars == <<up, xprt, call, data, worker, res, reply, opened, cl, conn, result, flag, late>>
clientVars == <<cl, conn, result, flag, opened>>

None == 0
Conns == 1 .. NConns
Over == {"exit0", "exit1"}

Init ==
  /\ up = TRUE /\ late = FALSE /\ opened = 0
  /\ xprt = [n \in Conns |-> "none"]
  /\ call = [n \in Conns |-> None]
  /\ data = [n \in Conns |-> None]
  /\ worker = [n \in Conns |-> "none"]
  /\ res = [n \in Conns |-> None]
  /\ reply = [n \in Conns |-> None]
  /\ cl = [c \in Users |-> "test"]
  /\ conn = [c \in Users |-> 0]
  /\ result = [c \in Users |-> None]
  /\ flag = [c \in Users |-> TRUE]

-----------------------------------------------------------------------------
(* The client.                                                              *)

Goto(c, here, there) == cl[c] = here /\ cl' = [cl EXCEPT ![c] = there]
Close(c) == xprt' = IF conn[c] = 0 THEN xprt ELSE [xprt EXCEPT ![conn[c]] = "eof"]

Test(c) ==
  /\ Goto(c, "test", IF flag[c] THEN "create" ELSE "exit0")
  /\ UNCHANGED <<up, xprt, call, data, worker, res, reply, opened, conn, result, flag, late>>

(* clnt_create and the call.                                                *)
Call(c) ==
  /\ up /\ opened < NConns /\ Goto(c, "create", "call")
  /\ opened' = opened + 1
  /\ conn' = [conn EXCEPT ![c] = opened + 1]
  /\ xprt' = [xprt EXCEPT ![opened + 1] = "open"]
  /\ call' = [call EXCEPT ![opened + 1] = opened + 1]
  /\ UNCHANGED <<up, data, worker, res, reply, result, flag, late>>

Returns(c) ==
  /\ Goto(c, "call", "print")
  /\ reply[conn[c]] # None
  /\ result' = [result EXCEPT ![c] = reply[conn[c]]]
  /\ reply' = [reply EXCEPT ![conn[c]] = None]
  /\ UNCHANGED <<up, xprt, call, data, worker, res, opened, conn, flag, late>>

(* clnt_create fails, the 25 seconds are over, or the server is gone:       *)
(* exit(1), which closes the connection.                                    *)
Fails(c) ==
  /\ \/ Goto(c, "create", "exit1") /\ xprt' = xprt
     \/ Goto(c, "call", "exit1") /\ reply[conn[c]] = None /\ Close(c)
  /\ UNCHANGED <<up, call, data, worker, res, reply, opened, conn, result, flag, late>>

(* The result is printed; after usleep(100) clnt_destroy, and the locals of *)
(* calculator_prog_1 are gone.                                              *)
Destroy(c) ==
  /\ Goto(c, "print", "test")
  /\ Close(c)
  /\ conn' = [conn EXCEPT ![c] = 0]
  /\ result' = [result EXCEPT ![c] = None]
  /\ UNCHANGED <<up, call, data, worker, res, reply, opened, flag, late>>

Sigint(c) ==
  /\ cl[c] \notin Over /\ flag[c]
  /\ flag' = [flag EXCEPT ![c] = FALSE]
  /\ UNCHANGED <<up, xprt, call, data, worker, res, reply, opened, cl, conn, result, late>>

Client(c) == Test(c) \/ Call(c) \/ Returns(c) \/ Fails(c) \/ Destroy(c)

-----------------------------------------------------------------------------
(* svc_run and calculator_prog_1.                                           *)

(* The thread_data_t of a call: malloc gives each its own.                  *)
OneCell(n) == 1
Cell(n) == n

(* malloc, svc_getargs, pthread_create; exit(1) if a call fails.            *)
Dispatch(n) ==
  /\ up /\ call[n] # None
  /\ call' = [call EXCEPT ![n] = None]
  /\ \/ /\ data' = [data EXCEPT ![Cell(n)] = call[n]]
        /\ worker' = [worker EXCEPT ![n] = "compute"]
        /\ up' = up
     \/ up' = FALSE /\ UNCHANGED <<data, worker>>
  /\ UNCHANGED <<xprt, res, reply, clientVars, late>>

Hangup(n) ==
  /\ up /\ xprt[n] = "eof" /\ call[n] = None
  /\ xprt' = [xprt EXCEPT ![n] = "gone"]
  /\ UNCHANGED <<up, call, data, worker, res, reply, clientVars, late>>

-----------------------------------------------------------------------------
(* calculator_prog_worker.                                                  *)

Compute(n) ==
  /\ up /\ worker[n] = "compute"
  /\ res' = [res EXCEPT ![n] = data[Cell(n)]]
  /\ \E retval \in {"send", "freeargs"} : worker' = [worker EXCEPT ![n] = retval]
  /\ UNCHANGED <<up, xprt, call, data, reply, clientVars, late>>

(* The SVCXPRT thread n reaches through transp.                             *)
Reached(n) == IF xprt[n] # "gone" THEN {n}
              ELSE {m \in n + 1 .. opened : xprt[m] # "gone"}

(* svc_sendreply, or nothing of it, on a connection that is closed.         *)
Send(n) ==
  /\ up /\ worker[n] = "send"
  /\ worker' = [worker EXCEPT ![n] = "freeargs"]
  /\ late' = (late \/ xprt[n] = "gone")
  /\ \/ \E m \in Reached(n) : reply' = [reply EXCEPT ![m] = res[n]] /\ up' = up
     \/ xprt[n] = "gone" /\ up' \in BOOLEAN /\ reply' = reply
  /\ UNCHANGED <<xprt, call, data, res, clientVars>>

(* svc_freeargs, which uses transp, and free.                               *)
FreeArgs(n) ==
  /\ up /\ worker[n] = "freeargs"
  /\ worker' = [worker EXCEPT ![n] = "done"]
  /\ late' = (late \/ xprt[n] = "gone")
  /\ up' \in IF xprt[n] = "gone" THEN BOOLEAN ELSE {up}
  /\ data' = [data EXCEPT ![Cell(n)] = None]
  /\ res' = [res EXCEPT ![n] = None]
  /\ UNCHANGED <<xprt, call, reply, clientVars>>

Worker(n) == Compute(n) \/ Send(n) \/ FreeArgs(n)

Next == \/ \E c \in Users : Client(c) \/ Sigint(c)
        \/ \E n \in Conns : Dispatch(n) \/ Hangup(n) \/ Worker(n)

-----------------------------------------------------------------------------
(* Properties.                                                              *)

TypeOK ==
  /\ up \in BOOLEAN /\ late \in BOOLEAN /\ opened \in 0 .. NConns
  /\ xprt \in [Conns -> {"none", "open", "eof", "gone"}]
  /\ {call, data, res, reply} \subseteq [Conns -> 0 .. NConns]
  /\ worker \in [Conns -> {"none", "compute", "send", "freeargs", "done"}]
  /\ cl \in [Users -> {"test", "create", "call", "print"} \cup Over]
  /\ conn \in [Users -> 0 .. NConns]
  /\ result \in [Users -> 0 .. NConns]
  /\ flag \in [Users -> BOOLEAN]

(* A client prints the result of its own arguments, however the threads of  *)
(* other calls interleave with its own.  Once a thread has outlived its     *)
(* connection (the client hangs up 100 microseconds after the reply, and    *)
(* svc_freeargs comes after the reply) nothing is sure.                     *)
OwnResult == \A c \in Users : cl[c] = "print" /\ ~ late => result[c] = conn[c]

(* A client that got SIGINT ends, answered or not, also when the server     *)
(* sends no reply or is gone.                                               *)
ClientsStop == \A c \in Users : ~ flag[c] ~> cl[c] \in Over
=============================================================================
