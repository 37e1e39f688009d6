------------------------------ MODULE BakeryRpc ------------------------------
(***************************************************************************)
(* sem_05/rpc/new_bakery: a client registers (REGISTER_PROC), polls for    *)
(* its ticket (GET_NUMBER_PROC) and asks for the time (RESULT_PROC).  The  *)
(* server draws tickets in detached threads under `mutex' and executes     *)
(* everything else in the one thread of svc_run, result_proc_1_svc with    *)
(* its busy wait included.                                                 *)
(*                                                                         *)
(* Calls go over UDP.  The RPC library (external) sends a call again every *)
(* few seconds until its timeout; datagrams may be lost, delayed and so    *)
(* executed more than once; a reply is taken when it carries the xid of    *)
(* the call under way.  Instead of xids a datagram is marked `cur' while   *)
(* its call is under way: only that distinction matters.                   *)
(***************************************************************************)
EXTENDS Integers, FiniteSets

CONSTANTS Pids,          \* client processes, named by their pid
          MAX_CLIENTS,   \* slots (5000 in the code)
          MaxTickets,    \* bound: registrations that are ever accepted
          MaxStale       \* bound: requests that survive the call they belong to

ASSUME BakeryRpcAssumption ==
  /\ Pids \subseteq Nat /\ MAX_CLIENTS \in Nat \ {0}
  /\ MaxTickets \in Nat /\ MaxStale \in Nat

Slots == 0 .. MAX_CLIENTS - 1
Slot(c) == c % MAX_CLIENTS
Tickets == 0 .. MaxTickets

VARIABLES
  numbers, results, max_number,
  pending,    \* registration threads that have not locked mutex, per slot
  holder,     \* the registration thread inside mutex
  main,       \* what the thread of svc_run is doing
  net,        \* requests in the network
  replies,    \* replies to the calls under way
  pc,         \* the clients
  accepted    \* registrations accepted, for the bound

srvVars == <<numbers, results, max_number, pending, holder, main>>
netVars == <<net, replies>>
vars == <<srvVars, netVars, pc, accepted>>

Idle == [at |-> "idle"]
Free == [at |-> "free"]

Init ==
  /\ numbers = [i \in Slots |-> 0]
  /\ results = [i \in Slots |-> IF i = 0 THEN -1 ELSE 0]   \* = {-1}: only the first
  /\ max_number = 0
  /\ pending = [i \in Slots |-> 0]
  /\ holder = Free
  /\ main = Idle
  /\ net = {}
  /\ replies = {}
  /\ pc = [c \in Pids |-> "test"]
  /\ accepted = 0

-----------------------------------------------------------------------------
(* find_max_number, a thread for each registration.                         *)

(* lock; max_number++; numbers[idx] = max_number.  Only the holder of mutex  *)
(* looks at max_number, so the increment is not seen before the store.      *)
ThreadLock(i) ==
  /\ pending[i] > 0 /\ holder = Free
  /\ pending' = [pending EXCEPT ![i] = @ - 1]
  /\ max_number' = max_number + 1
  /\ numbers' = [numbers EXCEPT ![i] = max_number + 1]
  /\ holder' = [at |-> "results", slot |-> i]
  /\ UNCHANGED <<results, main, netVars, pc, accepted>>

(* results[idx] = max_number; unlock.                                       *)
ThreadResults ==
  /\ holder.at = "results"
  /\ results' = [results EXCEPT ![holder.slot] = max_number]
  /\ holder' = Free
  /\ UNCHANGED <<numbers, max_number, pending, main, netVars, pc, accepted>>

-----------------------------------------------------------------------------
(* The thread of svc_run.                                                   *)

(* svc_sendreply.  The datagram may get lost; the RPC library throws away   *)
(* an answer to a call that is over, and a second answer to the same call.  *)
Answer(r, v) ==
  \/ UNCHANGED replies
  \/ /\ r.cur /\ \A p \in replies : p.to # r.from
     /\ replies' = replies \cup {[to |-> r.from, val |-> v]}

(* register_proc_1_svc: start a thread and answer.                          *)
Register(r) ==
  /\ main = Idle /\ r.proc = "REGISTER"
  /\ accepted < MaxTickets
  /\ accepted' = accepted + 1
  /\ pending' = [pending EXCEPT ![Slot(r.from)] = @ + 1]
  /\ net' = net \ {r}
  /\ Answer(r, 0)
  /\ UNCHANGED <<numbers, results, max_number, holder, main, pc>>

(* malloc or pthread_create fails: no thread and, as retval is FALSE, no    *)
(* answer.  Beyond the bound every registration ends so.                    *)
RegisterFails(r) ==
  /\ main = Idle /\ r.proc = "REGISTER"
  /\ net' = net \ {r}
  /\ UNCHANGED <<srvVars, replies, pc, accepted>>

(* get_number_proc_1_svc: the test and the load of results[id] ...          *)
GetRead(r) ==
  /\ main = Idle /\ r.proc = "GET_NUMBER"
  /\ net' = net \ {r}
  /\ LET v == results[Slot(r.from)]
     IN IF v = -1 THEN Answer(r, -1) /\ main' = main
                  ELSE main' = [at |-> "get", req |-> r, val |-> v] /\ UNCHANGED replies
  /\ UNCHANGED <<numbers, results, max_number, pending, holder, pc, accepted>>

(* ... and, without the mutex, its reset.                                   *)
GetReset ==
  /\ main.at = "get"
  /\ results' = [results EXCEPT ![Slot(main.req.from)] = -1]
  /\ Answer(main.req, main.val)
  /\ main' = Idle
  /\ UNCHANGED <<numbers, max_number, pending, holder, net, pc, accepted>>

(* result_proc_1_svc: `ticket' is read, then the slots are scanned.         *)
ResultStart(r) ==
  /\ main = Idle /\ r.proc = "RESULT"
  /\ net' = net \ {r}
  /\ main' = [at |-> "scan", req |-> r, i |-> 0, ticket |-> numbers[Slot(r.from)]]
  /\ UNCHANGED <<numbers, results, max_number, pending, holder, replies, pc, accepted>>

(* The condition of the busy wait.                                          *)
FaultyAhead(i, j) ==
  numbers[i] # 0 /\ (numbers[i] < numbers[j] \/ (numbers[i] = numbers[j] /\ i <= j))
NoAhead(i, j) == FALSE
Ahead(i, j) ==
  numbers[i] # 0 /\ (numbers[i] < numbers[j] \/ (numbers[i] = numbers[j] /\ i < j))

Scan ==
  /\ main.at = "scan" /\ main.i < MAX_CLIENTS
  /\ ~ Ahead(main.i, Slot(main.req.from))
  /\ main' = [main EXCEPT !.i = @ + 1]
  /\ UNCHANGED <<numbers, results, max_number, pending, holder, netVars, pc, accepted>>

ResultServe ==
  /\ main.at = "scan" /\ main.i = MAX_CLIENTS
  /\ numbers' = [numbers EXCEPT ![Slot(main.req.from)] = 0]
  /\ Answer(main.req, 0)
  /\ main' = Idle
  /\ UNCHANGED <<results, max_number, pending, holder, net, pc, accepted>>

-----------------------------------------------------------------------------
(* A client.  Every clnt_call is a send and one of: a reply, a timeout.     *)

Proc(l) == CASE l = "register" -> "REGISTER" [] l = "get" -> "GET_NUMBER" [] l = "result" -> "RESULT"

(* End the call under way and go to l, where the next call, if there is     *)
(* one, is sent.  Datagrams of earlier calls become stale; the network      *)
(* keeps at most MaxStale of them for later, the others are lost.           *)
Enter(c, l) ==
  LET old == {r \in net : r.from = c}
      fresh == IF l \in {"register", "get", "result"}
               THEN {[from |-> c, proc |-> Proc(l), cur |-> TRUE]} ELSE {}
  IN /\ \E stale \in SUBSET {[r EXCEPT !.cur = FALSE] : r \in old} :
          /\ Cardinality(stale \cup {r \in net \ old : ~ r.cur}) <= MaxStale
          /\ net' = (net \ old) \cup stale \cup fresh
     /\ replies' = {p \in replies : p.to # c}
     /\ main' = IF main # Idle /\ main.req.from = c THEN [main EXCEPT !.req.cur = FALSE] ELSE main
     /\ pc' = [pc EXCEPT ![c] = l]
     /\ UNCHANGED <<numbers, results, max_number, pending, holder, accepted>>

(* while (flag): the flag is read only here, so a client that finds it      *)
(* cleared was interrupted at any time since the last test.                 *)
Test(c) ==
  /\ pc[c] = "test"
  /\ \/ accepted < MaxTickets /\ Enter(c, "register")
     \/ Enter(c, "exit0")       \* sig_handler has run

(* Where a call leads: after a failed GET_NUMBER, or the answer -1, the     *)
(* client asks again whatever flag says; the other failures are printed.    *)
After(l, v) == CASE l = "register" -> "get"
                 [] l = "get" -> IF v = -1 THEN "get" ELSE "result"
                 [] l = "result" -> "test"

Return(c) ==
  \E p \in replies : p.to = c /\ Enter(c, After(pc[c], p.val))

Timeout(c) ==
  /\ pc[c] \in {"register", "get", "result"}
  /\ Enter(c, After(pc[c], -1))

(* The RPC library sends the call again.                                    *)
Resend(c) ==
  /\ pc[c] \in {"register", "get", "result"}
  /\ net' = net \cup {[from |-> c, proc |-> Proc(pc[c]), cur |-> TRUE]}
  /\ net' # net
  /\ UNCHANGED <<srvVars, replies, pc, accepted>>

-----------------------------------------------------------------------------
Threads == ThreadResults \/ \E i \in Slots : ThreadLock(i)
Busy == GetReset \/ Scan \/ ResultServe
Dispatch(r) == Register(r) \/ RegisterFails(r) \/ GetRead(r) \/ ResultStart(r)
Drain == \E r \in net : Dispatch(r)

(* The clients have ended.                                                  *)
Terminating ==
  /\ \A c \in Pids : pc[c] = "exit0"
  /\ UNCHANGED vars

Next ==
  \/ Threads \/ Busy \/ Drain
  \/ \E c \in Pids : Test(c) \/ Return(c) \/ Timeout(c) \/ Resend(c)
  \/ Terminating

Spec == Init /\ [][Next]_vars

(* Threads run; a datagram that is sent again and again gets through; a     *)
(* call ends with its timeout at the latest.                                *)
Arrives(c) == \E r \in net : r.from = c /\ r.cur /\ Dispatch(r)
FairSpec == /\ Spec
            /\ WF_vars(Threads) /\ WF_vars(Busy)
            /\ \A c \in Pids : /\ WF_vars(Test(c))
                               /\ WF_vars(Resend(c)) /\ WF_vars(Timeout(c))
                               /\ SF_vars(Arrives(c)) /\ SF_vars(Return(c))

-----------------------------------------------------------------------------
(* Properties.                                                              *)

Procs == {"REGISTER", "GET_NUMBER", "RESULT"}
Requests == [from : Pids, proc : Procs, cur : BOOLEAN]

TypeOK ==
  /\ numbers \in [Slots -> Tickets]
  /\ results \in [Slots -> Tickets \cup {-1}]
  /\ max_number \in Tickets
  /\ pending \in [Slots -> Tickets]
  /\ holder \in {Free} \cup [at : {"results"}, slot : Slots]
  /\ main \in {Idle} \cup [at : {"get"}, req : Requests, val : Tickets]
              \cup [at : {"scan"}, req : Requests, i : 0 .. MAX_CLIENTS, ticket : Tickets]
  /\ net \subseteq Requests
  /\ replies \subseteq [to : Pids, val : Tickets \cup {-1}]
  /\ pc \in [Pids -> {"test", "register", "get", "result", "exit0"}]
  /\ accepted \in Tickets

(* First come, first served, of those that have a ticket when they ask:     *)
(* nobody who waits in numbers[] then drew an earlier one, although the     *)
(* scan reads numbers[] without the mutex and slots register behind it.     *)
(* Two services stand outside that order: a request without a ticket is     *)
(* served at once, and what its slot draws during the scan is cleared with  *)
(* it, out of turn.                                                         *)
Serves == main.at = "scan" /\ main' = Idle
FirstComeFirstServed ==
  [][Serves /\ main.ticket # 0 =>
       \A i \in Slots \ {Slot(main.req.from)} : numbers[i] # 0 => numbers[i] > main.ticket]_vars

(* The server thread is caught in the busy wait: the slot it waits for      *)
(* drew an earlier ticket, and only the server thread itself could clear it. *)
Hung == /\ main.at = "scan" /\ main.i < MAX_CLIENTS
        /\ LET j == Slot(main.req.from)
           IN main.i # j /\ 0 < numbers[main.i] /\ numbers[main.i] < numbers[j]

(* No ticket is there for a client that polls, and no thread is about to    *)
(* draw one: its registration, or the answer that carried its ticket, was   *)
(* lost.  SIGINT cannot stop it.                                            *)
TicketGone(c) ==
  /\ pc[c] = "get" /\ results[Slot(c)] = -1 /\ pending[Slot(c)] = 0
  /\ ~ (holder.at = "results" /\ holder.slot = Slot(c))
  /\ ~ \E p \in replies : p.to = c /\ p.val # -1

(* When the registrations have come to an end, every client ends or is      *)
(* stuck for good: the server thread spins on an earlier ticket, or the     *)
(* client polls for a ticket that is not there.                             *)
EndsOrStuck == \A c \in Pids : <>[](pc[c] = "exit0" \/ Hung \/ TicketGone(c))
=============================================================================
