--------------------------- MODULE RpcServersProofs ---------------------------
(***************************************************************************)
(* The RPC ticket server serves first come, first served, and loses no     *)
(* ticket, for any number of clients and sessions, whoever is killed.  The *)
(* RPC bakery server serves whoever asks with a ticket in the order of the *)
(* tickets, for any number of processes and slots, whatever datagrams are  *)
(* lost, repeated or delayed.                                              *)
(***************************************************************************)
EXTENDS TicketRpc, Integers, SequenceTheorems, TLAPS

CONSTANTS Pids, MAX_CLIENTS, MaxStale
VARIABLES numbers, results, max_number, pending, holder, net, replies, accepted

B == INSTANCE BakeryRpc

-----------------------------------------------------------------------------
(* The inductive invariant.                                                 *)

(* The types the argument needs; both counters count a history.             *)
RTypes ==
  /\ up \in BOOLEAN
  /\ issued \in Seq(Clients) /\ client_num = Len(issued)
  /\ served \in Seq(Clients) /\ client_number_service = Len(served)
  /\ worker \in [Clients -> {"none", "lock", "inc", "send"}]
  /\ request \in [Clients -> {"none", "GET_NUMBER", "BAKERY_PROC"}]
  /\ reply \in [Clients -> {None} \cup {<<v>> : v \in Nat}]
  /\ pc \in [Clients -> {"test", "create", "get", "bakery", "exit0", "exit1", "killed"}]
  /\ res \in [Clients -> Nat] /\ ticket \in [Clients -> Nat]
  /\ main # Idle => main.to \in Clients /\ main.recieved \in {0, 1}

(* A client is waiting for one thing only: its call is in its socket, in a  *)
(* thread, in the main thread, or its answer is on the way.                 *)
ROne(c) ==
  /\ request[c] = "GET_NUMBER" => pc[c] \in {"get", "killed"} /\ worker[c] = "none"
  /\ worker[c] # "none" => pc[c] \in {"get", "killed"} /\ request[c] = "none"
  /\ request[c] = "BAKERY_PROC" => pc[c] \in {"bakery", "killed", "exit1"}
  /\ main # Idle /\ main.to = c =>
       pc[c] \in {"bakery", "killed"} /\ request[c] = "none" /\ worker[c] = "none"
  /\ reply[c] # None => /\ pc[c] \in {"get", "bakery"} /\ request[c] = "none"
                        /\ worker[c] = "none" /\ ~ (main # Idle /\ main.to = c)
  /\ pc[c] = "exit1" => up = FALSE
  /\ up = FALSE => request[c] # "GET_NUMBER" /\ worker[c] = "none" /\ main = Idle

(* The ticket t was drawn for c.                                            *)
Drawn(c, t) == t < client_num /\ issued[t + 1] = c

(* What c holds, or is about to be told, is a ticket drawn for it.          *)
RTicket(c) ==
  /\ pc[c] = "bakery" \/ request[c] = "BAKERY_PROC" => Drawn(c, ticket[c])
  /\ pc[c] = "get" /\ reply[c] # None => Drawn(c, reply[c][1])
  /\ worker[c] \in {"inc", "send"} => send_mutex = c
  /\ worker[c] = "inc" => res[c] = client_num
  /\ worker[c] = "send" => Drawn(c, res[c])

(* Who is told that it was its turn has been served.                        *)
RServed(c) ==
  /\ main # Idle /\ main.to = c /\ main.recieved = 1 => ticket[c] < client_number_service
  /\ pc[c] = "bakery" /\ reply[c] = <<1>> => ticket[c] < client_number_service

RPrefix ==
  /\ Len(served) <= Len(issued)
  /\ \A i \in 1 .. Len(served) : served[i] = issued[i]

RInv ==
  /\ RTypes /\ RPrefix /\ NoTicketLost
  /\ \A c \in Clients : ROne(c) /\ RTicket(c) /\ RServed(c)

LEMMA InitRInv == Init => RInv
<1> SUFFICES ASSUME Init PROVE RInv
  OBVIOUS
<1>1. up \in BOOLEAN
  BY Zenon DEF Init
<1>2. RTypes
  BY <1>1 DEF Init, RTypes
<1>3. RPrefix /\ NoTicketLost
  BY DEF Init, RPrefix, NoTicketLost
<1>4. \A c \in Clients : ROne(c) /\ RTicket(c) /\ RServed(c)
  BY DEF Init, ROne, RTicket, RServed
<1> QED
  BY <1>2, <1>3, <1>4 DEF RInv

-----------------------------------------------------------------------------
(* The clients' steps.                                                      *)

(* c will still present the ticket t.                                       *)
Presents(c, t) ==
  \/ pc[c] = "bakery" /\ ticket[c] = t
  \/ pc[c] = "get" /\ reply[c] = <<t>>
  \/ pc[c] = "get" /\ worker[c] \in {"inc", "send"} /\ res[c] = t

(* A step loses no ticket if whoever was to present a ticket that is still  *)
(* to be served will do so afterwards.                                      *)
Keeps ==
  /\ UNCHANGED <<up, client_num>>
  /\ client_number_service' \in Nat /\ client_number_service <= client_number_service'
  /\ \A d \in Clients : pc[d] = "killed" => pc'[d] = "killed"
  /\ \A d \in Clients, t \in Nat :
       Presents(d, t) /\ pc'[d] # "killed" /\ up = TRUE /\ client_number_service' <= t
         => Presents(d, t)'

LEMMA NothingLost == ASSUME RInv, Keeps PROVE NoTicketLost'
<1> SUFFICES ASSUME up', \A d \in Clients : pc'[d] # "killed",
                    NEW t \in client_number_service' .. client_num' - 1
             PROVE  \E d \in Clients : Presents(d, t)'
  BY DEF NoTicketLost, Presented, Presents
<1>1. /\ up = TRUE /\ t \in client_number_service .. client_num - 1 /\ t \in Nat
      /\ client_number_service' <= t /\ \A d \in Clients : pc[d] # "killed"
  <2>1. up = TRUE /\ client_num' = client_num /\ \A d \in Clients : pc[d] # "killed"
    BY DEF RInv, RTypes, Keeps
  <2>2. client_num \in Nat /\ client_number_service \in Nat /\ client_number_service' \in Nat
        /\ client_number_service <= client_number_service'
    BY DEF RInv, RTypes, Keeps
  <2> QED
    BY <2>1, <2>2
<1>2. PICK d \in Clients : Presents(d, t)
  BY <1>1 DEF RInv, NoTicketLost, Presented, Presents
<1> QED
  BY <1>1, <1>2 DEF Keeps

(* Test, Create, Sigint and Fails leave tickets, answers and the server     *)
(* alone.                                                                   *)
LEMMA TestStep == ASSUME RInv, NEW c \in Clients, Test(c) PROVE RInv'
<1>1. /\ pc[c] = "test" /\ \E l \in {"create", "exit0"} : pc' = [pc EXCEPT ![c] = l]
      /\ UNCHANGED <<up, client_num, client_number_service, send_mutex, worker, res, main, open,
                     request, reply, ticket, issued, served>>
  BY DEF Test, Goto, srvVars, sockVars
<1>2. RTypes' /\ RPrefix'
  BY <1>1 DEF RInv, RTypes, RPrefix
<1>3. \A d \in Clients : ROne(d)' /\ RTicket(d)' /\ RServed(d)'
  BY <1>1 DEF RInv, RTypes, ROne, RTicket, RServed, Drawn
<1>4. NoTicketLost'
  <2>1. ASSUME NEW d \in Clients, NEW t \in Nat, Presents(d, t) PROVE Presents(d, t)'
    BY <1>1, <2>1 DEF RInv, RTypes, Presents
  <2>2. /\ UNCHANGED <<up, client_num>> /\ client_number_service' \in Nat
        /\ client_number_service <= client_number_service'
        /\ \A d \in Clients : pc[d] = "killed" => pc'[d] = "killed"
    BY <1>1 DEF RInv, RTypes
  <2>3. Keeps
    BY <2>1, <2>2 DEF Keeps
  <2> QED
    BY <2>3, NothingLost
<1> QED
  BY <1>2, <1>3, <1>4 DEF RInv

LEMMA CreateStep == ASSUME RInv, NEW c \in Clients, Create(c) PROVE RInv'
<1>1. /\ pc[c] = "create"
      /\ \/ /\ up = TRUE /\ pc' = [pc EXCEPT ![c] = "get"]
            /\ request' = [request EXCEPT ![c] = "GET_NUMBER"]
         \/ up = FALSE /\ pc' = [pc EXCEPT ![c] = "exit1"] /\ UNCHANGED request
      /\ UNCHANGED <<up, client_num, client_number_service, send_mutex, worker, res, main,
                     reply, ticket, issued, served>>
  BY DEF Create, Goto, srvVars, histVars, RInv, RTypes
<1>2. RTypes' /\ RPrefix'
  BY <1>1 DEF RInv, RTypes, RPrefix
<1>3. \A d \in Clients : ROne(d)' /\ RTicket(d)' /\ RServed(d)'
  BY <1>1 DEF RInv, RTypes, ROne, RTicket, RServed, Drawn
<1>4. NoTicketLost'
  <2>1. ASSUME NEW d \in Clients, NEW t \in Nat, Presents(d, t) PROVE Presents(d, t)'
    BY <1>1, <2>1 DEF RInv, RTypes, Presents
  <2>2. /\ UNCHANGED <<up, client_num>> /\ client_number_service' \in Nat
        /\ client_number_service <= client_number_service'
        /\ \A d \in Clients : pc[d] = "killed" => pc'[d] = "killed"
    BY <1>1 DEF RInv, RTypes
  <2>3. Keeps
    BY <2>1, <2>2 DEF Keeps
  <2> QED
    BY <2>3, NothingLost
<1> QED
  BY <1>2, <1>3, <1>4 DEF RInv

LEMMA GotStep == ASSUME RInv, NEW c \in Clients, Got(c) PROVE RInv'
<1>1. /\ pc[c] = "get" /\ reply[c] # None
      /\ ticket' = [ticket EXCEPT ![c] = reply[c][1]]
      /\ reply' = [reply EXCEPT ![c] = None]
      /\ request' = [request EXCEPT ![c] = "BAKERY_PROC"]
      /\ pc' = [pc EXCEPT ![c] = "bakery"]
      /\ UNCHANGED <<up, client_num, client_number_service, send_mutex, worker, res, main,
                     issued, served>>
  BY DEF Got, Goto, srvVars, histVars
<1>2. PICK v \in Nat : reply[c] = <<v>>
  BY <1>1 DEF RInv, RTypes
<1>3. reply[c][1] = v /\ \A t \in Nat : reply[c] = <<t>> => t = v
  BY <1>2
<1>4. RTypes' /\ RPrefix'
  BY <1>1, <1>3 DEF RInv, RTypes, RPrefix
<1>5. \A d \in Clients : ROne(d)' /\ RTicket(d)' /\ RServed(d)'
  <2>1. ASSUME NEW d \in Clients, d # c PROVE ROne(d)' /\ RTicket(d)' /\ RServed(d)'
    BY <1>1, <2>1 DEF RInv, RTypes, ROne, RTicket, RServed, Drawn
  <2>2. ROne(c)' /\ RTicket(c)' /\ RServed(c)'
    BY <1>1, <1>3 DEF RInv, RTypes, ROne, RTicket, RServed, Drawn, None
  <2> QED
    BY <2>1, <2>2
<1>6. NoTicketLost'
  <2>1. ASSUME NEW d \in Clients, NEW t \in Nat, Presents(d, t) PROVE Presents(d, t)'
    BY <1>1, <1>3, <2>1 DEF RInv, RTypes, ROne, Presents
  <2>2. /\ UNCHANGED <<up, client_num>> /\ client_number_service' \in Nat
        /\ client_number_service <= client_number_service'
        /\ \A d \in Clients : pc[d] = "killed" => pc'[d] = "killed"
    BY <1>1 DEF RInv, RTypes
  <2>3. Keeps
    BY <2>1, <2>2 DEF Keeps
  <2> QED
    BY <2>3, NothingLost
<1> QED
  BY <1>4, <1>5, <1>6 DEF RInv

LEMMA PolledStep == ASSUME RInv, NEW c \in Clients, Polled(c) PROVE RInv'
<1>1. /\ pc[c] = "bakery" /\ reply[c] # None
      /\ reply' = [reply EXCEPT ![c] = None]
      /\ \/ /\ reply[c] = <<1>> /\ pc' = [pc EXCEPT ![c] = "test"]
            /\ ticket' = [ticket EXCEPT ![c] = 0] /\ UNCHANGED request
         \/ request' = [request EXCEPT ![c] = "BAKERY_PROC"] /\ UNCHANGED <<pc, ticket>>
      /\ UNCHANGED <<up, client_num, client_number_service, send_mutex, worker, res, main,
                     issued, served>>
  BY DEF Polled, Goto, srvVars, histVars
<1>2. RTypes' /\ RPrefix'
  <2>1. reply' \in [Clients -> {None} \cup {<<v>> : v \in Nat}]
    BY <1>1 DEF RInv, RTypes
  <2>2. RPrefix' /\ request' \in [Clients -> {"none", "GET_NUMBER", "BAKERY_PROC"}]
    BY <1>1 DEF RInv, RTypes, RPrefix
  <2>3. /\ pc' \in [Clients -> {"test", "create", "get", "bakery", "exit0", "exit1", "killed"}]
        /\ ticket' \in [Clients -> Nat]
    <3>1. /\ pc \in [Clients -> {"test", "create", "get", "bakery", "exit0", "exit1", "killed"}]
          /\ ticket \in [Clients -> Nat]
      BY DEF RInv, RTypes
    <3>2. \/ pc' = [pc EXCEPT ![c] = "test"] /\ ticket' = [ticket EXCEPT ![c] = 0]
          \/ UNCHANGED <<pc, ticket>>
      BY <1>1
    <3> QED
      BY <3>1, <3>2
  <2> QED
    BY <1>1, <2>1, <2>2, <2>3 DEF RInv, RTypes
<1>3. \A d \in Clients : ROne(d)' /\ RTicket(d)' /\ RServed(d)'
  <2>1. ASSUME NEW d \in Clients, d # c PROVE ROne(d)' /\ RTicket(d)' /\ RServed(d)'
    BY <1>1, <2>1 DEF RInv, RTypes, ROne, RTicket, RServed, Drawn
  <2>2. ROne(c)' /\ RTicket(c)' /\ RServed(c)'
    BY SMTT(30), <1>1 DEF RInv, RTypes, ROne, RTicket, RServed, Drawn, None
  <2> QED
    BY <2>1, <2>2
<1>4. NoTicketLost'
  <2>1. ASSUME NEW d \in Clients, NEW t \in Nat, Presents(d, t), client_number_service' <= t
        PROVE  Presents(d, t)'
    <3>1. CASE d # c
      BY <1>1, <2>1, <3>1 DEF RInv, RTypes, Presents
    <3>2. CASE d = c
      <4>1. ticket[c] = t
        BY <1>1, <2>1, <3>2 DEF Presents
      <4>2. reply[c] # <<1>>
        <5>1. RServed(c) /\ client_number_service \in Nat /\ client_number_service <= t
          BY <1>1, <2>1 DEF RInv, RTypes
        <5> QED
          BY <1>1, <4>1, <5>1 DEF RServed
      <4> QED
        BY <1>1, <3>2, <4>1, <4>2 DEF Presents
    <3> QED
      BY <3>1, <3>2
  <2>2. /\ UNCHANGED <<up, client_num>> /\ client_number_service' \in Nat
        /\ client_number_service <= client_number_service'
        /\ \A d \in Clients : pc[d] = "killed" => pc'[d] = "killed"
    BY <1>1 DEF RInv, RTypes
  <2>3. Keeps
    BY <2>1, <2>2 DEF Keeps
  <2> QED
    BY <2>3, NothingLost
<1> QED
  BY <1>2, <1>3, <1>4 DEF RInv

LEMMA EndStep == ASSUME RInv, NEW c \in Clients, Fails(c) \/ Killed(c) \/ Sigint(c) PROVE RInv'
<1>1. /\ \/ /\ up = FALSE /\ pc[c] \in {"get", "bakery"} /\ pc' = [pc EXCEPT ![c] = "exit1"]
            /\ reply[c] = None /\ UNCHANGED reply
         \/ /\ pc' = [pc EXCEPT ![c] = "killed"] /\ reply' = [reply EXCEPT ![c] = None]
            /\ pc[c] # "exit1"
         \/ UNCHANGED <<pc, reply>>
      /\ UNCHANGED <<up, client_num, client_number_service, send_mutex, worker, res, main,
                     ticket, request, issued, served>>
  BY DEF Fails, Killed, Sigint, Goto, srvVars, sockVars, histVars, RInv, RTypes
<1>2. RTypes' /\ RPrefix'
  BY <1>1 DEF RInv, RTypes, RPrefix
<1>3. \A d \in Clients : ROne(d)' /\ RTicket(d)' /\ RServed(d)'
  <2>1. ASSUME NEW d \in Clients, d # c PROVE ROne(d)' /\ RTicket(d)' /\ RServed(d)'
    <3>1. pc'[d] = pc[d] /\ reply'[d] = reply[d]
      BY <1>1, <2>1 DEF RInv, RTypes
    <3> QED
      BY <1>1, <3>1 DEF RInv, ROne, RTicket, RServed, Drawn
  <2>2. ROne(c)'
    BY <1>1 DEF RInv, RTypes, ROne
  <2>3. RTicket(c)' /\ RServed(c)'
    BY <1>1 DEF RInv, RTypes, RTicket, RServed, Drawn, None
  <2> QED
    BY <2>1, <2>2, <2>3
<1>4. NoTicketLost'
  <2>1. ASSUME NEW d \in Clients, NEW t \in Nat, up = TRUE, Presents(d, t), pc'[d] # "killed"
        PROVE  Presents(d, t)'
    BY <1>1, <2>1 DEF RInv, RTypes, Presents
  <2>2. /\ UNCHANGED <<up, client_num>> /\ client_number_service' \in Nat
        /\ client_number_service <= client_number_service'
        /\ \A d \in Clients : pc[d] = "killed" => pc'[d] = "killed"
    BY <1>1 DEF RInv, RTypes
  <2>3. Keeps
    BY <2>1, <2>2 DEF Keeps
  <2> QED
    BY <2>3, NothingLost
<1> QED
  BY <1>2, <1>3, <1>4 DEF RInv

-----------------------------------------------------------------------------
(* The server's steps.                                                      *)

LEMMA DispatchGetStep == ASSUME RInv, NEW c \in Clients, DispatchGet(c) PROVE RInv'
<1>1. /\ request[c] = "GET_NUMBER" /\ up = TRUE /\ main = Idle
      /\ request' = [request EXCEPT ![c] = "none"]
      /\ worker' = [worker EXCEPT ![c] = "lock"]
      /\ UNCHANGED <<up, client_num, client_number_service, send_mutex, res, main, reply, pc,
                     ticket, issued, served>>
  BY DEF DispatchGet, cliVars, histVars, RInv, RTypes
<1>2. RTypes' /\ RPrefix'
  BY <1>1 DEF RInv, RTypes, RPrefix
<1>3. \A d \in Clients : ROne(d)' /\ RTicket(d)' /\ RServed(d)'
  BY <1>1 DEF RInv, RTypes, ROne, RTicket, RServed, Drawn
<1>4. NoTicketLost'
  <2>1. ASSUME NEW d \in Clients, NEW t \in Nat, Presents(d, t) PROVE Presents(d, t)'
    BY <1>1, <2>1 DEF RInv, RTypes, ROne, Presents
  <2>2. client_number_service' \in Nat /\ client_number_service <= client_number_service'
    BY <1>1 DEF RInv, RTypes
  <2>3. Keeps
    BY <1>1, <2>1, <2>2 DEF Keeps
  <2> QED
    BY <2>3, NothingLost
<1> QED
  BY <1>2, <1>3, <1>4 DEF RInv

(* bakery_proc_1_svc moves on to the next ticket only for the client this   *)
(* one was drawn for.                                                       *)
LEMMA DispatchBakeryStep == ASSUME RInv, NEW c \in Clients, DispatchBakery(c) PROVE RInv'
<1>1. /\ request[c] = "BAKERY_PROC" /\ up = TRUE /\ main = Idle
      /\ request' = [request EXCEPT ![c] = "none"]
      /\ UNCHANGED <<up, client_num, send_mutex, worker, res, reply, pc, ticket, issued>>
  BY DEF DispatchBakery, cliVars, RInv, RTypes
<1>2. /\ main'.to = c /\ main' # Idle
      /\ main'.recieved = IF ticket[c] = client_number_service THEN 1 ELSE 0
  BY DEF DispatchBakery, bakery_proc, Idle
<1>3. IF ticket[c] = client_number_service
      THEN client_number_service' = client_number_service + 1 /\ served' = Append(served, c)
      ELSE UNCHANGED <<client_number_service, served>>
  BY DEF DispatchBakery, bakery_proc
<1>4. /\ issued \in Seq(Clients) /\ served \in Seq(Clients) /\ client_num = Len(issued)
      /\ client_number_service = Len(served) /\ Len(issued) \in Nat /\ Len(served) \in Nat
      /\ ticket \in [Clients -> Nat]
  BY DEF RInv, RTypes
<1>5. Drawn(c, ticket[c]) /\ pc[c] \in {"bakery", "killed"} /\ worker[c] = "none" /\ reply[c] = None
  BY <1>1 DEF RInv, RTypes, RTicket, ROne
<1>6. ticket[c] = client_number_service => Len(served) < Len(issued) /\ issued[Len(served) + 1] = c
  BY <1>4, <1>5 DEF Drawn
<1>7. served' \in Seq(Clients) /\ client_number_service' = Len(served') /\ RPrefix'
  <2>1. CASE ticket[c] = client_number_service
    <3>1. /\ served' \in Seq(Clients) /\ Len(served') = Len(served) + 1
          /\ served'[Len(served) + 1] = c /\ \A i \in 1 .. Len(served) : served'[i] = served[i]
      <4>1. served' = Append(served, c)
        BY <1>3, <2>1
      <4>2. /\ Append(served, c) \in Seq(Clients) /\ Len(Append(served, c)) = Len(served) + 1
            /\ Append(served, c)[Len(served) + 1] = c
            /\ \A i \in 1 .. Len(served) : Append(served, c)[i] = served[i]
        BY <1>4, AppendProperties
      <4> QED
        BY <4>1, <4>2
    <3>2. ASSUME NEW i \in 1 .. Len(served') PROVE served'[i] = issued'[i]
      <4>1. i \in 1 .. Len(served) \/ i = Len(served) + 1
        BY <3>1, <1>4
      <4> QED
        BY <4>1, <3>1, <1>1, <1>6, <2>1 DEF RInv, RPrefix
    <3>3. Len(served') <= Len(issued')
      BY <3>1, <1>1, <1>4, <1>6, <2>1
    <3> QED
      BY <3>1, <3>2, <3>3, <1>3, <1>4, <2>1 DEF RPrefix
  <2>2. CASE ticket[c] # client_number_service
    BY <1>1, <1>3, <1>4, <2>2 DEF RInv, RPrefix
  <2> QED
    BY <2>1, <2>2
<1>8. RTypes'
  BY <1>1, <1>2, <1>7 DEF RInv, RTypes
<1>9. client_number_service' \in Nat /\ client_number_service <= client_number_service'
      /\ (ticket[c] = client_number_service => ticket[c] < client_number_service')
  BY <1>3, <1>4
<1>10. \A d \in Clients : ROne(d)' /\ RTicket(d)' /\ RServed(d)'
  <2>1. ASSUME NEW d \in Clients, d # c PROVE ROne(d)' /\ RTicket(d)'
    BY <1>1, <1>2, <2>1 DEF RInv, RTypes, ROne, RTicket, Drawn
  <2>2. ROne(c)' /\ RTicket(c)'
    BY <1>1, <1>2, <1>5 DEF RInv, RTypes, ROne, RTicket, Drawn
  <2>3. ASSUME NEW d \in Clients PROVE RServed(d)'
    <3>1. pc[d] = "bakery" /\ reply[d] = <<1>> => ticket[d] < client_number_service'
      BY <1>4, <1>9 DEF RInv, RServed
    <3>2. main'.to = d /\ main'.recieved = 1 => ticket[d] < client_number_service'
      BY <1>2, <1>9
    <3> QED
      BY <3>1, <3>2, <1>1 DEF RServed
  <2> QED
    BY <2>1, <2>2, <2>3
<1>11. NoTicketLost'
  <2>1. ASSUME NEW d \in Clients, NEW t \in Nat, Presents(d, t) PROVE Presents(d, t)'
    BY <1>1, <2>1 DEF Presents
  <2>2. Keeps
    BY <1>1, <1>9, <2>1 DEF Keeps
  <2> QED
    BY <2>2, NothingLost
<1> QED
  BY <1>7, <1>8, <1>10, <1>11 DEF RInv

(* The main thread answers the client whose call it executed.               *)
LEMMA MainReplyStep == ASSUME RInv, MainReply PROVE RInv'
<1>0. main # Idle
  BY DEF MainReply
<1> PICK c \in Clients : c = main.to
  BY <1>0 DEF RInv, RTypes
<1>1. /\ main # Idle /\ main' = Idle
      /\ reply' = IF pc[c] = "killed" THEN reply ELSE [reply EXCEPT ![c] = <<main.recieved>>]
      /\ UNCHANGED <<up, client_num, client_number_service, send_mutex, worker, res, request, pc,
                     ticket, issued, served>>
  BY DEF MainReply, SendTo, cliVars, histVars
<1>2. main.recieved \in {0, 1}
  BY <1>1 DEF RInv, RTypes
<1>3. /\ pc[c] \in {"bakery", "killed"} /\ request[c] = "none" /\ worker[c] = "none"
      /\ reply[c] = None
  BY <1>1, <1>2 DEF RInv, ROne
<1>4. /\ reply' \in [Clients -> {None} \cup {<<v>> : v \in Nat}]
      /\ \A d \in Clients \ {c} : reply'[d] = reply[d]
      /\ pc[c] = "killed" => reply'[c] = None
      /\ pc[c] = "bakery" => reply'[c] = <<main.recieved>>
  <2>1. reply \in [Clients -> {None} \cup {<<v>> : v \in Nat}]
    BY DEF RInv, RTypes
  <2>2. <<main.recieved>> \in {<<v>> : v \in Nat}
    BY <1>2
  <2> QED
    BY <2>1, <2>2, <1>1, <1>2, <1>3
<1>5. RTypes' /\ RPrefix'
  BY <1>1, <1>4 DEF RInv, RTypes, RPrefix
<1>6. \A d \in Clients : ROne(d)' /\ RTicket(d)' /\ RServed(d)'
  <2>1. ASSUME NEW d \in Clients, d # c PROVE ROne(d)' /\ RTicket(d)' /\ RServed(d)'
    BY <1>1, <1>4, <2>1 DEF RInv, ROne, RTicket, RServed, Drawn
  <2>2. ROne(c)' /\ RTicket(c)'
    BY <1>1, <1>2, <1>3, <1>4 DEF RInv, ROne, RTicket, Drawn
  <2>3. RServed(c)'
    <3>1. RServed(c)
      BY <1>2 DEF RInv
    <3>2. <<main.recieved>> = <<1>> => main.recieved = 1
      OBVIOUS
    <3> QED
      BY <1>1, <1>2, <1>4, <3>1, <3>2 DEF RServed
  <2> QED
    BY <2>1, <2>2, <2>3
<1>7. NoTicketLost'
  <2>1. ASSUME NEW d \in Clients, NEW t \in Nat, Presents(d, t) PROVE Presents(d, t)'
    BY <1>1, <1>3, <1>4, <2>1 DEF Presents
  <2>2. client_number_service' \in Nat /\ client_number_service <= client_number_service'
    BY <1>1 DEF RInv, RTypes
  <2>3. Keeps
    BY <1>1, <2>1, <2>2 DEF Keeps
  <2> QED
    BY <2>3, NothingLost
<1> QED
  BY <1>5, <1>6, <1>7 DEF RInv

(* A step that changes none of the variables of the argument.               *)
LEMMA Unmoved ==
  ASSUME RInv, UNCHANGED <<up, client_num, client_number_service, send_mutex, worker, res, main,
                           request, reply, pc, ticket, issued, served>>
  PROVE  RInv'
<1>1. RTypes' /\ RPrefix'
  BY DEF RInv, RTypes, RPrefix
<1>2. \A d \in Clients : ROne(d)' /\ RTicket(d)' /\ RServed(d)'
  BY DEF RInv, ROne, RTicket, RServed, Drawn
<1>3. NoTicketLost'
  BY DEF RInv, NoTicketLost, Presented
<1> QED
  BY <1>1, <1>2, <1>3 DEF RInv

(* The ticket is read under send_mutex ...                                  *)
LEMMA WorkerReadStep == ASSUME RInv, NEW c \in Clients, WorkerRead(c) PROVE RInv'
<1>1. /\ worker[c] = "lock" /\ send_mutex = Free /\ send_mutex' = c
      /\ res' = [res EXCEPT ![c] = client_num]
      /\ worker' = [worker EXCEPT ![c] = "inc"]
      /\ UNCHANGED <<up, client_num, client_number_service, main, request, reply, pc, ticket,
                     issued, served>>
  BY DEF WorkerRead, sockVars, cliVars, histVars
<1>2. client_num \in Nat
  BY DEF RInv, RTypes
<1>3. RTypes' /\ RPrefix'
  BY <1>1, <1>2 DEF RInv, RTypes, RPrefix
<1>4. \A d \in Clients : worker[d] \notin {"inc", "send"}
  BY <1>1, TicketRpcAssumption DEF RInv, RTicket
<1>5. \A d \in Clients : ROne(d)' /\ RTicket(d)' /\ RServed(d)'
  <2>1. ASSUME NEW d \in Clients PROVE ROne(d)' /\ RServed(d)'
    BY <1>1 DEF RInv, RTypes, ROne, RServed
  <2>2. ASSUME NEW d \in Clients PROVE RTicket(d)'
    BY <1>1, <1>4 DEF RInv, RTypes, RTicket, Drawn
  <2> QED
    BY <2>1, <2>2
<1>6. NoTicketLost'
  <2>1. ASSUME NEW d \in Clients, NEW t \in Nat, Presents(d, t) PROVE Presents(d, t)'
    BY <1>1, <1>4, <2>1 DEF RInv, RTypes, Presents
  <2>2. client_number_service' \in Nat /\ client_number_service <= client_number_service'
    BY <1>1 DEF RInv, RTypes
  <2>3. Keeps
    BY <1>1, <2>1, <2>2 DEF Keeps
  <2> QED
    BY <2>3, NothingLost
<1> QED
  BY <1>3, <1>5, <1>6 DEF RInv

(* ... and drawn when the counter moves: only c can be there.               *)
LEMMA WorkerIncStep == ASSUME RInv, NEW c \in Clients, WorkerInc(c) PROVE RInv'
<1>1. /\ worker[c] = "inc" /\ client_num' = client_num + 1 /\ issued' = Append(issued, c)
      /\ worker' = [worker EXCEPT ![c] = "send"]
      /\ UNCHANGED <<up, client_number_service, send_mutex, res, main, request, reply, pc, ticket,
                     served>>
  BY DEF WorkerInc, sockVars, cliVars
<1>2. /\ issued \in Seq(Clients) /\ served \in Seq(Clients) /\ client_num = Len(issued)
      /\ Len(issued) \in Nat /\ Len(served) \in Nat /\ client_number_service = Len(served)
      /\ worker \in [Clients -> {"none", "lock", "inc", "send"}] /\ res \in [Clients -> Nat]
      /\ ticket \in [Clients -> Nat]
  BY DEF RInv, RTypes
<1>3. /\ issued' \in Seq(Clients) /\ Len(issued') = Len(issued) + 1
      /\ issued'[Len(issued) + 1] = c /\ \A i \in 1 .. Len(issued) : issued'[i] = issued[i]
  <2>1. /\ Append(issued, c) \in Seq(Clients) /\ Len(Append(issued, c)) = Len(issued) + 1
        /\ Append(issued, c)[Len(issued) + 1] = c
        /\ \A i \in 1 .. Len(issued) : Append(issued, c)[i] = issued[i]
    BY <1>2, AppendProperties
  <2> QED
    BY <1>1, <2>1
<1>4. RTypes'
  BY <1>1, <1>2, <1>3 DEF RInv, RTypes
<1>5. RPrefix'
  BY <1>1, <1>2, <1>3 DEF RInv, RPrefix
<1>6. ASSUME NEW d \in Clients, NEW t \in Nat, Drawn(d, t) PROVE Drawn(d, t)'
  BY <1>1, <1>2, <1>3, <1>6 DEF Drawn
<1>7. \A d \in Clients \ {c} : worker[d] \notin {"inc", "send"}
  BY <1>1 DEF RInv, RTicket
<1>8. Drawn(c, res[c])' /\ res[c] = client_num /\ send_mutex = c
  BY <1>1, <1>2, <1>3 DEF RInv, RTicket, Drawn
<1>9. \A d \in Clients : ROne(d)' /\ RTicket(d)' /\ RServed(d)'
  <2>1. ASSUME NEW d \in Clients PROVE ROne(d)' /\ RServed(d)'
    BY <1>1, <1>2 DEF RInv, ROne, RServed
  <2>2. ASSUME NEW d \in Clients PROVE RTicket(d)'
    <3>1. RTicket(d)
      BY DEF RInv
    <3>2. pc[d] = "bakery" \/ request[d] = "BAKERY_PROC" => Drawn(d, ticket[d])'
      BY <3>1, <1>1, <1>2, <1>6 DEF RTicket, Drawn
    <3>3. pc[d] = "get" /\ reply[d] # None => Drawn(d, reply[d][1])'
      <4> SUFFICES ASSUME pc[d] = "get", reply[d] # None PROVE Drawn(d, reply[d][1])'
        OBVIOUS
      <4>1. PICK t \in Nat : reply[d] = <<t>>
        BY DEF RInv, RTypes
      <4>2. Drawn(d, t)'
        BY <3>1, <4>1, <1>6 DEF RTicket
      <4>3. reply'[d][1] = t
        BY <4>1, <1>1
      <4> QED
        BY <4>2, <4>3 DEF Drawn
    <3>4. d = c => /\ worker'[d] = "send" /\ send_mutex' = d /\ Drawn(d, res[d])'
      BY <1>1, <1>2, <1>8
    <3>5. d # c => worker'[d] \notin {"inc", "send"}
      BY <1>1, <1>2, <1>7
    <3> QED
      BY <3>2, <3>3, <3>4, <3>5, <1>1 DEF RTicket
  <2> QED
    BY <2>1, <2>2
<1>10. NoTicketLost'
  <2> SUFFICES ASSUME up', \A d \in Clients : pc'[d] # "killed",
                      NEW t \in client_number_service' .. client_num' - 1
               PROVE  \E d \in Clients : Presents(d, t)'
    BY DEF NoTicketLost, Presented, Presents
  <2>1. CASE t = client_num
    <3>1. pc[c] = "get"
      BY <1>1 DEF RInv, ROne
    <3> QED
      BY <3>1, <2>1, <1>1, <1>2, <1>8 DEF Presents
  <2>2. CASE t # client_num
    <3>1. t \in client_number_service .. client_num - 1
      BY <2>2, <1>1, <1>2
    <3>2. PICK d \in Clients : Presents(d, t)
      BY <3>1, <1>1 DEF RInv, NoTicketLost, Presented, Presents
    <3>3. Presents(d, t)'
      BY <3>2, <1>1, <1>2 DEF Presents
    <3> QED
      BY <3>3
  <2> QED
    BY <2>1, <2>2
<1> QED
  BY <1>4, <1>5, <1>9, <1>10 DEF RInv

(* The thread answers the client whose call it executes.                    *)
LEMMA WorkerSendStep == ASSUME RInv, NEW c \in Clients, WorkerSend(c) PROVE RInv'
<1>1. /\ worker[c] = "send"
      /\ reply' = IF pc[c] = "killed" THEN reply ELSE [reply EXCEPT ![c] = <<res[c]>>]
      /\ worker' = [worker EXCEPT ![c] = "none"]
      /\ res' = [res EXCEPT ![c] = 0]
      /\ UNCHANGED <<up, client_num, client_number_service, main, request, pc, ticket, issued,
                     served>>
  BY DEF WorkerSend, SendTo, cliVars, histVars
<1>2. /\ pc[c] \in {"get", "killed"} /\ request[c] = "none" /\ reply[c] = None
      /\ ~ (main # Idle /\ main.to = c) /\ send_mutex = c /\ Drawn(c, res[c]) /\ up # FALSE
  BY <1>1 DEF RInv, ROne, RTicket
<1>3. /\ reply' \in [Clients -> {None} \cup {<<v>> : v \in Nat}]
      /\ \A d \in Clients \ {c} : reply'[d] = reply[d]
      /\ pc[c] = "killed" => reply'[c] = None
      /\ pc[c] = "get" => reply'[c] = <<res[c]>>
  <2>1. reply \in [Clients -> {None} \cup {<<v>> : v \in Nat}] /\ res \in [Clients -> Nat]
    BY DEF RInv, RTypes
  <2>2. <<res[c]>> \in {<<v>> : v \in Nat}
    BY <2>1
  <2> QED
    BY <2>1, <2>2, <1>1, <1>2
<1>4. RTypes' /\ RPrefix'
  BY <1>1, <1>3 DEF RInv, RTypes, RPrefix
<1>5. \A d \in Clients \ {c} : worker[d] \notin {"inc", "send"}
  BY <1>2 DEF RInv, RTicket
<1>6. /\ worker'[c] = "none" /\ \A d \in Clients \ {c} : worker'[d] = worker[d] /\ res'[d] = res[d]
  BY <1>1 DEF RInv, RTypes
<1>7. \A d \in Clients : ROne(d)' /\ RTicket(d)' /\ RServed(d)'
  <2>1. ASSUME NEW d \in Clients, d # c PROVE ROne(d)' /\ RTicket(d)' /\ RServed(d)'
    BY <1>1, <1>3, <1>5, <1>6, <2>1 DEF RInv, ROne, RTicket, RServed, Drawn
  <2>2. ROne(c)'
    BY <1>1, <1>2, <1>3, <1>6 DEF RInv, ROne
  <2>3. RTicket(c)' /\ RServed(c)'
    <3>1. <<res[c]>>[1] = res[c]
      OBVIOUS
    <3> QED
      BY <1>1, <1>2, <1>3, <1>6, <3>1 DEF RTicket, RServed, Drawn
  <2> QED
    BY <2>1, <2>2, <2>3
<1>8. NoTicketLost'
  <2>1. ASSUME NEW d \in Clients, NEW t \in Nat, Presents(d, t), pc'[d] # "killed"
        PROVE  Presents(d, t)'
    <3>1. CASE d # c
      BY <1>1, <1>3, <1>6, <2>1, <3>1 DEF Presents
    <3>2. CASE d = c
      BY <1>1, <1>2, <1>3, <2>1, <3>2 DEF Presents, None
    <3> QED
      BY <3>1, <3>2
  <2>2. client_number_service' \in Nat /\ client_number_service <= client_number_service'
    BY <1>1 DEF RInv, RTypes
  <2>3. Keeps
    BY <1>1, <2>1, <2>2 DEF Keeps
  <2> QED
    BY <2>3, NothingLost
<1> QED
  BY <1>4, <1>7, <1>8 DEF RInv

(* A dying server takes its threads and the calls with it.                  *)
LEMMA DieStep == ASSUME RInv, Die PROVE RInv'
<1>1. /\ up' = FALSE /\ main' = Idle /\ worker' = [c \in Clients |-> "none"]
      /\ res' = [c \in Clients |-> 0] /\ request' = [c \in Clients |-> "none"]
      /\ UNCHANGED <<client_num, client_number_service, reply, pc, ticket, issued, served>>
  BY DEF Die, cliVars, histVars
<1>2. up' \in BOOLEAN
  BY <1>1, Zenon
<1>3. RTypes' /\ RPrefix'
  BY <1>1, <1>2 DEF RInv, RTypes, RPrefix
<1>4. \A d \in Clients : ROne(d)' /\ RTicket(d)' /\ RServed(d)'
  BY <1>1 DEF RInv, ROne, RTicket, RServed, Drawn
<1>5. NoTicketLost'
  BY <1>1 DEF NoTicketLost
<1> QED
  BY <1>3, <1>4, <1>5 DEF RInv

LEMMA NextRInv == RInv /\ [Next]_vars => RInv'
<1> SUFFICES ASSUME RInv, [Next]_vars PROVE RInv'
  OBVIOUS
<1>1. ASSUME NEW c \in Clients, Client(c) \/ Sigint(c) \/ Killed(c) PROVE RInv'
  BY <1>1, TestStep, CreateStep, GotStep, PolledStep, EndStep DEF Client
<1>2. ASSUME NEW c \in Clients, Worker(c) \/ DispatchGet(c) \/ DispatchBakery(c) PROVE RInv'
  BY <1>2, WorkerReadStep, WorkerIncStep, WorkerSendStep, DispatchGetStep, DispatchBakeryStep
     DEF Worker
<1>3. ASSUME NEW c \in Clients, Hangup(c) PROVE RInv'
  BY <1>3, Unmoved DEF Hangup, srvVars, cliVars, histVars
<1>4. CASE MainReply
  BY <1>4, MainReplyStep
<1>5. CASE KillServer \/ \E c \in Clients : Crash(c)
  BY <1>5, DieStep DEF KillServer, Crash
<1>6. CASE UNCHANGED vars
  BY <1>6, Unmoved DEF vars, srvVars, sockVars, cliVars, histVars
<1> QED
  BY <1>1, <1>2, <1>3, <1>4, <1>5, <1>6 DEF Next, Dispatch, Terminating

(* The clients are served in the order in which their tickets were drawn,   *)
(* however the threads of the server interleave and whoever dies.           *)
THEOREM ServedInOrder == Spec => []FirstComeFirstServed
<1>1. RInv => FirstComeFirstServed
  <2> SUFFICES ASSUME RInv PROVE IsPrefix(served, issued)
    BY DEF FirstComeFirstServed
  <2>1. /\ served \in Seq(Clients) /\ issued \in Seq(Clients) /\ Len(served) \in Nat
        /\ Len(issued) \in Nat /\ Len(served) <= Len(issued)
        /\ \A i \in 1 .. Len(served) : served[i] = issued[i]
    BY DEF RInv, RTypes, RPrefix
  <2>2. SubSeq(served, 1, Len(served)) = SubSeq(issued, 1, Len(served))
    BY <2>1
  <2> QED
    BY <2>1, <2>2 DEF IsPrefix
<1> QED
  BY <1>1, InitRInv, NextRInv, PTL DEF Spec

(* A ticket that was drawn and not served is in the hands of its client, or *)
(* on its way to it, as long as the server lives and no client was killed.  *)
THEOREM TicketsAreKept == Spec => []NoTicketLost
<1>1. RInv => NoTicketLost
  BY DEF RInv
<1> QED
  BY <1>1, InitRInv, NextRInv, PTL DEF Spec

-----------------------------------------------------------------------------
(* The bakery server.                                                       *)

(* BakeryRpcAssumption, as far as the argument needs it.                    *)
BakerySizes == Pids \subseteq Nat /\ MAX_CLIENTS \in Nat \ {0}

BTypes ==
  /\ numbers \in [B!Slots -> Nat] /\ max_number \in Nat
  /\ results \in [B!Slots -> Int]
  /\ net \subseteq B!Requests
  /\ \/ main = B!Idle
     \/ main \in [at : {"get"}, req : B!Requests, val : Int]
     \/ main \in [at : {"scan"}, req : B!Requests, i : Nat, ticket : Nat]

(* Tickets are drawn from max_number, so no two slots have the same.        *)
BDrawn ==
  /\ \A i \in B!Slots : numbers[i] <= max_number
  /\ \A i, j \in B!Slots : numbers[i] = numbers[j] /\ numbers[i] # 0 => i = j

(* The slot of the client that result_proc is busy with.                    *)
Mine == B!Slot(main.req.from)

(* While result_proc scans for a client whose ticket was t: only this       *)
(* thread clears the client's number, so it is t or was drawn again since;  *)
(* and whoever is in a slot already passed has a later ticket than t, even  *)
(* if it registered after the scan went by.                                 *)
BScan ==
  main.at = "scan" /\ main.ticket # 0 =>
    /\ main.ticket <= max_number /\ main.ticket <= numbers[Mine]
    /\ \A i \in B!Slots : i < main.i /\ i # Mine /\ numbers[i] # 0 => numbers[i] > main.ticket

BInv == BTypes /\ BDrawn /\ BScan

(* A pid has a slot.                                                        *)
LEMMA SlotOf ==
  ASSUME BakerySizes, NEW c \in Pids
  PROVE  B!Slot(c) \in B!Slots
<1>1. c \in Nat /\ MAX_CLIENTS \in Nat \ {0}
  BY DEF BakerySizes
<1> QED
  BY <1>1 DEF B!Slot, B!Slots

LEMMA InitBInv == ASSUME BakerySizes PROVE B!Init => BInv
<1> SUFFICES ASSUME B!Init PROVE BInv
  OBVIOUS
<1>1. BTypes
  BY DEF B!Init, BTypes
<1>2. BDrawn
  BY DEF B!Init, BDrawn
<1>3. main.at # "scan"
  BY DEF B!Init, B!Idle
<1> QED
  BY <1>1, <1>2, <1>3 DEF BInv, BScan

(* A step that neither draws nor clears a number, and keeps what result_proc *)
(* is busy with.                                                            *)
LEMMA BRests ==
  ASSUME BInv, BTypes', UNCHANGED <<numbers, max_number>>,
         main'.at = "scan" => /\ main.at = "scan" /\ main'.i = main.i /\ main'.ticket = main.ticket
                              /\ main'.req.from = main.req.from
  PROVE  BInv'
<1>1. BDrawn'
  BY DEF BInv, BDrawn
<1>2. BScan'
  BY DEF BInv, BScan, Mine
<1> QED
  BY <1>1, <1>2 DEF BInv

(* The next ticket is later than every one drawn before.                    *)
LEMMA LockStep ==
  ASSUME BakerySizes, BInv, NEW i \in B!Slots, B!ThreadLock(i)
  PROVE  BInv'
<1>1. /\ max_number' = max_number + 1 /\ numbers' = [numbers EXCEPT ![i] = max_number + 1]
      /\ UNCHANGED <<main, net, results>>
  BY DEF B!ThreadLock, B!netVars
<1>2. BTypes'
  BY <1>1 DEF BInv, BTypes
<1>3. /\ \A j \in B!Slots : numbers[j] \in Nat /\ numbers[j] <= max_number
      /\ max_number \in Nat
      /\ \A j \in B!Slots : numbers'[j] = IF j = i THEN max_number + 1 ELSE numbers[j]
  BY <1>1 DEF BInv, BTypes, BDrawn
<1>4. BDrawn'
  BY <1>1, <1>3 DEF BInv, BDrawn
<1>5. BScan'
  <2> SUFFICES ASSUME main.at = "scan", main.ticket # 0
               PROVE  /\ main.ticket <= max_number' /\ main.ticket <= numbers'[Mine]
                      /\ \A j \in B!Slots : j < main.i /\ j # Mine /\ numbers'[j] # 0
                                               => numbers'[j] > main.ticket
    BY <1>1 DEF BScan, Mine
  <2>1. main.ticket \in Nat /\ main.req \in B!Requests
    BY DEF BInv, BTypes, B!Idle
  <2>2. Mine \in B!Slots
    BY <2>1, SlotOf DEF Mine, B!Requests
  <2> QED
    BY <1>1, <1>3, <2>1, <2>2 DEF BInv, BScan
<1> QED
  BY <1>2, <1>4, <1>5 DEF BInv

(* result_proc reads the ticket and begins its scan.                        *)
LEMMA ResultStartStep ==
  ASSUME BakerySizes, BInv, NEW r \in net, B!ResultStart(r)
  PROVE  BInv'
<1>1. /\ main' = [at |-> "scan", req |-> r, i |-> 0, ticket |-> numbers[B!Slot(r.from)]]
      /\ UNCHANGED <<numbers, max_number, results>> /\ net' \subseteq net
  BY DEF B!ResultStart
<1>2. r \in B!Requests /\ B!Slot(r.from) \in B!Slots
  BY SlotOf DEF BInv, BTypes, B!Requests
<1>3. BTypes'
  BY <1>1, <1>2 DEF BInv, BTypes
<1>4. BDrawn'
  BY <1>1 DEF BInv, BDrawn
<1>5. BScan'
  <2>1. main'.i = 0 /\ main'.ticket = numbers[B!Slot(r.from)] /\ Mine' = B!Slot(r.from)
    BY <1>1 DEF Mine
  <2>2. main'.ticket \in Nat /\ main'.ticket <= max_number /\ main'.ticket <= numbers[B!Slot(r.from)]
    BY <1>2, <2>1 DEF BInv, BTypes, BDrawn
  <2>3. \A j \in B!Slots : ~ (j < 0)
    BY DEF B!Slots, BakerySizes
  <2> QED
    BY <1>1, <2>1, <2>2, <2>3 DEF BScan
<1> QED
  BY <1>3, <1>4, <1>5 DEF BInv

(* The scan goes past a slot that is not ahead.                             *)
LEMMA ScanStep ==
  ASSUME BakerySizes, BInv, B!Scan
  PROVE  BInv'
<1>1. /\ main.at = "scan" /\ ~ B!Ahead(main.i, Mine) /\ main.i < MAX_CLIENTS
      /\ main' = [main EXCEPT !.i = @ + 1]
      /\ UNCHANGED <<numbers, max_number, net, results>>
  BY DEF B!Scan, Mine, B!netVars
<1>2. main \in [at : {"scan"}, req : B!Requests, i : Nat, ticket : Nat]
  BY <1>1 DEF BInv, BTypes, B!Idle
<1>3. /\ main' \in [at : {"scan"}, req : B!Requests, i : Nat, ticket : Nat]
      /\ main'.i = main.i + 1 /\ main'.ticket = main.ticket /\ main'.req = main.req
  BY <1>1, <1>2
<1>4. BTypes' /\ BDrawn'
  BY <1>1, <1>3 DEF BInv, BTypes, BDrawn
<1>5. BScan'
  <2> SUFFICES ASSUME main.ticket # 0
               PROVE  \A j \in B!Slots : j < main.i + 1 /\ j # Mine /\ numbers[j] # 0
                                             => numbers[j] > main.ticket
    BY <1>1, <1>3 DEF BInv, BScan, Mine
  <2> TAKE j \in B!Slots
  <2> HAVE j < main.i + 1 /\ j # Mine /\ numbers[j] # 0
  <2>1. Mine \in B!Slots /\ j \in Nat /\ main.i \in Nat /\ main.ticket \in Nat
    <3>1. Mine \in B!Slots
      BY <1>2, SlotOf DEF Mine, B!Requests
    <3>2. j \in Nat
      BY DEF B!Slots, BakerySizes
    <3> QED
      BY <3>1, <3>2, <1>2
  <2>2. /\ numbers[j] \in Nat /\ numbers[Mine] \in Nat /\ numbers[j] # numbers[Mine]
        /\ main.ticket <= numbers[Mine]
    BY <1>1, <2>1 DEF BInv, BTypes, BDrawn, BScan
  <2>3. CASE j = main.i
    BY <1>1, <2>1, <2>2, <2>3 DEF B!Ahead
  <2>4. CASE j < main.i
    BY <1>1, <2>4 DEF BInv, BScan
  <2> QED
    BY <2>1, <2>3, <2>4
<1> QED
  BY <1>4, <1>5 DEF BInv

(* The scan is over and the number is cleared.                              *)
LEMMA ResultServeStep ==
  ASSUME BakerySizes, BInv, B!ResultServe
  PROVE  BInv'
<1>1. /\ main.at = "scan" /\ main.i = MAX_CLIENTS /\ main' = B!Idle
      /\ numbers' = [numbers EXCEPT ![Mine] = 0]
      /\ UNCHANGED <<max_number, net, results>>
  BY DEF B!ResultServe, Mine
<1>2. main \in [at : {"scan"}, req : B!Requests, i : Nat, ticket : Nat]
  BY <1>1 DEF BInv, BTypes, B!Idle
<1>3. Mine \in B!Slots /\ main.ticket \in Nat
  BY <1>2, SlotOf DEF Mine, B!Requests
<1>4. BTypes'
  BY <1>1, <1>3 DEF BInv, BTypes
<1>5. \A j \in B!Slots : numbers'[j] = IF j = Mine THEN 0 ELSE numbers[j]
  BY <1>1, <1>3 DEF BInv, BTypes
<1>6. \A j \in B!Slots : numbers[j] \in Nat /\ numbers[j] <= max_number
  BY DEF BInv, BTypes, BDrawn
<1>7. BDrawn'
  BY <1>1, <1>5, <1>6 DEF BInv, BTypes, BDrawn
<1>8. BScan'
  BY <1>1 DEF BScan, B!Idle
<1> QED
  BY <1>4, <1>7, <1>8 DEF BInv

(* The calls that only answer, and the registration threads' last step.     *)
LEMMA ServerRests ==
  ASSUME BakerySizes, BInv,
               \/ B!ThreadResults \/ B!GetReset
               \/ \E r \in net : B!Register(r) \/ B!RegisterFails(r) \/ B!GetRead(r)
  PROVE  BInv'
<1>1. UNCHANGED <<numbers, max_number>> /\ net' \subseteq net
  BY DEF B!ThreadResults, B!GetReset, B!Register, B!RegisterFails, B!GetRead, B!srvVars, B!netVars
<1>2. results' \in [B!Slots -> Int]
  <2>1. results \in [B!Slots -> Int] /\ max_number \in Int /\ -1 \in Int
    BY DEF BInv, BTypes
  <2>2. \/ results' = results
        \/ results' = [results EXCEPT ![holder.slot] = max_number]
        \/ results' = [results EXCEPT ![B!Slot(main.req.from)] = -1]
    BY DEF B!ThreadResults, B!GetReset, B!Register, B!RegisterFails, B!GetRead, B!srvVars
  <2> QED
    BY <2>1, <2>2
<1>3. CASE B!ThreadResults \/ \E r \in net : B!Register(r) \/ B!RegisterFails(r)
  <2>1. main' = main
    BY <1>3 DEF B!ThreadResults, B!Register, B!RegisterFails, B!srvVars
  <2>2. BTypes'
    BY <1>1, <1>2, <2>1 DEF BInv, BTypes
  <2> QED
    BY <1>1, <2>1, <2>2, BRests
<1>4. CASE B!GetReset
  <2>1. main' = B!Idle
    BY <1>4 DEF B!GetReset
  <2>2. BTypes' /\ main'.at # "scan"
    BY <1>1, <1>2, <2>1 DEF BInv, BTypes, B!Idle
  <2> QED
    BY <1>1, <2>2, BRests
<1>5. ASSUME NEW r \in net, B!GetRead(r) PROVE BInv'
  <2>1. /\ main = B!Idle
        /\ main' = main \/ main' = [at |-> "get", req |-> r, val |-> results[B!Slot(r.from)]]
    BY <1>5 DEF B!GetRead
  <2>2. r \in B!Requests /\ B!Slot(r.from) \in B!Slots
    BY SlotOf DEF BInv, BTypes, B!Requests
  <2>3. results[B!Slot(r.from)] \in Int
    BY <2>2 DEF BInv, BTypes
  <2>4. BTypes' /\ main'.at # "scan"
    BY <1>1, <1>2, <2>1, <2>2, <2>3 DEF BInv, BTypes, B!Idle
  <2> QED
    BY <1>1, <2>4, BRests
<1> QED
  BY <1>3, <1>4, <1>5

(* What the RPC library sends is a request.                                 *)
LEMMA Sends ==
  ASSUME NEW c \in Pids, NEW l \in {"register", "get", "result"}
  PROVE  [from |-> c, proc |-> B!Proc(l), cur |-> TRUE] \in B!Requests
<1>1. B!Proc(l) \in B!Procs
  BY DEF B!Proc, B!Procs
<1>2. ASSUME NEW b \in BOOLEAN PROVE [from |-> c, proc |-> B!Proc(l), cur |-> b] \in B!Requests
  BY <1>1 DEF B!Requests
<1> QED
  BY <1>2, Zenon

(* A client's step ends a call: its datagrams, and the call the server is   *)
(* busy with, become stale but stay what they are.                          *)
LEMMA EnterStep ==
  ASSUME BInv, NEW c \in Pids, NEW l, B!Enter(c, l)
  PROVE  BInv'
<1>1. /\ UNCHANGED <<numbers, results, max_number>>
      /\ main' = IF main # B!Idle /\ main.req.from = c THEN [main EXCEPT !.req.cur = FALSE] ELSE main
  BY DEF B!Enter
<1> DEFINE old == {r \in net : r.from = c}
           fresh == IF l \in {"register", "get", "result"}
                    THEN {[from |-> c, proc |-> B!Proc(l), cur |-> TRUE]} ELSE {}
<1>2. PICK stale \in SUBSET {[r EXCEPT !.cur = FALSE] : r \in old} :
         net' = (net \ old) \cup stale \cup fresh
  BY DEF B!Enter
<1>3. net' \subseteq B!Requests
  <2>1. net \subseteq B!Requests
    BY DEF BInv, BTypes
  <2>2. stale \subseteq B!Requests
    <3> SUFFICES ASSUME NEW r \in old PROVE [r EXCEPT !.cur = FALSE] \in B!Requests
      OBVIOUS
    <3>1. r \in [from : Pids, proc : B!Procs, cur : BOOLEAN]
      BY <2>1 DEF B!Requests
    <3> QED
      BY <3>1 DEF B!Requests
  <2>3. fresh \subseteq B!Requests
    BY Sends
  <2> QED
    BY <1>2, <2>1, <2>2, <2>3
<1>4. CASE main' = main
  <2>1. BTypes'
    BY <1>1, <1>3, <1>4 DEF BInv, BTypes
  <2> QED
    BY <1>1, <1>4, <2>1, BRests
<1>5. CASE main # B!Idle /\ main' = [main EXCEPT !.req.cur = FALSE]
  <2>1. CASE main \in [at : {"get"}, req : B!Requests, val : Int]
    <3>1. main' \in [at : {"get"}, req : B!Requests, val : Int]
      BY <1>5, <2>1 DEF B!Requests
    <3>2. BTypes' /\ main'.at # "scan"
      BY <1>1, <1>3, <3>1 DEF BInv, BTypes
    <3> QED
      BY <1>1, <3>2, BRests
  <2>2. CASE main \in [at : {"scan"}, req : B!Requests, i : Nat, ticket : Nat]
    <3>1. /\ main' \in [at : {"scan"}, req : B!Requests, i : Nat, ticket : Nat]
          /\ main'.i = main.i /\ main'.ticket = main.ticket /\ main'.req.from = main.req.from
      BY <1>5, <2>2 DEF B!Requests
    <3>2. BTypes' /\ main.at = "scan"
      BY <1>1, <1>3, <2>2, <3>1 DEF BInv, BTypes
    <3> QED
      BY <1>1, <3>1, <3>2, BRests
  <2> QED
    BY <1>5, <2>1, <2>2 DEF BInv, BTypes
<1> QED
  BY <1>1, <1>4, <1>5

LEMMA ResendStep == ASSUME BInv, NEW c \in Pids, B!Resend(c) PROVE BInv'
<1>1. /\ UNCHANGED <<numbers, results, max_number, main>>
      /\ pc[c] \in {"register", "get", "result"}
      /\ net' = net \cup {[from |-> c, proc |-> B!Proc(pc[c]), cur |-> TRUE]}
  BY DEF B!Resend, B!srvVars
<1>2. net' \subseteq B!Requests
  BY <1>1, Sends DEF BInv, BTypes
<1>3. BTypes'
  BY <1>1, <1>2 DEF BInv, BTypes
<1> QED
  BY <1>1, <1>3, BRests

LEMMA BStep == ASSUME BakerySizes PROVE BInv /\ [B!Next]_(B!vars) => BInv'
<1> SUFFICES ASSUME BInv, [B!Next]_(B!vars) PROVE BInv'
  OBVIOUS
<1>1. CASE UNCHANGED B!vars
  <2>1. UNCHANGED <<numbers, results, max_number, main, net>>
    BY <1>1 DEF B!vars, B!srvVars, B!netVars
  <2>2. BTypes'
    BY <2>1 DEF BInv, BTypes
  <2> QED
    BY <2>1, <2>2, BRests
<1>2. CASE B!Threads
  BY <1>2, LockStep, ServerRests DEF B!Threads
<1>3. CASE B!Busy
  BY <1>3, ScanStep, ResultServeStep, ServerRests DEF B!Busy
<1>4. CASE B!Drain
  BY <1>4, ResultStartStep, ServerRests DEF B!Drain, B!Dispatch
<1>5. ASSUME NEW c \in Pids, B!Test(c) \/ B!Return(c) \/ B!Timeout(c) \/ B!Resend(c) PROVE BInv'
  <2>1. B!Resend(c) \/ \E l : B!Enter(c, l)
    BY <1>5, Zenon DEF B!Test, B!Return, B!Timeout
  <2> QED
    BY <2>1, EnterStep, ResendStep
<1> QED
  BY <1>1, <1>2, <1>3, <1>4, <1>5 DEF B!Next, B!Terminating

(* Only result_proc ends its scan.                                          *)
LEMMA OnlyServes == BInv /\ B!Next /\ B!Serves => B!ResultServe
<1> SUFFICES ASSUME BInv, B!Next, main.at = "scan", main' = B!Idle PROVE B!ResultServe
  BY DEF B!Serves
<1>1. main' # main /\ main # B!Idle /\ main'.at # "scan"
  BY DEF B!Idle
<1>2. main \in [at : {"scan"}, req : B!Requests, i : Nat, ticket : Nat]
  BY DEF BInv, BTypes, B!Idle
<1>3. ~ B!Threads
  BY <1>1 DEF B!Threads, B!ThreadLock, B!ThreadResults
<1>4. ~ B!GetReset
  BY DEF B!GetReset
<1>5. ~ B!Scan
  <2>1. [main EXCEPT !.i = @ + 1].at = "scan"
    BY <1>2
  <2> QED
    BY <2>1, <1>1 DEF B!Scan
<1>6. ~ B!Drain
  BY <1>1 DEF B!Drain, B!Dispatch, B!Register, B!RegisterFails, B!GetRead, B!ResultStart, B!srvVars
<1>7. ASSUME NEW c \in Pids, B!Test(c) \/ B!Return(c) \/ B!Timeout(c) \/ B!Resend(c) PROVE FALSE
  <2>1. B!Resend(c) \/ \E l : B!Enter(c, l)
    BY <1>7, Zenon DEF B!Test, B!Return, B!Timeout
  <2>2. main' = main \/ main' = [main EXCEPT !.req.cur = FALSE]
    BY <2>1 DEF B!Resend, B!Enter, B!srvVars
  <2>3. [main EXCEPT !.req.cur = FALSE].at = "scan"
    BY <1>2
  <2> QED
    BY <2>2, <2>3, <1>1
<1>8. ~ B!Terminating
  BY <1>1 DEF B!Terminating, B!vars, B!srvVars
<1> QED
  BY <1>3, <1>4, <1>5, <1>6, <1>7, <1>8 DEF B!Next, B!Busy

(* When the scan is over, everybody else has a later ticket.                *)
LEMMA ScanIsOver ==
  ASSUME BakerySizes, BInv, B!ResultServe, main.ticket # 0,
         NEW i \in B!Slots \ {Mine}, numbers[i] # 0
  PROVE  numbers[i] > main.ticket
<1>1. main.at = "scan" /\ main.i = MAX_CLIENTS
  BY DEF B!ResultServe
<1>2. i < main.i
  BY <1>1 DEF B!Slots, BakerySizes
<1> QED
  BY <1>1, <1>2 DEF BInv, BScan

(* First come, first served at the bakery server: whoever asks with a       *)
(* ticket is served when everybody else who waits has a later one, although *)
(* result_proc scans the numbers without the mutex and clients register     *)
(* again behind its back.                                                   *)
THEOREM BakeryServedInOrder ==
  ASSUME BakerySizes PROVE B!Spec => B!FirstComeFirstServed
<1> DEFINE InOrder == B!Serves /\ main.ticket # 0 =>
             \A i \in B!Slots \ {B!Slot(main.req.from)} : numbers[i] # 0 => numbers[i] > main.ticket
<1>1. BInv /\ [B!Next]_(B!vars) => [InOrder]_(B!vars)
  <2> SUFFICES ASSUME BInv, B!Next, B!Serves, main.ticket # 0,
                      NEW i \in B!Slots \ {B!Slot(main.req.from)}, numbers[i] # 0
               PROVE  numbers[i] > main.ticket
    OBVIOUS
  <2> QED
    BY OnlyServes, ScanIsOver DEF Mine
<1>2. B!Spec => []BInv
  BY InitBInv, BStep, PTL DEF B!Spec
<1>3. B!Spec => [][InOrder]_(B!vars)
  BY <1>1, <1>2, PTL DEF B!Spec
<1> QED
  BY <1>3 DEF B!FirstComeFirstServed
=============================================================================
