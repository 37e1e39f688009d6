------------------------------ MODULE Datagrams -------------------------------
(***************************************************************************)
(* lab_sockets/lab_02: a server on a UNIX datagram socket and its clients. *)
(*   "alarm"  prog_1: the server prints what it gets until SIGALRM         *)
(*   "echo"   prog_2: it answers every datagram until SIGINT               *)
(* The makefile of prog_1 compiles with -std=c99, where signal() installs  *)
(* a handler that does not restart system calls, as prog_2 does with       *)
(* sigaction.  The name in the server's address is copied without its      *)
(* terminator into an uninitialised sockaddr, so two bytes may follow it:  *)
(* the server is then bound to another file than SOCK_NAME.  addrlen of    *)
(* the server of prog_1 and of the client of prog_2 is not initialised     *)
(* either; recvfrom fails if its value is negative.                        *)
(***************************************************************************)
EXTENDS Naturals, Sequences, SequencesExt

CONSTANTS Clients,
          NRuns,      \* bound: starts of the server
          NSigints    \* bound: SIGINTs sent to it

VARIABLES
  prog,
  srv,        \* where the server is; "off" before a start, "ended" after it
  how,        \* how its last run ended
  name,       \* the file its address names
  files,      \* the socket files that exist
  flag,       \* TRUE until the handler has run
  alarm,      \* prog_1: "off", "set" or "over"; one per run
  queue,      \* the datagrams of the server's socket, by sender
  to,         \* the sender of the datagram that was received
  cl,         \* where each client is
  mail,       \* the clients with an answer in their socket
  abandoned,  \* history: the clients whose datagram no server will answer
  left        \* starts and signals that are left

vars == <<prog, srv, how, name, files, flag, alarm, queue, to, cl, mail, abandoned, left>>
server == <<srv, how, name, files, flag, alarm, queue, to>>

Names == {"server.soc", "garbled"}

Init ==
  /\ prog \in {"alarm", "echo"}
  /\ srv = "off" /\ how = "none"
  /\ name = "server.soc" /\ files = {}
  /\ flag = TRUE /\ alarm = "off"
  /\ queue = <<>> /\ to = "nobody"
  /\ cl = [c \in Clients |-> "start"]
  /\ mail = {} /\ abandoned = {}
  /\ left = [runs |-> NRuns, sigints |-> NSigints]

-----------------------------------------------------------------------------
(* The server.                                                              *)

(* The process is gone, and with its socket the datagrams.                  *)
End(why, unlinked) ==
  /\ srv' = "ended" /\ how' = why
  /\ files' = files \ unlinked
  /\ abandoned' = abandoned \cup ToSet(queue) \cup ({to} \cap Clients)
  /\ queue' = <<>> /\ to' = "nobody" /\ alarm' = "off"
  /\ UNCHANGED <<prog, name, flag, cl, mail, left>>

Start ==
  /\ srv \in {"off", "ended"} /\ left.runs > 0
  /\ left' = [left EXCEPT !.runs = @ - 1]
  /\ srv' = "bind" /\ flag' = TRUE
  /\ name' \in Names
  /\ UNCHANGED <<prog, how, files, alarm, queue, to, cl, mail, abandoned>>

(* bind: fails if the file exists, also if nobody has its socket open.      *)
Bind ==
  /\ srv = "bind"
  /\ \/ name \notin files /\ srv' = "handler" /\ files' = files \cup {name}
        /\ UNCHANGED <<prog, how, name, flag, alarm, queue, to, cl, mail, abandoned, left>>
     \/ name \in files /\ End("bind", {})

(* signal(SIGALRM) and alarm(10); sigaction(SIGINT), which may fail.        *)
Handler ==
  /\ srv = "handler"
  /\ \/ /\ srv' = "while" /\ alarm' = IF prog = "alarm" THEN "set" ELSE "off"
        /\ UNCHANGED <<prog, how, name, files, flag, queue, to, cl, mail, abandoned, left>>
     \/ prog = "echo" /\ End("handler", {})

(* while (flag); the end of the loop unlinks SOCK_NAME.                     *)
While ==
  /\ srv = "while"
  /\ \/ flag /\ srv' = "recvfrom"
        /\ UNCHANGED <<prog, how, name, files, flag, alarm, queue, to, cl, mail, abandoned, left>>
     \/ ~ flag /\ End("flag", {"server.soc"})

(* recvfrom takes a datagram, or sleeps until there is one.                 *)
GreedyRecv ==
  /\ srv \in {"recvfrom", "asleep"} /\ queue # <<>>
  /\ queue' = <<>>
  /\ IF prog = "alarm" THEN srv' = "while" /\ to' = to
                       ELSE srv' = "sendto" /\ to' = Last(queue)
  /\ UNCHANGED <<prog, how, name, files, flag, alarm, cl, mail, abandoned, left>>
Recv ==
  /\ srv \in {"recvfrom", "asleep"} /\ queue # <<>>
  /\ queue' = Tail(queue)
  /\ IF prog = "alarm" THEN srv' = "while" /\ to' = to
                       ELSE srv' = "sendto" /\ to' = Head(queue)
  /\ UNCHANGED <<prog, how, name, files, flag, alarm, cl, mail, abandoned, left>>

RecvSleeps ==
  /\ srv = "recvfrom" /\ queue = <<>>
  /\ srv' = "asleep"
  /\ UNCHANGED <<prog, how, name, files, flag, alarm, queue, to, cl, mail, abandoned, left>>

(* recvfrom returns -1: exit(1), in prog_2 after unlink.                    *)
FaultyRecvError == End("recvfrom", {})
RecvError == End("recvfrom", IF prog = "echo" THEN {"server.soc"} ELSE {})

RecvFails ==
  /\ prog = "alarm" /\ srv \in {"recvfrom", "asleep"} /\ queue # <<>>
  /\ RecvError

(* sendto the sender; fails if its process is gone: unlink and exit(1).     *)
Answer ==
  /\ srv = "sendto"
  /\ \/ /\ cl[to] = "recvfrom"
        /\ mail' = mail \cup {to} /\ to' = "nobody" /\ srv' = "while"
        /\ UNCHANGED <<prog, how, name, files, flag, alarm, queue, cl, abandoned, left>>
     \/ cl[to] = "ended" /\ End("sendto", {"server.soc"})

Server == Bind \/ Handler \/ While \/ Recv \/ RecvSleeps \/ RecvFails \/ Answer

(* The handler sets the flag; a recvfrom that sleeps returns EINTR.  One    *)
(* that is only about to be called does not learn of it.                    *)
Interrupt ==
  \/ srv = "asleep" /\ RecvError
  \/ /\ srv \in {"while", "recvfrom", "sendto"}
     /\ flag' = FALSE
     /\ UNCHANGED <<prog, srv, how, name, files, queue, to, cl, mail, abandoned>>
     /\ IF prog = "alarm"
        THEN alarm' = "over" /\ left' = left
        ELSE left' = [left EXCEPT !.sigints = @ - 1] /\ alarm' = alarm

Sigalrm == alarm = "set" /\ Interrupt

(* SIGINT ends a server that has no handler for it (yet).                   *)
Sigint ==
  /\ srv \notin {"off", "ended"} /\ left.sigints > 0
  /\ IF prog = "alarm" \/ srv \in {"bind", "handler"}
     THEN End("killed", {}) ELSE Interrupt

-----------------------------------------------------------------------------
(* The client: bind its own socket (prog_2), sendto, recvfrom (prog_2).     *)
(* It ends if a call fails; the file of its socket, cut to the 14 bytes of  *)
(* sa_data, is not the one it unlinks, and stays.                           *)

Reachable == srv \notin {"off", "bind", "ended"} /\ name = "server.soc"

Send(c) ==
  /\ cl[c] = "start"
  /\ \/ /\ Reachable
        /\ queue' = Append(queue, c)
        /\ cl' = [cl EXCEPT ![c] = IF prog = "echo" THEN "recvfrom" ELSE "ended"]
     \/ /\ prog = "echo" \/ ~ Reachable
        /\ cl' = [cl EXCEPT ![c] = "ended"]
        /\ queue' = queue
  /\ UNCHANGED <<prog, srv, how, name, files, flag, alarm, to, mail, abandoned, left>>

(* The answer is read, and ten seconds later the client ends.               *)
Receive(c) ==
  /\ cl[c] = "recvfrom" /\ c \in mail
  /\ cl' = [cl EXCEPT ![c] = "ended"]
  /\ mail' = mail \ {c}
  /\ UNCHANGED <<prog, server, abandoned, left>>

(* Ctrl-C in the client's terminal.                                         *)
ClientKilled(c) ==
  /\ prog = "echo" /\ cl[c] = "recvfrom"
  /\ cl' = [cl EXCEPT ![c] = "ended"]
  /\ mail' = mail \ {c}
  /\ UNCHANGED <<prog, server, abandoned, left>>

Client(c) == Send(c) \/ Receive(c)

World == Start \/ Sigalrm \/ Sigint \/ \E c \in Clients : ClientKilled(c)
Next == World \/ Server \/ \E c \in Clients : Client(c)

-----------------------------------------------------------------------------
(* Properties.                                                              *)

TypeOK ==
  /\ srv \in {"off", "bind", "handler", "while", "recvfrom", "asleep", "sendto", "ended"}
  /\ how \in {"none", "bind", "handler", "flag", "recvfrom", "sendto", "killed"}
  /\ name \in Names /\ files \subseteq Names
  /\ flag \in BOOLEAN /\ alarm \in {"off", "set", "over"}
  /\ queue \in Seq(Clients) /\ to \in Clients \cup {"nobody"}
  /\ cl \in [Clients -> {"start", "recvfrom", "ended"}]
  /\ mail \subseteq Clients /\ abandoned \subseteq Clients

(* SOCK_NAME is free for the next start, unless the server of prog_1 was    *)
(* woken in recvfrom or killed, or the one of prog_2 ended before it had    *)
(* its handler, in this run or in one before whose file made bind fail.     *)
NameFreedAtEnd ==
  srv = "ended" /\ "server.soc" \in files
    => how \in {"bind", "killed"} \cup {IF prog = "alarm" THEN "recvfrom" ELSE "handler"}

(* A client of prog_2 that waits gets its answer, unless it is killed or    *)
(* the server ends before it answers: a second client that was killed, or   *)
(* SIGINT, ends the server with datagrams in its queue.                     *)
AnsweredOrAbandoned ==
  \A c \in Clients : cl[c] = "recvfrom" ~> cl[c] = "ended" \/ c \in abandoned
=============================================================================
