----------------------------- MODULE LetterServer -----------------------------
(***************************************************************************)
(* lab_sockets/lab_03/mt: the multi-threaded letter reservation server     *)
(* (server.c) and its clients (client.c).  A client asks for the letters,  *)
(* picks the first one that was free, and later asks to reserve it.        *)
(*                                                                         *)
(* Every accept() creates a thread and passes it the address of main's     *)
(* connfd.  The thread reads connfd only after 10 ms, when main may have   *)
(* accepted other connections: connfd is then the latest one.  The server  *)
(* never closes a connection, so descriptors are not reused and the n-th   *)
(* connection is simply number n.                                          *)
(***************************************************************************)
EXTENDS Naturals, FiniteSets, SysVSem

CONSTANTS
  Clients,   \* client processes
  ARR_SIZE,  \* letters (20 in the code)
  MaxConn    \* bound on the connections the clients make

ASSUME LetterAssumption ==
  /\ IsFiniteSet(Clients) /\ ARR_SIZE \in Nat \ {0} /\ MaxConn \in Nat \ {0}

READER_QUEUE  == 0
WRITER_QUEUE  == 1
READER        == 2
WRITER        == 3
SHADOW_WRITER == 4

Index  == 0 .. ARR_SIZE - 1
Conns  == 1 .. MaxConn
None   == 0
NoOne  == "no one"

VARIABLES
  up,        \* the server process exists
  sem,       \* its semaphore set
  free,      \* indices i with arr[i] # ' '
  connfd,    \* main's local connfd: the connection accepted last
  opened,    \* connections made so far, accepted or in the backlog
  peer,      \* the client at the other end
  inbox,     \* the request on a connection, not yet received
  reply,     \* the reply on a connection, not yet received
  th,        \* where the thread created for the n-th accept is
  fd,        \* the connection that thread serves
  got,       \* its buf[1] and the status it will send
  cl,        \* where each client is
  mine,      \* each client's connection
  index,     \* the index a client picked
  told,      \* the server's parent was sent SIGINT
  owners     \* history: the clients told OK, per letter

serverVars == <<up, sem, free, told>>
connVars   == <<opened, peer, inbox, reply>>
threadVars == <<th, fd, got>>
clientVars == <<cl, mine, index>>
vars == <<serverVars, connfd, connVars, threadVars, clientVars, owners>>

NoRequest == [type |-> "none", index |-> 0]
NoReply   == [status |-> "none", free |-> {}]

Init ==
  /\ up = TRUE
  /\ sem = [n \in 0 .. 4 |-> IF n = WRITER THEN 1 ELSE 0]
  /\ free = Index
  /\ connfd = None
  /\ opened = 0
  /\ peer = [n \in Conns |-> NoOne]
  /\ inbox = [n \in Conns |-> NoRequest]
  /\ reply = [n \in Conns |-> NoReply]
  /\ th = [n \in Conns |-> "none"]
  /\ fd = [n \in Conns |-> None]
  /\ got = [n \in Conns |-> [index |-> 0, status |-> "none"]]
  /\ cl = [c \in Clients |-> "idle"]
  /\ mine = [c \in Clients |-> None]
  /\ index = [c \in Clients |-> 0]
  /\ told = FALSE
  /\ owners = [i \in Index |-> {}]

-----------------------------------------------------------------------------
(* The arrays of struct sembuf.                                             *)

start_rd(s) == s ## <<READER_QUEUE, 1>> ## <<WRITER_QUEUE, 0>> ## <<SHADOW_WRITER, 0>>
                 ## <<READER, 1>> ## <<READER_QUEUE, -1>>
stop_rd(s)  == s ## <<READER, -1>>
start_wr(s) == s ## <<WRITER_QUEUE, 1>> ## <<READER, 0>> ## <<WRITER, -1>>
                 ## <<SHADOW_WRITER, 1>> ## <<WRITER_QUEUE, -1>>
FaultyStopWr(s) == s ## <<WRITER, 1>>
stop_wr(s)  == s ## <<SHADOW_WRITER, -1>> ## <<WRITER, 1>>

-----------------------------------------------------------------------------
(* The server: main() and process_client.                                   *)

At(t, l) == up /\ th[t] = l
Goto(t, l) == th' = [th EXCEPT ![t] = l]

(* accept() overwrites connfd; the thread gets its address.                 *)
Accept ==
  /\ up /\ connfd < opened
  /\ connfd' = connfd + 1
  /\ th' = [th EXCEPT ![connfd'] = "born"]
  /\ UNCHANGED <<serverVars, connVars, fd, got, clientVars, owners>>

(* mmap, usleep(10000), and only then connfd = *((int * )args)              *)
ReadFd(t) ==
  /\ At(t, "born")
  /\ fd' = [fd EXCEPT ![t] = connfd]
  /\ Goto(t, "recv")
  /\ UNCHANGED <<serverVars, connfd, connVars, got, clientVars, owners>>

(* recv(): a request, or the end of the connection.  Two threads may wait   *)
(* on one connection; each message goes to one of them.                     *)
Recv(t) ==
  /\ At(t, "recv")
  /\ fd[t] # None
  /\ LET m == inbox[fd[t]] IN
       /\ m.type # "none"
       /\ Goto(t, CASE m.type = "r" -> "rd" [] m.type = "w" -> "wr" [] OTHER -> "done")
       /\ got' = [got EXCEPT ![t] = [index |-> m.index, status |-> "none"]]
       /\ inbox' = IF m.type = "eof" THEN inbox ELSE [inbox EXCEPT ![fd[t]] = NoRequest]
  /\ UNCHANGED <<serverVars, connfd, opened, peer, reply, fd, clientVars, owners>>

(* case 'r': semop(start_rd)                                                *)
RdEnter(t) ==
  /\ At(t, "rd")
  /\ start_rd(sem) # Blocked
  /\ sem' = start_rd(sem)
  /\ Goto(t, "copy")
  /\ UNCHANGED <<up, free, told, connfd, connVars, fd, got, clientVars, owners>>

(* copy arr and send it                                                     *)
RdSend(t) ==
  /\ At(t, "copy")
  /\ reply' = [reply EXCEPT ![fd[t]] = [status |-> "letters", free |-> free]]
  /\ Goto(t, "rdstop")
  /\ UNCHANGED <<serverVars, connfd, opened, peer, inbox, fd, got, clientVars, owners>>

RdLeave(t) ==
  /\ At(t, "rdstop")
  /\ sem' = stop_rd(sem)
  /\ Goto(t, "recv")
  /\ UNCHANGED <<up, free, told, connfd, connVars, fd, got, clientVars, owners>>

(* case 'w': semop(start_wr)                                                *)
WrEnter(t) ==
  /\ At(t, "wr")
  /\ start_wr(sem) # Blocked
  /\ sem' = start_wr(sem)
  /\ Goto(t, "test")
  /\ UNCHANGED <<up, free, told, connfd, connVars, fd, got, clientVars, owners>>

(* arr[index] != ' ' ?  (a client never sends an index beyond ARR_SIZE)     *)
WrTest(t) ==
  /\ At(t, "test")
  /\ Goto(t, IF got[t].index \in free THEN "mark" ELSE "full")
  /\ got' = [got EXCEPT ![t].status =
                IF got[t].index \in free THEN "OK" ELSE "ALREADLY_RESERVED"]
  /\ UNCHANGED <<serverVars, connfd, connVars, fd, clientVars, owners>>

(* arr[index] = ' '                                                         *)
FaultyWrMark(t) ==
  /\ At(t, "mark")
  /\ owners' = [owners EXCEPT ![got[t].index] = @ \cup {peer[fd[t]]}]
  /\ Goto(t, "full")
  /\ UNCHANGED <<up, sem, free, told, connfd, connVars, fd, got, clientVars>>
WrMark(t) ==
  /\ At(t, "mark")
  /\ free' = free \ {got[t].index}
  /\ owners' = [owners EXCEPT ![got[t].index] = @ \cup {peer[fd[t]]}]
  /\ Goto(t, "full")
  /\ UNCHANGED <<up, sem, told, connfd, connVars, fd, got, clientVars>>

(* The scan for a free letter: when there is none the message says that the *)
(* server shuts down and SIGINT goes to getppid(), the shell that started   *)
(* the server, not to the server.                                           *)
WrFull(t) ==
  /\ At(t, "full")
  /\ told' = (told \/ free = {})
  /\ Goto(t, "wrsend")
  /\ UNCHANGED <<up, sem, free, connfd, connVars, fd, got, clientVars, owners>>

WrSend(t) ==
  /\ At(t, "wrsend")
  /\ reply' = [reply EXCEPT ![fd[t]] = [status |-> got[t].status, free |-> {}]]
  /\ Goto(t, "wrstop")
  /\ UNCHANGED <<serverVars, connfd, opened, peer, inbox, fd, got, clientVars, owners>>

WrLeave(t) ==
  /\ At(t, "wrstop")
  /\ sem' = stop_wr(sem)
  /\ Goto(t, "recv")
  /\ UNCHANGED <<up, free, told, connfd, connVars, fd, got, clientVars, owners>>

Thread(t) ==
  \/ ReadFd(t) \/ Recv(t) \/ RdEnter(t) \/ RdSend(t) \/ RdLeave(t)
  \/ WrEnter(t) \/ WrTest(t) \/ WrMark(t) \/ WrFull(t) \/ WrSend(t) \/ WrLeave(t)

(* SIGINT from the user: the handler removes the set and exits.             *)
Sigint ==
  /\ up
  /\ up' = FALSE
  /\ UNCHANGED <<sem, free, told, connfd, connVars, threadVars, clientVars, owners>>

-----------------------------------------------------------------------------
(* A client: main() and request().                                          *)

ClientUnchanged == UNCHANGED <<serverVars, connfd, threadVars, owners>>

Connect(c) ==
  /\ cl[c] = "idle"
  /\ IF up
     THEN /\ opened < MaxConn
          /\ opened' = opened + 1
          /\ peer' = [peer EXCEPT ![opened'] = c]
          /\ inbox' = [inbox EXCEPT ![opened'] = [type |-> "r", index |-> 0]]
          /\ mine' = [mine EXCEPT ![c] = opened']
          /\ cl' = [cl EXCEPT ![c] = "reading"]
     ELSE /\ cl' = [cl EXCEPT ![c] = "exited"]
          /\ UNCHANGED <<opened, peer, inbox, mine>>
  /\ UNCHANGED <<reply, index>>
  /\ ClientUnchanged

(* The letters arrive; the client picks the first free one, or gives up.    *)
Pick(c) ==
  /\ cl[c] = "reading" /\ reply[mine[c]].status = "letters"
  /\ LET letters == reply[mine[c]].free IN
       IF letters = {}
       THEN /\ cl' = [cl EXCEPT ![c] = "exited"]
            /\ inbox' = [inbox EXCEPT ![mine[c]] = [type |-> "eof", index |-> 0]]
            /\ index' = index
       ELSE /\ cl' = [cl EXCEPT ![c] = "thinking"]
            /\ index' = [index EXCEPT ![c] = CHOOSE i \in letters : \A j \in letters : i <= j]
            /\ inbox' = inbox
  /\ reply' = [reply EXCEPT ![mine[c]] = NoReply]
  /\ UNCHANGED <<opened, peer, mine>>
  /\ ClientUnchanged

(* After half a second or more: 'w' with the index picked then.             *)
Reserve(c) ==
  /\ cl[c] = "thinking"
  /\ inbox' = [inbox EXCEPT ![mine[c]] = [type |-> "w", index |-> index[c]]]
  /\ cl' = [cl EXCEPT ![c] = "writing"]
  /\ UNCHANGED <<opened, peer, reply, mine, index>>
  /\ ClientUnchanged

(* OK or already reserved; the client closes and connects again.            *)
Answered(c) ==
  /\ cl[c] = "writing" /\ reply[mine[c]].status \in {"OK", "ALREADLY_RESERVED"}
  /\ reply' = [reply EXCEPT ![mine[c]] = NoReply]
  /\ inbox' = [inbox EXCEPT ![mine[c]] = [type |-> "eof", index |-> 0]]
  /\ mine' = [mine EXCEPT ![c] = None]
  /\ cl' = [cl EXCEPT ![c] = "idle"]
  /\ UNCHANGED <<opened, peer, index>>
  /\ ClientUnchanged

(* The server is gone: every way on ends in exit(EXIT_FAILURE) or SIGPIPE.  *)
Lost(c) ==
  /\ ~ up /\ cl[c] \in {"reading", "thinking", "writing"}
  /\ reply[mine[c]].status = "none"
  /\ cl' = [cl EXCEPT ![c] = "exited"]
  /\ UNCHANGED <<connVars, mine, index>>
  /\ ClientUnchanged

Client(c) == Connect(c) \/ Pick(c) \/ Reserve(c) \/ Answered(c) \/ Lost(c)

Next == \/ Accept \/ Sigint
        \/ \E t \in Conns : Thread(t)
        \/ \E c \in Clients : Client(c)

Spec == Init /\ [][Next]_vars

FairSpec == /\ Spec
            /\ WF_vars(Accept)
            /\ \A t \in Conns : WF_vars(Thread(t))
            /\ \A c \in Clients : WF_vars(Client(c))

-----------------------------------------------------------------------------
(* Properties.                                                              *)

TypeOK ==
  /\ up \in BOOLEAN /\ told \in BOOLEAN
  /\ sem \in [0 .. 4 -> Nat]
  /\ free \subseteq Index
  /\ connfd \in 0 .. opened /\ opened \in 0 .. MaxConn
  /\ peer \in [Conns -> Clients \cup {NoOne}]
  /\ inbox \in [Conns -> [type : {"none", "r", "w", "eof"}, index : Index]]
  /\ reply \in [Conns -> [status : {"none", "letters", "OK", "ALREADLY_RESERVED"},
                          free : SUBSET Index]]
  /\ th \in [Conns -> {"none", "born", "recv", "rd", "copy", "rdstop", "wr", "test",
                       "mark", "full", "wrsend", "wrstop", "done"}]
  /\ fd \in [Conns -> 0 .. MaxConn]
  /\ got \in [Conns -> [index : Index, status : {"none", "OK", "ALREADLY_RESERVED"}]]
  /\ cl \in [Clients -> {"idle", "reading", "thinking", "writing", "exited"}]
  /\ mine \in [Clients -> 0 .. MaxConn]
  /\ index \in [Clients -> Index]
  /\ owners \in [Index -> SUBSET Clients]

(* A letter is given to one client only, although clients choose from lists *)
(* that are stale when they ask, and although two threads may serve one     *)
(* connection while both believe it is theirs; and the reply a client reads *)
(* is true of it: OK means that the letter is its own, "already reserved"   *)
(* that another client was faster since the list it chose from was sent.    *)
RepliesTruthful ==
  /\ \A i \in Index : Cardinality(owners[i]) <= 1
  /\ \A c \in Clients : cl[c] = "writing" =>
       LET status == reply[mine[c]].status IN
         /\ status = "OK" => owners[index[c]] = {c}
         /\ status = "ALREADLY_RESERVED" => owners[index[c]] \notin {{}, {c}}

(* A connection whose own thread read connfd too late and that no other     *)
(* thread serves.                                                           *)
Orphan(n) ==
  /\ n < connfd
  /\ \A t \in Conns : fd[t] # n

(* Every request is answered unless the server stops or the connection was  *)
(* orphaned by the race on connfd; a client on an orphan waits for ever.    *)
AnsweredOrOrphan ==
  \A c \in Clients : cl[c] \in {"reading", "writing"} ~>
     (~ up \/ cl[c] \notin {"reading", "writing"} \/ reply[mine[c]].status # "none"
       \/ (mine[c] # None /\ Orphan(mine[c])))

(* The message "All letters reserved. Shutting down server."                *)
ShutsDownWhenFull == (free = {}) ~> ~ up
=============================================================================
