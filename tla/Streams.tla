------------------------------- MODULE Streams --------------------------------
(***************************************************************************)
(* Four programs whose parent forks children that send it bytes:           *)
(*   "lockstep"  lab_sockets/lab_01/main.c        socket pair              *)
(*   "race"      lab_sockets/lab_01/socketpair.c  socket pair              *)
(*   "pipe"      sem_05/lab_02_unix/pipe.c        pipe                     *)
(*   "signal"    sem_05/lab_02_unix/signal.c      pipe, SIGINT sets a flag *)
(* In the socket pair programs a child then reads an answer.               *)
(*                                                                         *)
(* A stream is the sequence of its bytes, each named by the child whose    *)
(* message (or the answer to it) it belongs to.  A read takes what is      *)
(* there, up to its size, and waits only for the first byte; it returns    *)
(* 0 at the end of file, when no writer has the other end open.            *)
(***************************************************************************)
EXTENDS Naturals, Sequences, SequencesExt

CONSTANTS
  Message,    \* bytes of each child's message, per program
  Reply,      \* bytes of an answer (1024 and 64 in the code), per program
  AnswerRead  \* size of a child's read (3 and 64 in the code), per program

VARIABLES
  prog,       \* the program that runs
  main,       \* where the parent is
  i,          \* its loop counter
  child,      \* where each child is
  up, down,   \* the bytes to the parent and to the children
  reply,      \* the child named by the parent's buffer
  got,        \* what each child read: the child each byte is for
  glued,      \* history: a read of the parent returned two messages
  flag        \* signal.c: the flag of the parent (0) and of each child

vars == <<prog, main, i, child, up, down, reply, got, glued, flag>>

Pairs == {"lockstep", "race"}
NChildren(p) == Len(Message[p])
Children == 1 .. NChildren(prog)

Init ==
  /\ prog \in DOMAIN Message
  /\ main = "fork" /\ i = 1
  /\ child = [c \in Children |-> "none"]
  /\ up = <<>> /\ down = <<>>
  /\ reply = 0
  /\ got = [c \in Children |-> <<>>]
  /\ glued = FALSE
  /\ flag = [c \in {0} \cup Children |-> FALSE]

Bytes(c, n) == [k \in 1 .. n |-> c]
Upto(s, n) == SubSeq(s, 1, IF n < Len(s) THEN n ELSE Len(s))
From(s, n) == SubSeq(s, n + 1, Len(s))
ParentOver == main \in {"done", "failed"}

-----------------------------------------------------------------------------
(* fork in a loop; lockstep serves the child before it forks the next.      *)
Fork ==
  /\ main = "fork" /\ i <= NChildren(prog)
  /\ child' = [child EXCEPT ![i] = "write"]
  /\ flag' = [flag EXCEPT ![i] = flag[0]]
  /\ IF prog = "lockstep" THEN main' = "read" /\ i' = i
                          ELSE main' = "fork" /\ i' = i + 1
  /\ UNCHANGED <<prog, up, down, reply, got, glued>>

(* fork fails: the parent ends, and the children it has are on their own.   *)
ForkFails ==
  /\ main = "fork" /\ i <= NChildren(prog)
  /\ main' = "failed"
  /\ UNCHANGED <<prog, i, child, up, down, reply, got, glued, flag>>

(* The loop is over; the pipe programs wait for the children first.         *)
Forked ==
  /\ main = "fork" /\ i > NChildren(prog)
  /\ main' = IF prog = "race" THEN "read" ELSE "wait"
  /\ i' = 1
  /\ UNCHANGED <<prog, child, up, down, reply, got, glued, flag>>

(* Ctrl-C reaches the parent and its children; signal.c has a handler, and  *)
(* only this program is sent it.                                            *)
Sigint ==
  /\ prog = "signal" /\ ~ ParentOver /\ ~ flag[0]
  /\ flag' = [c \in DOMAIN flag |-> c = 0 \/ flag[c] \/ child[c] = "write"]
  /\ UNCHANGED <<prog, main, i, child, up, down, reply, got, glued>>

(* No process but the children that are past their first close has the      *)
(* parent's end of the pair: c reads end of file, or its write ends it by   *)
(* SIGPIPE.  In lockstep every child keeps both ends open.                  *)
PeerClosed(c) ==
  /\ prog = "race" /\ main \in {"wait", "done", "failed"}
  /\ \A d \in Children \ {c} : child[d] # "write"

(* A child writes its message; in signal.c only if the flag is set.         *)
SwappedChildWrite(c) ==
  /\ child[c] = "write" /\ (prog \in Pairs => down # <<>> \/ PeerClosed(c))
  /\ up' = IF prog = "signal" /\ ~ flag[c] THEN up ELSE up \o Bytes(c, Message[prog][c])
  /\ child' = [child EXCEPT ![c] = IF prog \in Pairs THEN "read" ELSE "done"]
  /\ UNCHANGED <<prog, main, i, down, reply, got, glued, flag>>
ChildWrite(c) ==
  /\ child[c] = "write"
  /\ up' = IF PeerClosed(c) \/ (prog = "signal" /\ ~ flag[c])
           THEN up ELSE up \o Bytes(c, Message[prog][c])
  /\ child' = [child EXCEPT ![c] = IF prog \in Pairs /\ ~ PeerClosed(c) THEN "read" ELSE "done"]
  /\ UNCHANGED <<prog, main, i, down, reply, got, glued, flag>>

(* It reads an answer, or a part of one.                                    *)
ReadAnswer(c) ==
  /\ child[c] = "read"
  /\ down # <<>> \/ PeerClosed(c)
  /\ got' = [got EXCEPT ![c] = Upto(down, AnswerRead[prog])]
  /\ down' = From(down, AnswerRead[prog])
  /\ child' = [child EXCEPT ![c] = "done"]
  /\ UNCHANGED <<prog, main, i, up, reply, glued, flag>>

-----------------------------------------------------------------------------
(* The socket pair programs: read(buf, BUF_SIZE) takes all there is.        *)
ReadMessage ==
  /\ prog \in Pairs /\ main = "read" /\ i <= NChildren(prog)
  /\ up # <<>>
  /\ reply' = Head(up)
  /\ glued' = (glued \/ up # Bytes(Head(up), Len(up)))
  /\ up' = <<>>
  /\ main' = "answer"
  /\ UNCHANGED <<prog, i, child, down, got, flag>>

(* write(buf, sizeof(buf))                                                  *)
WriteAnswer ==
  /\ main = "answer"
  /\ down' = down \o Bytes(reply, Reply[prog])
  /\ i' = i + 1
  /\ main' = IF prog = "lockstep" THEN "fork" ELSE "read"
  /\ UNCHANGED <<prog, child, up, reply, got, glued, flag>>

(* socketpair.c: three answers are written; close and wait.                 *)
CloseSocket ==
  /\ prog = "race" /\ main = "read" /\ i > NChildren(prog)
  /\ main' = "wait"
  /\ UNCHANGED <<prog, i, child, up, down, reply, got, glued, flag>>

(* wait() once per child; the pipe programs then close their write end.     *)
Wait ==
  /\ main = "wait"
  /\ \A c \in Children : child[c] = "done"
  /\ main' = IF prog \in Pairs THEN "done" ELSE "drain"
  /\ UNCHANGED <<prog, i, child, up, down, reply, got, glued, flag>>

(* The pipe programs read as many bytes as each message has, in the order   *)
(* of the children; a read of the empty pipe returns 0.  pipe.c reads once  *)
(* more, for the terminating "" of its table.                               *)
Reads == NChildren(prog) + (IF prog = "pipe" THEN 1 ELSE 0)
Size(k) == IF k <= NChildren(prog) THEN Message[prog][k] ELSE 1

ReadPipe ==
  /\ main = "drain" /\ i <= Reads
  /\ up' = From(up, Size(i))
  /\ i' = i + 1
  /\ UNCHANGED <<prog, main, child, down, reply, got, glued, flag>>

Finish ==
  /\ main = "drain" /\ i > Reads
  /\ main' = "done"
  /\ UNCHANGED <<prog, i, child, up, down, reply, got, glued, flag>>

Parent == \/ Fork \/ ForkFails \/ Forked \/ ReadMessage \/ WriteAnswer \/ CloseSocket
          \/ Wait \/ ReadPipe \/ Finish
Child(c) == ChildWrite(c) \/ ReadAnswer(c)
Next == Parent \/ Sigint \/ \E c \in Children : Child(c)

-----------------------------------------------------------------------------
(* Properties.                                                              *)

TypeOK ==
  /\ prog \in DOMAIN Message
  /\ main \in {"fork", "read", "answer", "wait", "drain", "done", "failed"}
  /\ i \in 1 .. NChildren(prog) + 2
  /\ child \in [Children -> {"none", "write", "read", "done"}]
  /\ up \in Seq(Children) /\ down \in Seq(Children)
  /\ reply \in {0} \cup Children
  /\ got \in [Children -> Seq(Children)]
  /\ glued \in BOOLEAN
  /\ flag \in [{0} \cup Children -> BOOLEAN]

(* A parent that is done has read every message, whichever child wrote      *)
(* first and whether or not it wrote, and no two of them in one read.       *)
DoneIsDrained == main = "done" => ~ glued /\ up = <<>>

(* The parent ends.  In socketpair.c it ends unless one of its reads        *)
(* returned the messages of two children; it then waits for ever for a      *)
(* third message, and a child for an answer.                                *)
StreamsEnd == <>(ParentOver \/ glued) /\ []DoneIsDrained

(* main.c: a child reads 3 bytes of a 1024-byte answer, so all children get *)
(* their bytes from the first answer, the one to the first child.           *)
FirstAnswerServesAll ==
  prog = "lockstep" => \A c \in Children : \A k \in DOMAIN got[c] : got[c][k] = 1
=============================================================================
