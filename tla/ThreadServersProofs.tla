------------------------- MODULE ThreadServersProofs --------------------------
(***************************************************************************)
(* The two servers with a thread for each connection.  The buffer server   *)
(* implements a bounded queue, for any number of clients, any ring and any *)
(* number of requests, and leaves no semaphore set behind.  The letter     *)
(* server gives a letter to one client only and tells its clients the      *)
(* truth, for any number of clients, letters and connections.              *)
(***************************************************************************)
EXTENDS PcServerThreads, SemRingProofs, FiniteSetTheorems, SequenceTheorems,
        WellFoundedInduction

CONSTANT MaxConn
VARIABLES up, free, connfd, opened, peer, inbox, reply, fd, got, mine, index, told, owners

LS == INSTANCE LetterServer

N == ARR_SIZE

(* The ring and its positions, as the lemmas about rings take them.         *)
LEMMA RingIs ==
  /\ N \in Nat \ {0} /\ Slots = 0 .. N - 1 /\ 0 \in Slots
  /\ \A r \in [Slots -> 0 .. L] : r \in [0 .. N - 1 -> Nat]
<1>1. N \in Nat \ {0} /\ L \in Nat
  BY ThreadsAssumption DEF N
<1>2. Slots = 0 .. N - 1 /\ 0 \in Slots
  BY <1>1 DEF N, Slots
<1> QED
  BY <1>1, <1>2

-----------------------------------------------------------------------------
(* The inductive invariant.                                                 *)

Places == {"init", "setup", "test", "accept", "sleep", "remove", "exit", "exit0", "exit1", "failed"}
Calls == {"none", "backlog", "recv", "start", "slot", "move", "stop", "send", "sent", "closed"}
FTypes ==
  /\ main \in Places
  /\ sem \in [0 .. 2 -> Nat]
  /\ ring \in [Slots -> 0 .. L]
  /\ head \in Slots /\ tail \in Slots
  /\ th \in [Clients -> Calls]
  /\ req \in [Clients -> 0 .. L]
  /\ iter \in [Clients -> Nat]
  /\ letter \in [Clients -> Letters]
  /\ cl \in [Clients -> {"ready", "wait", "failed", "done"}]

(* A client without a connection has no thread.                             *)
FIdle == \A c \in Clients : cl[c] = "ready" => th[c] = "none"

(* Until the server listens nothing has happened, and if it never does.     *)
FStart ==
  main \in {"init", "setup", "failed"} => /\ \A c \in Clients : th[c] = "none"
                   /\ sem[SEM_FULL] = 0 /\ head = 0 /\ tail = 0

(* The letter a producing thread carries.                                   *)
FReq ==
  \A c \in Clients :
    IsProduce(c) /\ th[c] \in {"start", "slot", "move", "stop"} => req[c] \in Letters

(* c is between its two semop calls.                                        *)
In(c) == th[c] \in {"slot", "move", "stop"}

(* Where tail is while c is in, and what c has done to the ring.            *)
Held(c) ==
  /\ IsProduce(c) =>
       /\ th[c] \in {"slot", "move"} => tail = (head + sem[SEM_FULL]) % N
       /\ th[c] = "stop" => tail = (head + (sem[SEM_FULL] + 1)) % N
       /\ th[c] \in {"move", "stop"} => ring[(head + sem[SEM_FULL]) % N] = req[c]
  /\ ~ IsProduce(c) =>
       /\ th[c] \in {"slot", "move"} => tail = (head + (sem[SEM_FULL] + 1)) % N
       /\ th[c] = "stop" => tail = (head + sem[SEM_FULL]) % N
       /\ th[c] = "move" => req[c] = ring[head]

(* Nobody is in, or exactly one thread is; the free and the full slots then *)
(* add up to the ring, or to one less.                                      *)
FreeRing ==
  /\ sem[SEM_MUTEX] = 1 /\ \A c \in Clients : ~ In(c)
  /\ sem[SEM_EMPTY] + sem[SEM_FULL] = N
  /\ tail = (head + sem[SEM_FULL]) % N

HeldRing(c) ==
  /\ sem[SEM_MUTEX] = 0 /\ In(c) /\ \A d \in Clients : In(d) => d = c
  /\ sem[SEM_EMPTY] + sem[SEM_FULL] = N - 1
  /\ Held(c)

FRing == main \notin {"init", "setup", "failed"} => FreeRing \/ \E c \in Clients : HeldRing(c)

FInv == FTypes /\ FIdle /\ FStart /\ FReq /\ FRing

(* What Stored counts, in each of the three cases.                          *)
StoredLaw ==
  /\ (\A c \in Clients : ~ In(c)) => Stored = sem[SEM_FULL]
  /\ \A c \in Clients : HeldRing(c) =>
       Stored = IF ~ IsProduce(c) /\ th[c] \in {"slot", "move"}
                THEN sem[SEM_FULL] + 1 ELSE sem[SEM_FULL]

LEMMA StoredIs == FInv => StoredLaw
<1> SUFFICES ASSUME FInv PROVE StoredLaw
  OBVIOUS
<1> DEFINE S == {c \in Clients : ~ IsProduce(c) /\ th[c] \in {"slot", "move"}}
<1>1. sem[SEM_FULL] \in Nat
  BY DEF FInv, FTypes, SEM_FULL
<1>2. Stored = sem[SEM_FULL] + Cardinality(S)
  BY DEF Stored
<1>3. S = {} => Cardinality(S) = 0
  BY FS_EmptySet
<1>4. \A c \in Clients : S = {c} => Cardinality(S) = 1
  BY FS_Singleton
<1>5. (\A c \in Clients : ~ In(c)) => S = {}
  BY DEF In
<1>6. ASSUME NEW c \in Clients, HeldRing(c)
      PROVE  S = IF ~ IsProduce(c) /\ th[c] \in {"slot", "move"} THEN {c} ELSE {}
  BY <1>6 DEF HeldRing, In
<1> HIDE DEF S
<1> QED
  BY <1>1, <1>2, <1>3, <1>4, <1>5, <1>6 DEF StoredLaw

LEMMA StoredIsNext == FInv' => StoredLaw'
  BY StoredIs, PTL

LEMMA InitFInv == Init => FInv /\ Fifo!Init
<1> SUFFICES ASSUME Init PROVE FInv /\ Fifo!Init
  OBVIOUS
<1>1. FTypes
  BY ThreadsAssumption DEF Init, FTypes, Slots, Letters, Blank, Places, Calls
<1>2. FIdle /\ FStart /\ FReq /\ FRing
  BY DEF Init, FIdle, FStart, FReq, FRing, SEM_FULL
<1>3. FInv
  BY <1>1, <1>2 DEF FInv
<1>4. Stored = 0
  BY <1>3, StoredIs DEF StoredLaw, Init, In, SEM_FULL
<1>5. Buffer = Part(N, head, 0, ring)
  BY <1>4 DEF Buffer, Part, N
<1>6. Buffer = << >>
  <2>1. PartLaw(N, head, 0, ring)
    <3>1. ring \in [0 .. N - 1 -> Nat] /\ head \in 0 .. N - 1 /\ N \in Nat \ {0} /\ 0 \in 0 .. N
      BY <1>1, RingIs DEF FTypes
    <3> QED
      BY <3>1, PartSeq
  <2> QED
    BY <2>1, <1>5 DEF PartLaw
<1> QED
  BY <1>3, <1>6 DEF Init, Fifo!Init

(* A step that leaves the set, the ring and the threads between their two   *)
(* semop calls alone.                                                       *)
Quiet ==
  /\ UNCHANGED <<sem, ringVars>>
  /\ (main \in {"init", "setup", "failed"}) <=> (main' \in {"init", "setup", "failed"})
  /\ \A c \in Clients : In(c)' <=> In(c)
  /\ \A c \in Clients : In(c) => th'[c] = th[c] /\ iter'[c] = iter[c] /\ req'[c] = req[c]

LEMMA QuietRing == ASSUME FInv, Quiet PROVE FRing' /\ UNCHANGED <<Buffer, taken>>
<1> USE DEF FInv, Quiet
<1>1. \A c \in Clients : In(c) => (IsProduce(c)' <=> IsProduce(c))
  BY DEF IsProduce
<1>2. FreeRing => FreeRing'
  BY DEF FreeRing, ringVars
<1>3. \A c \in Clients : HeldRing(c) => HeldRing(c)'
  BY <1>1 DEF HeldRing, Held, In, ringVars
<1>4. FRing'
  BY <1>2, <1>3 DEF FRing
<1>5. Stored' = Stored
  <2>1. {c \in Clients : ~ IsProduce(c) /\ th[c] \in {"slot", "move"}}'
        = {c \in Clients : ~ IsProduce(c) /\ th[c] \in {"slot", "move"}}
    BY <1>1 DEF In
  <2> QED
    BY <2>1 DEF Stored
<1> QED
  BY <1>4, <1>5 DEF Buffer, ringVars

-----------------------------------------------------------------------------
(* The steps.                                                               *)

(* A step of the server or of a client that is not between two semop calls. *)
Aside ==
  \/ Startup \/ TestFlag \/ Accept \/ Awake \/ Remove \/ Exit \/ Sigint
  \/ \E c \in Clients : SigintThread(c) \/ Recv(c) \/ SemopFails(c) \/ Send(c) \/ Request(c) \/ Reply(c) \/ Lost(c)

LEMMA AsideStep == ASSUME FInv, Aside PROVE FInv' /\ UNCHANGED <<Buffer, taken>>
<1>1. CASE \/ Startup \/ TestFlag \/ Awake \/ Remove \/ Exit \/ Sigint
           \/ \E c \in Clients : (Waiting(c) /\ SigintThread(c)) \/ SemopFails(c) \/ Lost(c)
  <2>1. /\ UNCHANGED <<sem, ringVars, th, req, iter, letter>>
        /\ cl' \in [Clients -> {"ready", "wait", "failed", "done"}]
        /\ \A c \in Clients : cl'[c] = "ready" => cl[c] = "ready"
        /\ main \notin {"init", "setup", "failed"} => main' \notin {"init", "setup", "failed"}
        /\ main' \in Places
    BY <1>1 DEF Startup, TestFlag, Awake, Remove, Exit, Sigint, Handler, SigintThread, Waiting, At,
                SemopFails, Lost, clientVars, serverVars, FInv, FTypes, FStart, Places, Up, Handled
  <2>2. main \in {"init", "setup", "failed"} => main' \in {"init", "setup", "failed"}
    BY <1>1 DEF Startup, TestFlag, Awake, Remove, Exit, Sigint, Handler, SigintThread, Waiting, At,
                SemopFails, Lost, serverVars, FInv, FStart, Up
  <2>3. FTypes' /\ FIdle' /\ FStart' /\ FReq'
    BY <2>1, <2>2 DEF FInv, FTypes, FIdle, FStart, FReq, IsProduce, ringVars, Places, Calls
  <2>4. Quiet
    BY <2>1, <2>2 DEF Quiet, In
  <2> QED
    BY <2>3, <2>4, QuietRing DEF FInv
<1>2. CASE Accept
  <2>1. PICK c \in Clients : th[c] = "backlog" /\ th' = [th EXCEPT ![c] = "recv"]
    BY <1>2 DEF Accept, Goto
  <2>2. UNCHANGED <<sem, ringVars, req, iter, letter, cl>> /\ main = "accept" /\ main' = "test"
    BY <1>2 DEF Accept, clientVars
  <2>3. FTypes' /\ FIdle' /\ FStart' /\ FReq'
    BY <2>1, <2>2 DEF FInv, FTypes, FIdle, FStart, FReq, IsProduce, ringVars, Places, Calls
  <2>4. Quiet
    BY <2>1, <2>2 DEF Quiet, In, FInv, FTypes
  <2> QED
    BY <2>3, <2>4, QuietRing DEF FInv
<1>6. ASSUME NEW c \in Clients, ~ Waiting(c), SigintThread(c) PROVE FInv' /\ UNCHANGED <<Buffer, taken>>
  <2>1. /\ UNCHANGED <<sem, ringVars, req, iter, letter, cl>>
        /\ th[c] = "recv" /\ th' = [th EXCEPT ![c] = "closed"] /\ main' \in {main, "test", "remove"}
    BY <1>6 DEF SigintThread, At, Handler, Goto, clientVars
  <2>2. main \notin {"init", "setup", "failed"}
    BY <2>1 DEF FInv, FStart
  <2>3. FTypes' /\ FIdle' /\ FStart' /\ FReq'
    BY <2>1, <2>2 DEF FInv, FTypes, FIdle, FStart, FReq, IsProduce, ringVars, Places, Calls
  <2>4. Quiet
    BY <2>1, <2>2 DEF Quiet, In, FInv, FTypes
  <2> QED
    BY <2>3, <2>4, QuietRing DEF FInv
<1>3. ASSUME NEW c \in Clients, Recv(c) \/ Send(c) PROVE FInv' /\ UNCHANGED <<Buffer, taken>>
  <2>1. /\ UNCHANGED <<sem, ringVars, iter, letter, cl, main>>
        /\ \/ /\ th[c] = "recv" /\ th' = [th EXCEPT ![c] = "start"]
              /\ req' = [req EXCEPT ![c] = IF IsProduce(c) THEN letter[c] ELSE Blank]
           \/ /\ th[c] = "send" /\ th' = [th EXCEPT ![c] = "sent"]
              /\ req' = [req EXCEPT ![c] = Blank]
    BY <1>3 DEF Recv, Send, At, Goto, clientVars, serverVars
  <2>2. letter[c] \in Letters /\ letter[c] \in 0 .. L /\ Blank \in 0 .. L
    BY ThreadsAssumption DEF FInv, FTypes, Letters, Blank
  <2>3. FTypes'
    BY <2>1, <2>2 DEF FInv, FTypes, ringVars, Places, Calls
  <2>4. FIdle' /\ FStart' /\ FReq'
    BY <2>1, <2>2 DEF FInv, FTypes, FIdle, FStart, FReq, IsProduce, ringVars, Places, Calls
  <2>5. Quiet
    BY <2>1 DEF Quiet, In, FInv, FTypes
  <2> QED
    BY <2>3, <2>4, <2>5, QuietRing DEF FInv
<1>4. ASSUME NEW c \in Clients, Request(c) PROVE FInv' /\ UNCHANGED <<Buffer, taken>>
  <2>1. /\ UNCHANGED <<sem, ringVars, iter, letter, main, req>>
        /\ cl[c] = "ready"
        /\ \/ th' = th /\ cl' = [cl EXCEPT ![c] = "failed"]
           \/ th' = [th EXCEPT ![c] = "backlog"] /\ main \notin {"init", "setup", "failed"} /\ cl' = [cl EXCEPT ![c] = "wait"]
    BY <1>4 DEF Request, Goto, serverVars, Listening
  <2>2. th[c] = "none"
    BY <2>1 DEF FInv, FIdle
  <2>3. FTypes' /\ FIdle' /\ FStart' /\ FReq'
    BY <2>1, <2>2 DEF FInv, FTypes, FIdle, FStart, FReq, IsProduce, ringVars, Places, Calls
  <2>4. Quiet
    BY <2>1, <2>2 DEF Quiet, In, FInv, FTypes
  <2> QED
    BY <2>3, <2>4, QuietRing DEF FInv
<1>5. ASSUME NEW c \in Clients, Reply(c) PROVE FInv' /\ UNCHANGED <<Buffer, taken>>
  <2>1. /\ UNCHANGED <<sem, ringVars, main, req>>
        /\ th[c] \in {"sent", "closed"} /\ th' = [th EXCEPT ![c] = "none"]
        /\ iter' = [iter EXCEPT ![c] = @ + 1]
        /\ cl' = [cl EXCEPT ![c] = IF iter'[c] = WARMUP + ITER THEN "done" ELSE "ready"]
        /\ letter' = IF IsProduce(c) THEN [letter EXCEPT ![c] = (@ + 1) % L] ELSE letter
    BY <1>5 DEF Reply, Goto, serverVars
  <2>2. (letter[c] + 1) % L \in Letters
    BY ThreadsAssumption DEF FInv, FTypes, Letters
  <2>3. FTypes'
    BY <2>1, <2>2 DEF FInv, FTypes, ringVars, Places, Calls
  <2>4. FIdle' /\ FStart' /\ FReq'
    BY <2>1 DEF FInv, FTypes, FIdle, FStart, FReq, IsProduce, ringVars, Places, Calls
  <2>5. Quiet
    BY <2>1 DEF Quiet, In, FInv, FTypes
  <2> QED
    BY <2>3, <2>4, <2>5, QuietRing DEF FInv
<1> QED
  BY <1>1, <1>2, <1>3, <1>4, <1>5, <1>6 DEF Aside

(* The set exists: all slots are free, nobody is in.                        *)
LEMMA SetupStep == ASSUME FInv, Setup PROVE FInv' /\ UNCHANGED <<Buffer, taken>>
<1>1. /\ main = "setup" /\ main' \in {"test", "failed"}
      /\ UNCHANGED <<ring, head, tail, taken, th, req, cl, iter, letter>>
  BY DEF Setup, ringVars, clientVars
<1>2. sem' = [n \in 0 .. 2 |-> IF n = 0 THEN N ELSE IF n = 1 THEN 0 ELSE 1]
  BY DEF Setup, SEM_EMPTY, SEM_FULL, SEM_MUTEX, N
<1>3. sem' \in [0 .. 2 -> Nat] /\ sem'[0] = N /\ sem'[1] = 0 /\ sem'[2] = 1
  BY <1>2, ThreadsAssumption DEF N
<1>4. FTypes' /\ FIdle' /\ FStart' /\ FReq'
  BY <1>1, <1>3 DEF FInv, FTypes, FIdle, FStart, FReq, IsProduce, Places, Calls, SEM_FULL
<1>5. \A c \in Clients : ~ In(c) /\ ~ In(c)'
  BY <1>1 DEF FInv, FStart, In
<1>6. FreeRing'
  <2>1. 0 \in Slots /\ 0 \in 0 .. N /\ (0 + 0) % N = 0
    BY RingIs
  <2>2. head' = 0 /\ tail' = 0
    BY <1>1 DEF FInv, FStart
  <2> QED
    BY <2>1, <2>2, <1>3, <1>5, ThreadsAssumption DEF FreeRing, SEM_EMPTY, SEM_FULL, SEM_MUTEX, N
<1>7. FInv'
  BY <1>1, <1>4, <1>6 DEF FInv, FRing
<1>8. Stored' = Stored
  <2>1. {c \in Clients : ~ IsProduce(c) /\ th[c] \in {"slot", "move"}}'
        = {c \in Clients : ~ IsProduce(c) /\ th[c] \in {"slot", "move"}}
    BY <1>5 DEF In
  <2>2. sem'[SEM_FULL] = sem[SEM_FULL]
    BY <1>1, <1>3 DEF FInv, FStart, SEM_FULL
  <2> QED
    BY <2>1, <2>2 DEF Stored
<1> QED
  BY <1>1, <1>7, <1>8 DEF Buffer

(* The two semop calls: start_... takes the mutex and a unit, stop_...      *)
(* gives the mutex back with a unit of the other kind.                      *)
LEMMA Semops ==
  ASSUME NEW s \in [0 .. 2 -> Nat], NEW c \in Clients
  PROVE  LET from == IF IsProduce(c) THEN 0 ELSE 1
             to   == IF IsProduce(c) THEN 1 ELSE 0
         IN  /\ Start(c, s) # Blocked =>
                  /\ s[from] > 0 /\ s[2] > 0
                  /\ Start(c, s) = [s EXCEPT ![from] = @ - 1, ![2] = @ - 1]
             /\ Stop(c, s) = [s EXCEPT ![2] = @ + 1, ![to] = @ + 1]
<1> DEFINE from == IF IsProduce(c) THEN 0 ELSE 1
           to   == IF IsProduce(c) THEN 1 ELSE 0
<1>0. from \in 0 .. 2 /\ to \in 0 .. 2 /\ 2 \in 0 .. 2 /\ from # 2 /\ to # 2
  OBVIOUS
<1>1. /\ Start(c, s) = (s ## <<from, -1>> ## <<2, -1>>)
      /\ Stop(c, s) = (s ## <<2, 1>> ## <<to, 1>>)
  BY DEF Start, Stop, start_produce, start_consume, stop_produce, stop_consume, SEM_EMPTY,
         SEM_FULL, SEM_MUTEX
<1> HIDE DEF from, to
<1>2. ASSUME Start(c, s) # Blocked
      PROVE  s[from] > 0 /\ s[2] > 0 /\ Start(c, s) = [s EXCEPT ![from] = @ - 1, ![2] = @ - 1]
  <2>0. (s ## <<from, -1>>) = IF s[from] > 0 THEN [s EXCEPT ![from] = @ - 1] ELSE Blocked
    BY <1>0, Down
  <2>1. s[from] > 0
    BY <1>1, <1>2, <2>0, BlockedStays
  <2> DEFINE t == [s EXCEPT ![from] = @ - 1]
  <2>2. (s ## <<from, -1>>) = t
    BY <2>0, <2>1
  <2>3. t \in [0 .. 2 -> Nat] /\ t[2] = s[2]
    BY <1>0, <2>1
  <2>4. (t ## <<2, -1>>) = IF t[2] > 0 THEN [t EXCEPT ![2] = @ - 1] ELSE Blocked
    BY <1>0, <2>3, Down
  <2>5. t[2] > 0 /\ Start(c, s) = [t EXCEPT ![2] = @ - 1]
    BY <1>1, <1>2, <2>2, <2>4
  <2> QED
    BY <2>1, <2>3, <2>5
<1>3. Stop(c, s) = [s EXCEPT ![2] = @ + 1, ![to] = @ + 1]
  <2> DEFINE t == [s EXCEPT ![2] = @ + 1]
  <2>1. (s ## <<2, 1>>) = t
    BY <1>0, Add
  <2>2. t \in [0 .. 2 -> Nat]
    BY <1>0
  <2>3. (t ## <<to, 1>>) = [t EXCEPT ![to] = @ + 1]
    BY <1>0, <2>2, Add
  <2>4. Stop(c, s) = [t EXCEPT ![to] = @ + 1]
    BY <1>1, <2>1, <2>3
  <2> QED
    BY <2>4, <1>0, <2>2
<1> QED
  BY <1>2, <1>3 DEF from, to

(* The thread that is in is the holder.                                     *)
LEMMA Holder == ASSUME FInv, NEW c \in Clients, In(c) PROVE HeldRing(c) /\ main \notin {"init", "setup", "failed"}
<1>1. main \notin {"init", "setup", "failed"}
  BY DEF FInv, FStart, In
<1>2. ~ FreeRing
  BY DEF FreeRing
<1>3. PICK d \in Clients : HeldRing(d)
  BY <1>1, <1>2 DEF FInv, FRing
<1> QED
  BY <1>1, <1>3 DEF HeldRing

(* semop(start_...): the thread comes in; what is stored stays.             *)
LEMMA EnterStep == ASSUME FInv, NEW c \in Clients, Enter(c) PROVE FInv' /\ UNCHANGED <<Buffer, taken>>
<1> DEFINE from == IF IsProduce(c) THEN 0 ELSE 1
<1>1. /\ th[c] = "start" /\ th' = [th EXCEPT ![c] = "slot"]
      /\ Start(c, sem) # Blocked /\ sem' = Start(c, sem)
      /\ UNCHANGED <<main, ring, head, tail, taken, req, cl, iter, letter>>
  BY DEF Enter, At, Goto, serverVars, ringVars, clientVars
<1>2. sem \in [0 .. 2 -> Nat]
  BY DEF FInv, FTypes
<1>3. sem[from] > 0 /\ sem[2] > 0 /\ sem' = [sem EXCEPT ![from] = @ - 1, ![2] = @ - 1]
  BY <1>1, <1>2, Semops
<1>4. sem' \in [0 .. 2 -> Nat] /\ sem'[2] = sem[2] - 1 /\ sem[0] \in Nat /\ sem[1] \in Nat /\ sem[2] \in Nat
      /\ sem'[0] = (IF IsProduce(c) THEN sem[0] - 1 ELSE sem[0])
      /\ sem'[1] = (IF IsProduce(c) THEN sem[1] ELSE sem[1] - 1)
  BY <1>2, <1>3
<1>5. FTypes' /\ FIdle' /\ FStart' /\ FReq'
  BY <1>1, <1>4 DEF FInv, FTypes, FIdle, FStart, FReq, IsProduce, Places, Calls
<1>6. FreeRing /\ main \notin {"init", "setup", "failed"}
  BY <1>1, <1>3, <1>4 DEF FInv, FStart, FRing, HeldRing, SEM_MUTEX
<1>7. th'[c] = "slot" /\ (\A d \in Clients \ {c} : ~ In(d) /\ ~ In(d)') /\ ~ In(c)
  BY <1>1, <1>6 DEF FreeRing, In, FInv, FTypes
<1>8. HeldRing(c)'
  <2>1. sem'[2] = 0 /\ sem'[0] + sem'[1] = N - 1
    BY <1>3, <1>4, <1>6, ThreadsAssumption DEF FreeRing, SEM_EMPTY, SEM_FULL, SEM_MUTEX, N
  <2>2. IsProduce(c)' <=> IsProduce(c)
    BY <1>1 DEF IsProduce
  <2>3. ~ IsProduce(c) => sem'[1] + 1 = sem[1]
    BY <1>3, <1>4
  <2>4. Held(c)'
    BY <2>2, <2>3, <1>1, <1>4, <1>6, <1>7 DEF Held, FreeRing, SEM_FULL
  <2> QED
    BY <2>1, <2>4, <1>7 DEF HeldRing, In, SEM_EMPTY, SEM_FULL, SEM_MUTEX
<1>9. FInv'
  BY <1>1, <1>5, <1>8 DEF FInv, FRing
<1>10. Stored = sem[1]
  BY <1>6, StoredIs DEF StoredLaw, FreeRing, SEM_FULL
<1>11. Stored' = IF IsProduce(c) THEN sem'[1] ELSE sem'[1] + 1
  <2>1. (~ IsProduce(c) /\ th[c] \in {"slot", "move"})' <=> ~ IsProduce(c)
    BY <1>1, <1>7 DEF IsProduce
  <2> QED
    BY <2>1, <1>8, <1>9, StoredIsNext DEF StoredLaw, SEM_FULL
<1> QED
  BY <1>1, <1>3, <1>4, <1>9, <1>10, <1>11 DEF Buffer

(* Successor goes one step around the ring.                                 *)
LEMMA SuccessorIs ==
  ASSUME NEW h \in Slots, NEW k \in 0 .. N - 1
  PROVE  /\ Successor(h) \in Slots /\ Successor(h) = (h + 1) % N
         /\ Successor((h + k) % N) = (h + (k + 1)) % N
         /\ (Successor(h) + k) % N = (h + (k + 1)) % N
<1>1. N \in Nat \ {0} /\ h \in 0 .. N - 1 /\ Slots = 0 .. N - 1
  BY ThreadsAssumption DEF N, Slots
<1>2. /\ (h + 1) % N \in 0 .. N - 1
      /\ (((h + k) % N) + 1) % N = (h + (k + 1)) % N
      /\ (((h + 1) % N) + k) % N = (h + (k + 1)) % N
  BY <1>1, OneFurther
<1> QED
  BY <1>1, <1>2 DEF Successor, N

LEMMA HolderCounts ==
  ASSUME FInv, NEW c \in Clients, In(c)
  PROVE  /\ sem[0] \in Nat /\ sem[1] \in 0 .. N - 1 /\ sem[2] = 0 /\ sem[0] + sem[1] = N - 1
         /\ N \in Nat \ {0}
<1>1. sem[0] \in Nat /\ sem[1] \in Nat /\ N \in Nat \ {0}
  BY ThreadsAssumption DEF FInv, FTypes, N
<1>2. sem[0] + sem[1] = N - 1 /\ sem[2] = 0
  BY Holder DEF HeldRing, SEM_EMPTY, SEM_FULL, SEM_MUTEX
<1> QED
  BY <1>1, <1>2

(* Inside: one step of the holder that ends inside.                         *)
LEMMA InsideFrame ==
  ASSUME FInv, NEW c \in Clients, In(c), In(c)', UNCHANGED <<main, sem, cl, iter, letter>>,
         NEW l \in {"move", "stop"}, th' = [th EXCEPT ![c] = l],
         FTypes', req'[c] \in 0 .. L, IsProduce(c) => req'[c] = req[c],
         \A d \in Clients \ {c} : req'[d] = req[d], Held(c)'
  PROVE  /\ FInv' /\ HeldRing(c)'
         /\ Stored = IF ~ IsProduce(c) /\ th[c] \in {"slot", "move"} THEN sem[1] + 1 ELSE sem[1]
         /\ Stored' = IF ~ IsProduce(c) /\ l = "move" THEN sem[1] + 1 ELSE sem[1]
<1>1. HeldRing(c) /\ main \notin {"init", "setup", "failed"}
  BY Holder
<1>2. th'[c] = l /\ \A d \in Clients \ {c} : th'[d] = th[d]
  BY DEF FInv, FTypes
<1>3. FIdle' /\ FStart' /\ FReq'
  BY <1>1, <1>2 DEF FInv, FIdle, FStart, FReq, IsProduce, In
<1>4. HeldRing(c)'
  BY <1>1, <1>2 DEF HeldRing, In
<1>5. FInv'
  BY <1>1, <1>3, <1>4 DEF FInv, FRing
<1>6. Stored = IF ~ IsProduce(c) /\ th[c] \in {"slot", "move"} THEN sem[1] + 1 ELSE sem[1]
  BY <1>1, StoredIs DEF StoredLaw, SEM_FULL
<1>7. Stored' = IF ~ IsProduce(c) /\ l = "move" THEN sem[1] + 1 ELSE sem[1]
  <2>1. (~ IsProduce(c) /\ th[c] \in {"slot", "move"})' <=> (~ IsProduce(c) /\ l = "move")
    BY <1>2 DEF IsProduce
  <2> QED
    BY <2>1, <1>4, <1>5, StoredIsNext DEF StoredLaw, SEM_FULL
<1> QED
  BY <1>4, <1>5, <1>6, <1>7

(* ring[tail] = req.letter writes a slot that is not in the buffer.         *)
LEMMA SlotStep == ASSUME FInv, NEW c \in Clients, Slot(c) PROVE FInv' /\ UNCHANGED <<Buffer, taken>>
<1>1. /\ th[c] = "slot" /\ th' = [th EXCEPT ![c] = "move"]
      /\ UNCHANGED <<main, sem, head, tail, taken, cl, iter, letter>>
      /\ IF IsProduce(c) THEN ring' = [ring EXCEPT ![tail] = req[c]] /\ req' = req
                         ELSE req' = [req EXCEPT ![c] = ring[head]] /\ ring' = ring
  BY DEF Slot, At, Goto, serverVars, clientVars
<1>2. In(c) /\ In(c)' /\ th'[c] = "move"
  BY <1>1 DEF In, FInv, FTypes
<1>3. HeldRing(c) /\ sem[1] \in 0 .. N - 1 /\ N \in Nat \ {0}
  BY <1>2, Holder, HolderCounts
<1>4. FTypes'
  BY <1>1 DEF FInv, FTypes, Calls
<1>5. /\ req'[c] \in 0 .. L /\ (IsProduce(c) => req'[c] = req[c])
      /\ \A d \in Clients \ {c} : req'[d] = req[d]
  BY <1>1 DEF FInv, FTypes
<1>6. Held(c)'
  <2>1. IsProduce(c)' <=> IsProduce(c)
    BY <1>1 DEF IsProduce
  <2>2. IsProduce(c) => tail = (head + sem[1]) % N /\ ring'[tail] = req[c]
    BY <1>1, <1>3 DEF HeldRing, Held, SEM_FULL, FInv, FTypes
  <2>3. ~ IsProduce(c) => tail = (head + (sem[1] + 1)) % N /\ req'[c] = ring'[head]
    BY <1>1, <1>3 DEF HeldRing, Held, SEM_FULL, FInv, FTypes
  <2> QED
    BY <2>1, <2>2, <2>3, <1>1, <1>2 DEF Held, SEM_FULL
<1>7. FInv' /\ Stored = (IF IsProduce(c) THEN sem[1] ELSE sem[1] + 1) /\ Stored' = Stored
  <2>1. UNCHANGED <<main, sem, cl, iter, letter>> /\ th' = [th EXCEPT ![c] = "move"]
    BY <1>1
  <2>2. /\ FInv' /\ HeldRing(c)'
        /\ Stored = IF ~ IsProduce(c) /\ th[c] \in {"slot", "move"} THEN sem[1] + 1 ELSE sem[1]
        /\ Stored' = IF ~ IsProduce(c) /\ "move" = "move" THEN sem[1] + 1 ELSE sem[1]
    BY <2>1, <1>2, <1>4, <1>5, <1>6, InsideFrame
  <2> QED
    BY <2>2, <1>1
<1>8. CASE IsProduce(c)
  <2>1. ring' = [ring EXCEPT ![(head + sem[1]) % N] = req[c]]
    BY <1>1, <1>3, <1>8 DEF HeldRing, Held, SEM_FULL
  <2>2. Part(N, head, sem[1], ring') = Part(N, head, sem[1], ring)
    <3>1. ring \in [0 .. N - 1 -> Nat] /\ ring' \in [0 .. N - 1 -> Nat] /\ head \in 0 .. N - 1
      BY <1>7, RingIs DEF FInv, FTypes
    <3>2. \A j \in 0 .. N - 1 : j # (head + sem[1]) % N => ring'[j] = ring[j]
      BY <2>1, <3>1
    <3> QED
      BY ZenonT(60), <3>1, <3>2, <1>3, PartStore
  <2>3. Buffer = Part(N, head, sem[1], ring) /\ Buffer' = Part(N, head, sem[1], ring')
    BY <1>1, <1>7, <1>8 DEF Buffer, Part, N
  <2> QED
    BY <2>2, <2>3, <1>1, <1>7
<1>9. CASE ~ IsProduce(c)
  BY <1>1, <1>7, <1>9 DEF Buffer
<1> QED
  BY <1>8, <1>9

(* tail moves: nothing is in the buffer yet.  head moves: the oldest letter *)
(* has been handed out.                                                     *)
LEMMA MoveStep ==
  ASSUME FInv, NEW c \in Clients, Move(c)
  PROVE  FInv' /\ (Fifo!Get \/ UNCHANGED <<Buffer, taken>>)
<1>1. /\ th[c] = "move" /\ th' = [th EXCEPT ![c] = "stop"]
      /\ UNCHANGED <<main, sem, ring, req, cl, iter, letter>>
      /\ IF IsProduce(c) THEN tail' = Successor(tail) /\ UNCHANGED <<head, taken>>
                         ELSE head' = Successor(head) /\ taken' = req[c] /\ tail' = tail
  BY DEF Move, At, Goto, serverVars, clientVars
<1>2. In(c) /\ In(c)' /\ th'[c] = "stop"
  BY <1>1 DEF In, FInv, FTypes
<1>3. HeldRing(c) /\ sem[1] \in 0 .. N - 1 /\ N \in Nat \ {0}
  BY <1>2, Holder, HolderCounts
<1>4. head \in Slots /\ tail \in Slots /\ ring \in [Slots -> 0 .. L] /\ 0 \in 0 .. N - 1
  BY <1>3 DEF FInv, FTypes
<1>5. FTypes'
  <2>1. Successor(head) \in Slots /\ Successor(tail) \in Slots
    BY <1>4, SuccessorIs
  <2> QED
    BY <2>1, <1>1 DEF FInv, FTypes, Calls
<1>6. req'[c] \in 0 .. L
  BY <1>1 DEF FInv, FTypes
<1>7. Held(c)'
  <2>1. IsProduce(c)' <=> IsProduce(c)
    BY <1>1 DEF IsProduce
  <2>2. /\ Successor((head + sem[1]) % N) = (head + (sem[1] + 1)) % N
        /\ (Successor(head) + sem[1]) % N = (head + (sem[1] + 1)) % N
    BY <1>3, <1>4, SuccessorIs
  <2>3. IsProduce(c) => tail' = (head' + (sem'[1] + 1)) % N /\ ring'[(head' + sem'[1]) % N] = req'[c]
    BY <2>2, <1>1, <1>3 DEF HeldRing, Held, SEM_FULL
  <2>4. ~ IsProduce(c) => tail' = (head' + sem'[1]) % N
    BY <2>2, <1>1, <1>3 DEF HeldRing, Held, SEM_FULL
  <2> QED
    BY <2>1, <2>3, <2>4, <1>2 DEF Held, SEM_FULL
<1>8. FInv' /\ Stored = (IF IsProduce(c) THEN sem[1] ELSE sem[1] + 1) /\ Stored' = sem[1]
  BY <1>1, <1>2, <1>5, <1>6, <1>7, InsideFrame
<1>9. CASE IsProduce(c)
  BY <1>1, <1>8, <1>9 DEF Buffer
<1>10. CASE ~ IsProduce(c)
  <2>1. Buffer = Part(N, head, sem[1] + 1, ring) /\ Buffer' = Part(N, Successor(head), sem[1], ring)
    BY <1>1, <1>8, <1>10 DEF Buffer, Part, N
  <2>2. sem[1] + 1 \in 1 .. N /\ (sem[1] + 1) - 1 = sem[1]
    BY <1>3
  <2>3. Buffer # << >> /\ Head(Buffer) = ring[head] /\ Buffer' = Tail(Buffer)
    <3>1. ring \in [0 .. N - 1 -> Nat] /\ head \in 0 .. N - 1 /\ Successor(head) = (head + 1) % N
      BY <1>3, <1>4, RingIs, SuccessorIs
    <3>2. /\ Part(N, head, sem[1] + 1, ring) # << >>
          /\ Head(Part(N, head, sem[1] + 1, ring)) = ring[head]
          /\ Part(N, (head + 1) % N, (sem[1] + 1) - 1, ring) = Tail(Part(N, head, sem[1] + 1, ring))
      BY <3>1, <2>2, <1>3, PartTail
    <3> QED
      BY <3>1, <3>2, <2>1, <2>2
  <2>4. taken' = ring[head]
    BY <1>1, <1>3, <1>10 DEF HeldRing, Held
  <2> QED
    BY <2>3, <2>4, <1>8 DEF Fifo!Get
<1> QED
  BY <1>8, <1>9, <1>10

(* semop(stop_...): the letter stored becomes the last of the buffer; the   *)
(* slot of a letter taken was given up before.                              *)
LEMMA LeaveStep ==
  ASSUME FInv, NEW c \in Clients, Leave(c)
  PROVE  FInv' /\ (Fifo!Put \/ UNCHANGED <<Buffer, taken>>)
<1> DEFINE to == IF IsProduce(c) THEN 1 ELSE 0
<1>1. /\ th[c] = "stop" /\ th' = [th EXCEPT ![c] = "send"] /\ sem' = Stop(c, sem)
      /\ UNCHANGED <<main, ring, head, tail, taken, req, cl, iter, letter>>
  BY DEF Leave, At, Goto, serverVars, ringVars, clientVars
<1>2. In(c) /\ th'[c] = "send" /\ ~ In(c)'
  BY <1>1 DEF In, FInv, FTypes
<1>3. HeldRing(c) /\ main \notin {"init", "setup", "failed"}
  BY <1>2, Holder
<1>4. /\ sem[0] \in Nat /\ sem[1] \in 0 .. N - 1 /\ sem[2] = 0 /\ sem[0] + sem[1] = N - 1
      /\ N \in Nat \ {0} /\ sem \in [0 .. 2 -> Nat]
  BY <1>2, HolderCounts DEF FInv, FTypes
<1>5. sem' = [sem EXCEPT ![2] = @ + 1, ![to] = @ + 1]
  BY <1>1, <1>4, Semops
<1>6. /\ sem' \in [0 .. 2 -> Nat] /\ sem'[2] = 1
      /\ sem'[0] = (IF IsProduce(c) THEN sem[0] ELSE sem[0] + 1)
      /\ sem'[1] = (IF IsProduce(c) THEN sem[1] + 1 ELSE sem[1])
  BY <1>4, <1>5
<1>7. FTypes' /\ FIdle' /\ FStart' /\ FReq'
  BY <1>1, <1>3, <1>6 DEF FInv, FTypes, FIdle, FStart, FReq, IsProduce, Places, Calls
<1>8. \A d \in Clients : ~ In(d)'
  BY <1>1, <1>2, <1>3 DEF HeldRing, In, FInv, FTypes
<1>9. FreeRing'
  <2>1. sem'[0] + sem'[1] = N
    BY <1>4, <1>6
  <2>2. tail' = (head' + sem'[1]) % N
    BY <1>1, <1>3, <1>6 DEF HeldRing, Held, SEM_FULL
  <2> QED
    BY <2>1, <2>2, <1>6, <1>8 DEF FreeRing, SEM_EMPTY, SEM_FULL, SEM_MUTEX
<1>10. FInv'
  BY <1>7, <1>9 DEF FInv, FRing
<1>11. Stored = sem[1] /\ Stored' = sem'[1]
  BY <1>1, <1>3, <1>8, <1>10, StoredIs, StoredIsNext DEF StoredLaw, SEM_FULL
<1>12. CASE IsProduce(c)
  <2>1. ring[(head + sem[1]) % N] = req[c] /\ req[c] \in Letters
    BY <1>1, <1>3, <1>12 DEF HeldRing, Held, SEM_FULL, FInv, FReq
  <2>2. Buffer = Part(N, head, sem[1], ring) /\ Buffer' = Part(N, head, sem[1] + 1, ring)
    BY <1>1, <1>6, <1>11, <1>12 DEF Buffer, Part, N
  <2>3. head \in Slots /\ ring \in [Slots -> 0 .. L] /\ sem[1] \in 0 .. N
    BY <1>4 DEF FInv, FTypes
  <2>4. Buffer' = Append(Buffer, req[c])
    <3>1. ring \in [0 .. N - 1 -> Nat] /\ head \in 0 .. N - 1
      BY <2>3, RingIs
    <3>2. Part(N, head, sem[1] + 1, ring)
            = Append(Part(N, head, sem[1], ring), ring[(head + sem[1]) % N])
      BY <3>1, <1>4, PartAppend
    <3> QED
      BY <3>2, <2>1, <2>2
  <2>5. Len(Buffer) < ARR_SIZE
    <3>1. PartLaw(N, head, sem[1], ring)
      BY <2>3, RingIs, PartSeq
    <3> QED
      BY <3>1, <2>2, <1>4 DEF PartLaw, N
  <2> QED
    BY <2>1, <2>4, <2>5, <1>1, <1>10 DEF Fifo!Put
<1>13. CASE ~ IsProduce(c)
  BY <1>1, <1>6, <1>10, <1>11, <1>13 DEF Buffer
<1> QED
  BY <1>12, <1>13

LEMMA NextFInv == FInv /\ [Next]_vars => FInv' /\ [Fifo!Next]_(Fifo!vars)
<1> SUFFICES ASSUME FInv, [Next]_vars PROVE FInv' /\ [Fifo!Next]_(Fifo!vars)
  OBVIOUS
<1>1. CASE UNCHANGED vars
  <2>1. UNCHANGED <<serverVars, sem, ringVars, th, req, clientVars>>
    BY <1>1 DEF vars
  <2>2. FTypes' /\ FIdle' /\ FStart' /\ FReq'
    BY <2>1 DEF FInv, FTypes, FIdle, FStart, FReq, IsProduce, serverVars, ringVars, clientVars
  <2>3. Quiet
    BY <2>1 DEF Quiet, In, serverVars, clientVars
  <2> QED
    BY <2>2, <2>3, QuietRing DEF FInv, Fifo!vars
<1>2. CASE Aside \/ Setup
  BY <1>2, AsideStep, SetupStep DEF Fifo!vars
<1>3. ASSUME NEW c \in Clients, Enter(c) \/ Slot(c) \/ Move(c) \/ Leave(c)
      PROVE  FInv' /\ [Fifo!Next]_(Fifo!vars)
  BY <1>3, EnterStep, SlotStep, MoveStep, LeaveStep DEF Fifo!vars, Fifo!Next
<1> QED
  BY <1>1, <1>2, <1>3 DEF Next, Main, Thread, Client, Terminating, Aside

(* The threaded server is a bounded first-in first-out buffer: every step   *)
(* of the main thread, a worker thread or a client puts a letter at the end *)
(* of the buffer, takes the first one, or leaves the buffer alone.          *)
THEOREM ThreadsImplementFifo == Spec => ImplementsFifo
<1>1. Init => FInv /\ Fifo!Init
  BY InitFInv
<1>2. FInv /\ [Next]_vars => FInv' /\ [Fifo!Next]_(Fifo!vars)
  BY NextFInv
<1> QED
  BY <1>1, <1>2, PTL DEF Spec, Fifo!Spec, ImplementsFifo

-----------------------------------------------------------------------------
(* The semaphore set.                                                       *)

(* A thread ends the process when the set is gone, or while it waits in     *)
(* semop; what is then left does not change any more.                       *)
SetInv ==
  /\ FInv
  /\ main \in {"exit", "exit0"} => semset = "removed"
  /\ main = "exit1" => semset = "removed" \/ \E c \in Clients : Waiting(c)

(* A client's step after the end is none of the business of a thread that   *)
(* waited.                                                                  *)
LEMMA WaitingStays ==
  ASSUME FInv, NEW c \in Clients, Client(c), NEW d \in Clients, Waiting(d), main = "exit1"
  PROVE  Waiting(d)'
<1>1. th[d] = "start" /\ th \in [Clients -> Calls] /\ iter \in [Clients -> Nat]
  BY DEF Waiting, FInv, FTypes
<1>2. sem' = sem /\ th'[d] = th[d] /\ iter'[d] = iter[d]
  BY <1>1 DEF Client, Request, Reply, Lost, Listening, Goto
<1> QED
  BY <1>1, <1>2 DEF Waiting, Start, IsProduce

(* A server that has started leaves no semaphore set behind, whoever ends   *)
(* the process and however many SIGINTs it took, unless a thread waits in   *)
(* semop when it ends.                                                      *)
THEOREM SetIsRemoved == Spec => []SetRemovedAtExit
<1>1. Init => SetInv
  BY InitFInv DEF Init, SetInv
<1>2. SetInv /\ [Next]_vars => SetInv'
  <2> SUFFICES ASSUME SetInv, [Next]_vars PROVE SetInv'
    OBVIOUS
  <2>0. FInv /\ FInv'
    BY NextFInv DEF SetInv
  <2>1. CASE Main \/ Sigint
    BY <2>0, <2>1 DEF SetInv, Main, Startup, Setup, TestFlag, Accept, Awake, Remove, Exit, Sigint,
                      Handler, Handled, Up
  <2>2. ASSUME NEW c \in Clients, Thread(c) PROVE SetInv'
    BY <2>0, <2>2 DEF SetInv, Thread, Recv, Enter, Slot, Move, Leave, SemopFails, Send, At, Up, serverVars
  <2>3. ASSUME NEW c \in Clients, SigintThread(c) PROVE SetInv'
    <3>1. CASE At(c, "recv") /\ Handler /\ UNCHANGED semset
      BY <2>0, <3>1 DEF SetInv, Handler, Handled, Up
    <3>2. CASE Waiting(c) /\ main' = "exit1" /\ UNCHANGED <<sem, th, iter>>
      <4>1. Waiting(c)'
        BY <3>2 DEF Waiting, Start, IsProduce
      <4> QED
        BY <2>0, <3>2, <4>1 DEF SetInv
    <3> QED
      BY <2>3, <3>1, <3>2 DEF SigintThread, clientVars
  <2>4. ASSUME NEW c \in Clients, Client(c) PROVE SetInv'
    <3>1. UNCHANGED <<main, semset>>
      BY <2>4 DEF Client, Request, Reply, Lost, serverVars
    <3> QED
      BY <2>0, <2>4, <3>1, WaitingStays DEF SetInv
  <2>5. CASE UNCHANGED vars
    <3>1. UNCHANGED <<main, semset, sem, th, iter>>
      BY <2>5 DEF vars, serverVars, clientVars
    <3>2. \A c \in Clients : Waiting(c) => Waiting(c)'
      BY <3>1 DEF Waiting, Start, IsProduce
    <3> QED
      BY <2>0, <3>1, <3>2 DEF SetInv
  <2> QED
    BY <2>1, <2>2, <2>3, <2>4, <2>5 DEF Next, Terminating
<1>3. SetInv => SetRemovedAtExit
  BY DEF SetInv, SetRemovedAtExit, Up
<1> QED
  BY <1>1, <1>2, <1>3, PTL DEF Spec

-----------------------------------------------------------------------------
(* No gridlock.                                                             *)

(* The letters client c has put in and not taken out, after k requests and  *)
(* now: SEM_FULL counts a letter from stop_produce to start_consume.        *)
Base(k) == IF k < WARMUP THEN k ELSE WARMUP + ((k - WARMUP) % 2)
Owes(c) ==
  CASE IsProduce(c) /\ th[c] \in {"send", "sent"} -> Base(iter[c]) + 1
    [] ~ IsProduce(c) /\ (In(c) \/ th[c] \in {"send", "sent"}) -> Base(iter[c]) - 1
    [] OTHER -> Base(iter[c])

(* Those letters, one pair for each, so that they can be counted as a set.  *)
Pairs == Clients \X (1 .. WARMUP + 1)
Owed == {p \in Pairs : p[2] <= Owes(p[1])}
GCount == sem[SEM_FULL] = Cardinality(Owed)

(* While nobody has stopped the server no thread gives up its connection.   *)
GOpen == \A c \in Clients : th[c] # "closed"

(* While nobody has stopped the server, a client that is done made all its  *)
(* requests, and one that failed came before the server and made none.      *)
GEnds ==
  flag /\ main # "failed" =>
    \A c \in Clients : /\ cl[c] = "done" => iter[c] = WARMUP + ITER /\ th[c] = "none"
                       /\ cl[c] = "failed" => iter[c] = 0 /\ th[c] = "none"

GServer ==
  /\ main \in {"init", "setup"} => \A c \in Clients : iter[c] = 0
  /\ flag => \/ main \in {"init", "setup", "test", "accept"} /\ semset # "removed"
             \/ main = "failed" /\ \A c \in Clients : th[c] = "none"

GInv == FInv /\ (flag => GCount /\ GOpen) /\ GEnds /\ GServer

(* What a client owes before and after a request of either kind.            *)
LEMMA Bases ==
  ASSUME FInv, NEW c \in Clients
  PROVE  LET k == iter[c] IN
         /\ k \in Nat /\ Base(k) \in 0 .. WARMUP + 1
         /\ IsProduce(c) => Base(k) <= WARMUP /\ Base(k + 1) = Base(k) + 1
         /\ ~ IsProduce(c) => Base(k) = WARMUP + 1 /\ Base(k + 1) = Base(k) - 1
<1> DEFINE k == iter[c]
<1>0. k \in Nat /\ WARMUP \in Nat
  BY ThreadsAssumption DEF FInv, FTypes
<1>1. IsProduce(c) <=> k < WARMUP \/ (k - WARMUP) % 2 = 0
  BY DEF IsProduce
<1> HIDE DEF k
<1>2. CASE k < WARMUP
  BY <1>0, <1>1, <1>2 DEF Base, k
<1>3. CASE k >= WARMUP
  <2>1. PICK m \in Nat : k = WARMUP + m /\ k - WARMUP = m /\ (k + 1) - WARMUP = m + 1
    BY <1>0, <1>3
  <2>2. ~ (k < WARMUP) /\ ~ (k + 1 < WARMUP)
    BY <1>0, <1>3
  <2>3. Base(k) = WARMUP + (m % 2) /\ Base(k + 1) = WARMUP + ((m + 1) % 2)
    BY <2>1, <2>2 DEF Base
  <2>4. \/ m % 2 = 0 /\ (m + 1) % 2 = 1
        \/ m % 2 = 1 /\ (m + 1) % 2 = 0
    OBVIOUS
  <2>5. IsProduce(c) <=> m % 2 = 0
    BY <1>1, <2>1, <2>2
  <2> QED
    BY <1>0, <2>3, <2>4, <2>5 DEF k
<1> QED
  BY <1>0, <1>2, <1>3

(* Owed is a finite set; it grows or shrinks by one with what a client      *)
(* owes.                                                                    *)
OwesLaw == \A c \in Clients : Owes(c) \in 0 .. WARMUP + 1

LEMMA OwesIs == FInv => OwesLaw
<1> SUFFICES ASSUME FInv, NEW c \in Clients PROVE Owes(c) \in 0 .. WARMUP + 1
  BY DEF OwesLaw
<1>1. Base(iter[c]) \in 0 .. WARMUP + 1 /\ WARMUP \in Nat
  BY Bases, ThreadsAssumption
<1>2. IsProduce(c) => Base(iter[c]) + 1 \in 0 .. WARMUP + 1
  BY <1>1, Bases
<1>3. ~ IsProduce(c) => Base(iter[c]) - 1 \in 0 .. WARMUP + 1
  BY <1>1, Bases
<1> QED
  BY <1>1, <1>2, <1>3 DEF Owes

LEMMA OwesIsNext == FInv' => OwesLaw'
  BY OwesIs, PTL

LEMMA OwedFinite == IsFiniteSet(Pairs) /\ IsFiniteSet(Owed) /\ Cardinality(Owed) \in Nat
<1>1. IsFiniteSet(1 .. WARMUP + 1)
  BY ThreadsAssumption, FS_Interval
<1>2. IsFiniteSet(Pairs)
  BY <1>1, ThreadsAssumption, FS_Product DEF Pairs
<1>3. IsFiniteSet(Owed)
  BY <1>2, FS_Subset DEF Owed
<1> QED
  BY <1>2, <1>3, FS_CardinalityType

LEMMA OwedSame ==
  ASSUME \A c \in Clients : Owes(c)' = Owes(c), sem'[SEM_FULL] = sem[SEM_FULL], GCount
  PROVE  GCount'
<1>1. Owed' = Owed
  BY DEF Owed, Pairs
<1> QED
  BY <1>1 DEF GCount

LEMMA OwedMoves ==
  ASSUME FInv, FInv', GCount, NEW c \in Clients,
         \A d \in Clients : d # c => Owes(d)' = Owes(d),
         \/ Owes(c)' = Owes(c) + 1 /\ sem'[SEM_FULL] = sem[SEM_FULL] + 1
         \/ Owes(c)' = Owes(c) - 1 /\ sem'[SEM_FULL] = sem[SEM_FULL] - 1
  PROVE  GCount'
<1>0. /\ Owes(c) \in 0 .. WARMUP + 1 /\ Owes(c)' \in 0 .. WARMUP + 1 /\ WARMUP \in Nat
      /\ Pairs' = Pairs
  BY OwesIs, OwesIsNext, ThreadsAssumption DEF OwesLaw, Pairs
<1>1. PICK o \in 0 .. WARMUP + 1 : o = Owes(c)
  BY <1>0
<1>2. PICK q \in 0 .. WARMUP + 1 : q = Owes(c)'
  BY <1>0
<1>3. \A p \in Pairs : /\ p[1] \in Clients /\ p[2] \in 1 .. WARMUP + 1 /\ p = <<p[1], p[2]>>
                       /\ p[1] # c => (p \in Owed' <=> p \in Owed)
                       /\ p[1] = c => (p \in Owed <=> p[2] <= o) /\ (p \in Owed' <=> p[2] <= q)
  BY <1>0, <1>1, <1>2 DEF Owed, Pairs
<1>4. CASE q = o + 1 /\ sem'[SEM_FULL] = sem[SEM_FULL] + 1
  <2>1. <<c, q>> \in Pairs /\ <<c, q>> \notin Owed
    BY <1>0, <1>1, <1>2, <1>4 DEF Owed, Pairs
  <2>2. Owed' = Owed \cup {<<c, q>>}
    <3>1. Owed \subseteq Pairs /\ Owed' \subseteq Pairs
      BY <1>0 DEF Owed
    <3>2. ASSUME NEW p \in Pairs PROVE p \in Owed' <=> p \in Owed \/ p = <<c, q>>
      BY <1>0, <1>3, <1>4
    <3> QED
      BY <2>1, <3>1, <3>2
  <2>3. Cardinality(Owed') = Cardinality(Owed) + 1
    BY <2>1, <2>2, OwedFinite, FS_AddElement
  <2> QED
    BY <1>4, <2>3 DEF GCount
<1>5. CASE q = o - 1 /\ sem'[SEM_FULL] = sem[SEM_FULL] - 1
  <2>1. <<c, o>> \in Pairs /\ <<c, o>> \in Owed
    BY <1>0, <1>1, <1>2, <1>5 DEF Owed, Pairs
  <2>2. Owed' = Owed \ {<<c, o>>}
    <3>1. Owed \subseteq Pairs /\ Owed' \subseteq Pairs
      BY <1>0 DEF Owed
    <3>2. ASSUME NEW p \in Pairs PROVE p \in Owed' <=> p \in Owed /\ p # <<c, o>>
      BY <1>0, <1>3, <1>5
    <3> QED
      BY <2>1, <3>1, <3>2
  <2>3. Cardinality(Owed') = Cardinality(Owed) - 1
    BY <2>1, <2>2, OwedFinite, FS_RemoveElement
  <2> QED
    BY <1>5, <2>3 DEF GCount
<1> QED
  BY <1>1, <1>2, <1>4, <1>5

(* A step of one client, or of its thread, is none of the others' business. *)
LEMMA OwesFrame ==
  ASSUME NEW d \in Clients, th'[d] = th[d], iter'[d] = iter[d]
  PROVE  Owes(d)' = Owes(d)
  BY DEF Owes, Base, IsProduce, In

LEMMA InitGInv == Init => GInv
<1> SUFFICES ASSUME Init PROVE GInv
  OBVIOUS
<1>1. FInv
  BY InitFInv
<1>2. \A c \in Clients : Owes(c) = 0
  <2> TAKE c \in Clients
  <2>1. iter[c] = 0 /\ th[c] = "none" /\ WARMUP \in Nat
    BY ThreadsAssumption DEF Init
  <2>2. Base(0) = 0
    <3>1. WARMUP = 0 => WARMUP + ((0 - WARMUP) % 2) = 0
      OBVIOUS
    <3> QED
      BY <2>1, <3>1 DEF Base
  <2> QED
    BY <2>1, <2>2 DEF Owes, In
<1>3. Owed = {}
  BY <1>2, ThreadsAssumption DEF Owed, Pairs
<1>4. GCount
  BY <1>3, FS_EmptySet DEF GCount, Init, SEM_FULL
<1>5. GEnds /\ GServer /\ GOpen
  BY DEF Init, GEnds, GServer, GOpen
<1> QED
  BY <1>1, <1>4, <1>5 DEF GInv

LEMMA CountStep == ASSUME FInv, GCount, GOpen, FInv', flag', Next PROVE GCount'
<1>0. /\ FInv /\ FTypes /\ sem \in [0 .. 2 -> Nat]
      /\ th \in [Clients -> Calls]
  BY DEF FInv, FTypes
<1>1. CASE UNCHANGED <<sem, th, iter>>
  BY <1>1, OwesFrame, OwedSame
<1>2. CASE Setup
  <2>1. sem'[SEM_FULL] = 0 /\ sem[SEM_FULL] = 0 /\ UNCHANGED <<th, iter>>
    BY <1>2 DEF Setup, SEM_EMPTY, SEM_FULL, SEM_MUTEX, FInv, FStart, clientVars
  <2> QED
    BY <2>1, OwesFrame, OwedSame
<1>3. ASSUME NEW c \in Clients, NEW l, UNCHANGED <<sem, iter>>, th' = [th EXCEPT ![c] = l],
             <<th[c], l>> \in {<<"none", "backlog">>, <<"backlog", "recv">>, <<"recv", "start">>,
                               <<"slot", "move">>, <<"move", "stop">>, <<"send", "sent">>}
      PROVE  GCount'
  <2>1. Owes(c)' = Owes(c)
    BY <1>0, <1>3 DEF Owes, Base, IsProduce, In
  <2>2. \A d \in Clients : Owes(d)' = Owes(d)
    BY <1>0, <1>3, <2>1, OwesFrame
  <2> QED
    BY <1>3, <2>2, OwedSame
<1>4. ASSUME NEW c \in Clients, Thread(c) PROVE GCount'
  <2> USE DEF At, Goto, clientVars
  <2>1. CASE Recv(c)
    BY <1>3, <2>1 DEF Recv
  <2>2. CASE Slot(c)
    BY <1>3, <2>2 DEF Slot
  <2>3. CASE Move(c)
    BY <1>3, <2>3 DEF Move
  <2>4. CASE Send(c)
    BY <1>3, <2>4 DEF Send
  <2>5. CASE SemopFails(c)
    BY <1>1, <2>5 DEF SemopFails
  <2>6. CASE Enter(c)
    <3>1. /\ th[c] = "start" /\ th' = [th EXCEPT ![c] = "slot"] /\ iter' = iter
          /\ Start(c, sem) # Blocked /\ sem' = Start(c, sem)
      BY <2>6 DEF Enter
    <3>2. \A d \in Clients : d # c => Owes(d)' = Owes(d)
      BY <1>0, <3>1, OwesFrame
    <3>3. CASE IsProduce(c)
      <4>1. sem'[SEM_FULL] = sem[SEM_FULL]
        BY <1>0, <3>1, <3>3, Semops DEF SEM_FULL
      <4>2. Owes(c)' = Owes(c)
        BY <1>0, <3>1, <3>3 DEF Owes, Base, IsProduce, In
      <4> QED
        BY <3>2, <4>1, <4>2, OwedSame
    <3>4. CASE ~ IsProduce(c)
      <4>1. sem'[SEM_FULL] = sem[SEM_FULL] - 1
        BY <1>0, <3>1, <3>4, Semops DEF SEM_FULL
      <4>2. Owes(c)' = Owes(c) - 1
        BY <1>0, <3>1, <3>4 DEF Owes, Base, IsProduce, In
      <4> QED
        BY <1>0, <3>2, <4>1, <4>2, OwedMoves
    <3> QED
      BY <3>3, <3>4
  <2>7. CASE Leave(c)
    <3>1. /\ th[c] = "stop" /\ th' = [th EXCEPT ![c] = "send"] /\ iter' = iter
          /\ sem' = Stop(c, sem)
      BY <2>7 DEF Leave
    <3>2. \A d \in Clients : d # c => Owes(d)' = Owes(d)
      BY <1>0, <3>1, OwesFrame
    <3>3. CASE IsProduce(c)
      <4>1. sem'[SEM_FULL] = sem[SEM_FULL] + 1
        BY <1>0, <3>1, <3>3, Semops DEF SEM_FULL
      <4>2. Owes(c)' = Owes(c) + 1
        BY <1>0, <3>1, <3>3 DEF Owes, Base, IsProduce, In
      <4> QED
        BY <1>0, <3>2, <4>1, <4>2, OwedMoves
    <3>4. CASE ~ IsProduce(c)
      <4>1. sem'[SEM_FULL] = sem[SEM_FULL]
        BY <1>0, <3>1, <3>4, Semops DEF SEM_FULL
      <4>2. Owes(c)' = Owes(c)
        BY <1>0, <3>1, <3>4 DEF Owes, Base, IsProduce, In
      <4> QED
        BY <3>2, <4>1, <4>2, OwedSame
    <3> QED
      BY <3>3, <3>4
  <2> QED
    BY <1>4, <2>1, <2>2, <2>3, <2>4, <2>5, <2>6, <2>7 DEF Thread
<1>5. ASSUME NEW c \in Clients, Client(c) PROVE GCount'
  <2>1. CASE Request(c)
    <3>1. th[c] = "none"
      BY <2>1 DEF Request, FInv, FIdle
    <3>2. UNCHANGED <<sem, iter>> /\ (th' = th \/ th' = [th EXCEPT ![c] = "backlog"])
      BY <2>1 DEF Request, Goto
    <3> QED
      BY <1>1, <1>3, <3>1, <3>2
  <2>2. CASE Reply(c)
    <3>1. /\ th[c] = "sent" /\ th'[c] = "none" /\ iter'[c] = iter[c] + 1 /\ sem' = sem
          /\ \A d \in Clients : d # c => th'[d] = th[d] /\ iter'[d] = iter[d]
      BY <1>0, <2>2 DEF Reply, Goto, FTypes, GOpen
    <3>2. Owes(c)' = Base(iter[c] + 1)
      BY <3>1 DEF Owes, In, Base
    <3>3. Owes(c) = Base(iter[c] + 1)
      BY <1>0, <3>1, Bases DEF Owes, In
    <3> QED
      BY <3>1, <3>2, <3>3, OwesFrame, OwedSame
  <2>3. CASE Lost(c)
    BY <1>1, <2>3 DEF Lost
  <2> QED
    BY <1>5, <2>1, <2>2, <2>3 DEF Client
<1>6. CASE Accept
  BY <1>3, <1>6 DEF Accept, Goto, clientVars
<1>7. CASE Startup \/ TestFlag \/ Awake \/ Remove \/ Exit \/ Terminating
  BY <1>1, <1>7 DEF Startup, TestFlag, Awake, Remove, Exit, Terminating, vars, clientVars
<1>8. ~ Sigint /\ \A c \in Clients : ~ SigintThread(c)
  BY DEF Sigint, SigintThread, Handler
<1> QED
  BY <1>2, <1>4, <1>5, <1>6, <1>7, <1>8 DEF Next, Main

(* Only a SIGINT closes a connection.                                       *)
LEMMA OpenStep == ASSUME FInv, GOpen, flag', Next PROVE GOpen'
<1>0. th \in [Clients -> Calls]
  BY DEF FInv, FTypes
<1>1. \/ th' = th
      \/ \E c \in Clients, l \in Calls \ {"closed"} : th' = [th EXCEPT ![c] = l]
  BY DEF Next, Main, Startup, Setup, TestFlag, Accept, Awake, Remove, Exit, Sigint, SigintThread, Handler,
         Thread, Recv, Enter, Slot, Move, Leave, SemopFails, Send, Client, Request, Reply, Lost,
         Terminating, vars, Goto, Calls
<1> QED
  BY <1>0, <1>1 DEF GOpen

LEMMA EndsStep == ASSUME GInv, Next PROVE GEnds' /\ GServer'
<1> USE DEF GInv, FInv
<1>0. /\ th \in [Clients -> Calls]
      /\ cl \in [Clients -> {"ready", "wait", "failed", "done"}]
      /\ iter \in [Clients -> Nat] /\ GEnds /\ GServer
  BY DEF FTypes
<1>1. ASSUME Startup \/ Setup \/ TestFlag \/ Awake \/ Remove \/ Exit \/ Sigint \/ Terminating
      PROVE  GEnds' /\ GServer'
  <2>1. UNCHANGED <<th, cl, iter>>
    BY <1>1 DEF Startup, Setup, TestFlag, Awake, Remove, Exit, Sigint, Terminating, vars, clientVars
  <2>2. GServer'
    BY <1>0, <1>1, <2>1 DEF GServer, FStart, Startup, Setup, TestFlag, Awake, Remove, Exit, Sigint, Handler,
                            Terminating, vars, serverVars
  <2>3. GEnds'
    BY <1>0, <1>1, <2>1 DEF GEnds, Startup, Setup, TestFlag, Awake, Remove, Exit, Sigint, Handler,
                            Terminating, vars, serverVars
  <2> QED
    BY <2>2, <2>3
<1>2. CASE Accept
  <2>1. PICK c \in Clients : th[c] = "backlog" /\ th' = [th EXCEPT ![c] = "recv"]
    BY <1>2 DEF Accept, Goto
  <2>2. UNCHANGED <<flag, semset, cl, iter>> /\ main = "accept" /\ main' = "test"
    BY <1>2 DEF Accept, clientVars
  <2> QED
    BY <1>0, <2>1, <2>2 DEF GEnds, GServer
<1>3. ASSUME NEW c \in Clients, Thread(c) PROVE GEnds' /\ GServer'
  <2>1. CASE SemopFails(c)
    BY <1>0, <2>1 DEF SemopFails, clientVars, GEnds, GServer
  <2>2. CASE ~ SemopFails(c)
    <3>1. /\ UNCHANGED <<main, flag, semset, cl, iter>> /\ th[c] # "none" /\ main # "failed"
          /\ \E l : th' = [th EXCEPT ![c] = l]
      BY <1>3, <2>2 DEF Thread, Recv, Enter, Slot, Move, Leave, Send, At, Up, Goto,
                        serverVars, clientVars
    <3> QED
      BY <1>0, <3>1 DEF GEnds, GServer
  <2> QED
    BY <2>1, <2>2
<1>4. ASSUME NEW c \in Clients, Client(c) PROVE GEnds' /\ GServer'
  <2>0. UNCHANGED <<main, flag, semset>>
    BY <1>4 DEF Client, Request, Reply, Lost, serverVars
  <2>1. CASE Request(c)
    <3>1. /\ iter' = iter /\ cl[c] = "ready" /\ th[c] = "none"
          /\ \/ /\ main \in {"test", "accept", "sleep", "remove"}
                /\ cl' = [cl EXCEPT ![c] = "wait"] /\ th' = [th EXCEPT ![c] = "backlog"]
             \/ /\ main \notin {"test", "accept", "sleep", "remove"}
                /\ cl' = [cl EXCEPT ![c] = "failed"] /\ th' = th
      BY <2>1 DEF Request, Goto, Listening, FIdle
    <3> QED
      BY <1>0, <2>0, <3>1 DEF GEnds, GServer
  <2>2. CASE Reply(c)
    <3>1. /\ cl[c] = "wait" /\ th[c] \in {"sent", "closed"}
          /\ th' = [th EXCEPT ![c] = "none"] /\ iter' = [iter EXCEPT ![c] = @ + 1]
          /\ cl' = [cl EXCEPT ![c] = IF iter'[c] = WARMUP + ITER THEN "done" ELSE "ready"]
      BY <2>2 DEF Reply, Goto
    <3>2. main \notin {"init", "setup", "failed"}
      BY <3>1 DEF FStart
    <3> QED
      BY <1>0, <2>0, <3>1, <3>2 DEF GEnds, GServer
  <2>3. CASE Lost(c)
    <3>1. ~ Up /\ UNCHANGED <<th, iter>>
      BY <2>3 DEF Lost
    <3> QED
      BY <1>0, <2>0, <3>1 DEF GEnds, GServer, Up
  <2> QED
    BY <1>4, <2>1, <2>2, <2>3 DEF Client
<1>5. ASSUME NEW c \in Clients, SigintThread(c) PROVE GEnds' /\ GServer'
  <2>1. ~ flag' /\ iter' = iter /\ (main' = main \/ main' \in {"test", "remove", "exit1"})
    BY <1>5 DEF SigintThread, Handler, clientVars
  <2> QED
    BY <1>0, <2>1 DEF GEnds, GServer
<1> QED
  BY <1>1, <1>2, <1>3, <1>4, <1>5 DEF Next, Main

(* A thread that waits while nobody is in waits for a slot or a letter.     *)
LEMMA WaitsFor ==
  ASSUME NEW s \in [0 .. 2 -> Nat], NEW c \in Clients, Start(c, s) = Blocked, s[2] = 1
  PROVE  s[IF IsProduce(c) THEN 0 ELSE 1] = 0
<1> DEFINE from == IF IsProduce(c) THEN 0 ELSE 1
<1>0. from \in 0 .. 2 /\ 2 \in 0 .. 2 /\ from # 2
  OBVIOUS
<1>1. Start(c, s) = (s ## <<from, -1>> ## <<2, -1>>)
  BY DEF Start, start_produce, start_consume, SEM_EMPTY, SEM_FULL, SEM_MUTEX
<1> HIDE DEF from
<1> SUFFICES ASSUME s[from] > 0 PROVE FALSE
  BY <1>0 DEF from
<1> DEFINE t == [s EXCEPT ![from] = @ - 1]
<1>2. t \in [0 .. 2 -> Nat] /\ t[2] = 1 /\ (s ## <<from, -1>>) = t
  <2>1. (s ## <<from, -1>>) = IF s[from] > 0 THEN [s EXCEPT ![from] = @ - 1] ELSE Blocked
    BY <1>0, Down
  <2> QED
    BY <1>0, <2>1
<1> HIDE DEF t
<1>3. (t ## <<2, -1>>) = [t EXCEPT ![2] = @ - 1]
  <2>1. (t ## <<2, -1>>) = IF t[2] > 0 THEN [t EXCEPT ![2] = @ - 1] ELSE Blocked
    BY <1>0, <1>2, Down
  <2> QED
    BY <1>2, <2>1
<1>4. [t EXCEPT ![2] = @ - 1] # Blocked
  BY <1>2, SetIsNotBlocked
<1> QED
  BY <1>1, <1>2, <1>3, <1>4

LEMMA GridlockNever == GInv => NoGridlock
<1> SUFFICES ASSUME GInv, flag, WARMUP * Cardinality(Clients) < ARR_SIZE,
                    NEW w \in Clients, Waiting(w),
                    \A c \in Clients : Waiting(c) \/ cl[c] \in {"done", "failed"}
             PROVE  FALSE
  BY DEF NoGridlock, Gridlock, Spare
<1>1. /\ FInv /\ FTypes /\ sem \in [0 .. 2 -> Nat] /\ WARMUP \in Nat
      /\ IsFiniteSet(Clients) /\ Cardinality(Clients) \in Nat /\ N \in Nat
  BY ThreadsAssumption, FS_CardinalityType DEF GInv, FInv, FTypes, N
<1>2. main \notin {"init", "setup", "failed"}
  BY DEF GInv, GServer, Waiting, FInv, FStart
<1>3. \A c \in Clients : ~ In(c)
  BY <1>2 DEF GInv, GEnds, Waiting, In
<1>4. sem[0] + sem[1] = N /\ sem[2] = 1
  BY <1>2, <1>3 DEF GInv, FInv, FRing, FreeRing, HeldRing, SEM_EMPTY, SEM_FULL, SEM_MUTEX
<1>5. Cardinality(Owed) = sem[1]
  BY DEF GInv, GCount, SEM_FULL
(* A waiting consumer is owed a letter, so there is one.                    *)
<1>6. ASSUME NEW c \in Clients, Waiting(c), ~ IsProduce(c) PROVE FALSE
  <2>1. Cardinality(Owed) = 0
    BY <1>1, <1>4, <1>5, <1>6, WaitsFor DEF Waiting
  <2>2. Owed = {}
    BY <2>1, OwedFinite, FS_EmptySet
  <2>3. Owes(c) = WARMUP + 1
    BY <1>1, <1>6, Bases DEF Waiting, Owes, In
  <2>4. <<c, 1>> \in Owed
    BY <1>1, <2>3 DEF Owed, Pairs
  <2> QED
    BY <2>2, <2>4
(* All who wait produce: the ring is full, but nobody left more than WARMUP *)
(* letters in it.                                                           *)
<1>7. sem[1] = N
  <2>1. IsProduce(w) /\ sem[0] = 0
    BY <1>1, <1>4, <1>6, WaitsFor DEF Waiting
  <2> QED
    BY <1>1, <1>4, <2>1
<1>8. \A c \in Clients : Owes(c) <= WARMUP
  <2> TAKE c \in Clients
  <2>1. CASE Waiting(c)
    BY <1>1, <1>6, <2>1, Bases DEF Waiting, Owes, In
  <2>2. CASE cl[c] \in {"done", "failed"}
    <3>1. th[c] = "none" /\ (iter[c] = WARMUP + ITER \/ iter[c] = 0)
      BY <1>2, <2>2 DEF GInv, GEnds
    <3>2. IsProduce(c)
      <4>1. CASE iter[c] = WARMUP + ITER
        <5>1. (WARMUP + ITER) - WARMUP = ITER /\ ITER % 2 = 0
          BY <1>1, ThreadsAssumption
        <5> QED
          BY <4>1, <5>1 DEF IsProduce
      <4>2. CASE iter[c] = 0
        <5>1. WARMUP = 0 => (0 - WARMUP) % 2 = 0
          OBVIOUS
        <5> QED
          BY <1>1, <4>2, <5>1 DEF IsProduce
      <4> QED
        BY <3>1, <4>1, <4>2
    <3> QED
      BY <1>1, <3>1, <3>2, Bases DEF Owes, In
  <2> QED
    BY <2>1, <2>2
<1>9. Cardinality(Owed) <= Cardinality(Clients) * WARMUP
  <2>1. IsFiniteSet(1 .. WARMUP) /\ Cardinality(1 .. WARMUP) = WARMUP
    BY <1>1, FS_Interval
  <2>2. /\ IsFiniteSet(Clients \X (1 .. WARMUP))
        /\ Cardinality(Clients \X (1 .. WARMUP)) = Cardinality(Clients) * WARMUP
    BY <1>1, <2>1, FS_Product
  <2>3. Owed \subseteq Clients \X (1 .. WARMUP)
    <3> SUFFICES ASSUME NEW p \in Owed PROVE p \in Clients \X (1 .. WARMUP)
      OBVIOUS
    <3>1. /\ p[1] \in Clients /\ p[2] \in 1 .. WARMUP + 1 /\ p[2] <= Owes(p[1]) /\ p = <<p[1], p[2]>>
      BY DEF Owed, Pairs
    <3>2. Owes(p[1]) <= WARMUP /\ Owes(p[1]) \in 0 .. WARMUP + 1
      BY <1>1, <1>8, <3>1, OwesIs DEF OwesLaw
    <3>3. p[2] \in 1 .. WARMUP
      BY <1>1, <3>1, <3>2
    <3> QED
      BY <3>1, <3>3
  <2> QED
    BY <2>2, <2>3, FS_Subset
<1> QED
  <2>1. Cardinality(Clients) * WARMUP = WARMUP * Cardinality(Clients)
    BY <1>1
  <2> QED
    BY <1>1, <1>5, <1>7, <1>9, <2>1 DEF N

(* As long as the letters that clients leave behind fit the ring with a     *)
(* slot to spare, the threads never all wait for each other, for any number *)
(* of clients and requests.                                                 *)
THEOREM ThreadsDoNotGridlock == Spec => []NoGridlock
<1>1. GInv /\ [Next]_vars => GInv'
  <2> SUFFICES ASSUME GInv, [Next]_vars PROVE GInv'
    OBVIOUS
  <2>1. FInv'
    BY NextFInv DEF GInv
  <2>2. CASE Next
    <3>1. flag' => flag
      BY <2>2 DEF Next, Main, Startup, Setup, TestFlag, Accept, Awake, Remove, Exit, Sigint, SigintThread,
                  Handler, Thread, Recv, Enter, Slot, Move, Leave, SemopFails, Send, Client, Request, Reply,
                  Lost, Terminating, vars, serverVars
    <3> QED
      BY <2>1, <2>2, <3>1, CountStep, OpenStep, EndsStep DEF GInv
  <2>3. CASE UNCHANGED vars
    <3>1. UNCHANGED <<main, flag, semset, sem, th, cl, iter>>
      BY <2>3 DEF vars, serverVars, clientVars
    <3>2. flag => GCount' /\ GOpen'
      BY <3>1, OwesFrame, OwedSame DEF GInv, GOpen
    <3> QED
      BY <2>1, <3>1, <3>2 DEF GInv, GEnds, GServer
  <2> QED
    BY <2>2, <2>3
<1> QED
  BY <1>1, InitGInv, GridlockNever, PTL DEF Spec

-----------------------------------------------------------------------------
(* The letter server.                                                       *)

(* LetterAssumption, as far as ThreadsAssumption does not give it.          *)
LetterSizes == MaxConn \in Nat

Conns == LS!Conns
Index == LS!Index

Reading == {"rd", "copy"}
Writing == {"wr", "test", "mark", "full", "wrsend"}
Working == Reading \cup Writing          \* has a request it has not answered
InRead  == {"copy", "rdstop"}            \* between start_rd and stop_rd
InWrite == {"test", "mark", "full", "wrsend", "wrstop"}

LTypes ==
  /\ sem \in [0 .. 4 -> Nat]
  /\ free \subseteq Index
  /\ connfd \in Nat /\ opened \in Nat /\ connfd <= opened /\ opened <= MaxConn
  /\ peer \in [Conns -> Clients \cup {LS!NoOne}]
  /\ inbox \in [Conns -> [type : {"none", "r", "w", "eof"}, index : Index]]
  /\ reply \in [Conns -> [status : {"none", "letters", "OK", "ALREADLY_RESERVED"},
                          free : SUBSET Index]]
  /\ th \in [Conns -> {"none", "born", "recv", "done", "rdstop", "wrstop"} \cup Working]
  /\ fd \in [Conns -> 0 .. MaxConn]
  /\ got \in [Conns -> [index : Index, status : {"none", "OK", "ALREADLY_RESERVED"}]]
  /\ cl \in [Clients -> {"idle", "reading", "thinking", "writing", "exited"}]
  /\ mine \in [Clients -> Nat]
  /\ index \in [Clients -> Index]
  /\ owners \in [Index -> SUBSET Clients]

(* READER counts the threads that read; WRITER and SHADOW_WRITER say        *)
(* whether a thread writes, and there is one at most.                       *)
LReaders == {t \in Conns : th[t] \in InRead}
LCounts ==
  /\ sem[2] = Cardinality(LReaders)
  /\ \/ sem[3] = 1 /\ sem[4] = 0 /\ \A t \in Conns : th[t] \notin InWrite
     \/ /\ sem[3] = 0 /\ sem[4] = 1
        /\ \E t \in Conns : th[t] \in InWrite /\ \A u \in Conns : th[u] \in InWrite => u = t

(* Threads are created in the order of accept(), and each reads connfd      *)
(* after that.                                                              *)
LBorn == \A t \in Conns : th[t] # "none" => t <= connfd

(* The client at the other end of n waits there, in the state l; or the     *)
(* server is gone and the client with it.                                   *)
Asks(n, l) == mine[peer[n]] = n /\ cl[peer[n]] = l
Gone(n) == ~ up /\ cl[peer[n]] = "exited"

(* The letter that client picked is not its own.                            *)
NotOwn(n) == owners[index[peer[n]]] # {peer[n]}

(* What is on a connection belongs to the one request its client has made:  *)
(* a message not yet received, a thread at work, or the reply.  A client    *)
(* never owns a letter of the list it was sent, until it is told OK.        *)
LConn(n) ==
  /\ n <= opened => peer[n] \in Clients
  /\ n > opened => inbox[n].type = "none" /\ reply[n].status = "none"
  /\ inbox[n].type = "r" => Asks(n, "reading") \/ Gone(n)
  /\ inbox[n].type = "w" =>
       Gone(n) \/ (Asks(n, "writing") /\ inbox[n].index = index[peer[n]] /\ NotOwn(n))
  /\ reply[n].status # "none" => inbox[n].type = "none"
  /\ reply[n].status = "letters" =>
       Asks(n, "reading") /\ \A i \in reply[n].free : owners[i] # {peer[n]}
  /\ reply[n].status = "OK" => Asks(n, "writing") /\ owners[index[peer[n]]] = {peer[n]}
  /\ reply[n].status = "ALREADLY_RESERVED" =>
       Asks(n, "writing") /\ NotOwn(n) /\ owners[index[peer[n]]] # {}

LThread(t) ==
  /\ th[t] \in Working => /\ fd[t] \in Conns /\ fd[t] <= opened
                          /\ inbox[fd[t]].type = "none" /\ reply[fd[t]].status = "none"
  /\ th[t] \in Reading => Asks(fd[t], "reading") \/ Gone(fd[t])
  /\ th[t] \in Writing =>
       Gone(fd[t]) \/ (Asks(fd[t], "writing") /\ got[t].index = index[peer[fd[t]]])
  /\ th[t] \in {"wr", "test", "mark"} => Gone(fd[t]) \/ NotOwn(fd[t])
  /\ th[t] = "mark" => got[t].index \in free /\ got[t].status = "OK"
  /\ th[t] \in {"full", "wrsend"} =>
       /\ got[t].status \in {"OK", "ALREADLY_RESERVED"}
       /\ Gone(fd[t]) \/ IF got[t].status = "OK" THEN owners[got[t].index] = {peer[fd[t]]}
                         ELSE NotOwn(fd[t]) /\ owners[got[t].index] # {}

(* Two threads may serve one connection, but not both work for it.          *)
LUnique == \A t, u \in Conns : th[t] \in Working /\ th[u] \in Working /\ fd[t] = fd[u] => t = u

LClient(c) ==
  /\ cl[c] \in {"reading", "thinking", "writing"} =>
       mine[c] \in Conns /\ mine[c] <= opened /\ peer[mine[c]] = c
  /\ cl[c] = "thinking" => owners[index[c]] # {c}

(* A letter that is not free has one owner.                                 *)
LOwners ==
  \A i \in Index : /\ i \in free <=> owners[i] = {}
                   /\ i \notin free => \E c \in Clients : owners[i] = {c}

LRest == /\ LUnique /\ LOwners
         /\ \A n \in Conns : LConn(n) /\ LThread(n)
         /\ \A c \in Clients : LClient(c)

LInv == LetterSizes /\ LTypes /\ LCounts /\ LBorn /\ LRest

LEMMA InitLInv == ASSUME LetterSizes PROVE LS!Init => LInv
<1> SUFFICES ASSUME LS!Init PROVE LInv
  OBVIOUS
<1>0. 0 \in Index /\ \A n \in Conns : n \in Nat /\ n > 0
  BY ThreadsAssumption DEF Index, LS!Index, Conns, LS!Conns, LetterSizes
<1>1. LTypes
  <2>1. sem \in [0 .. 4 -> Nat]
    BY DEF LS!Init
  <2>2. /\ inbox \in [Conns -> [type : {"none", "r", "w", "eof"}, index : Index]]
        /\ reply \in [Conns -> [status : {"none", "letters", "OK", "ALREADLY_RESERVED"},
                               free : SUBSET Index]]
    BY <1>0 DEF LS!Init, LS!NoRequest, LS!NoReply, Conns
  <2>3. /\ got \in [Conns -> [index : Index, status : {"none", "OK", "ALREADLY_RESERVED"}]]
        /\ index \in [Clients -> Index] /\ owners \in [Index -> SUBSET Clients]
    BY <1>0 DEF LS!Init, Conns, Index
  <2> QED
    BY <2>1, <2>2, <2>3 DEF LS!Init, LTypes, Conns, Index, LetterSizes, LS!None
<1>2. LCounts
  <2>1. LReaders = {}
    BY DEF LS!Init, LReaders, InRead, Conns
  <2>2. Cardinality(LReaders) = 0
    BY <2>1, FS_EmptySet
  <2> QED
    BY <2>2 DEF LS!Init, LCounts, InWrite, LS!WRITER, Conns
<1>3. LBorn
  BY DEF LS!Init, LBorn, Conns
<1>4. LUnique /\ LOwners
  BY DEF LS!Init, LUnique, LOwners, Working, Reading, Writing, Conns, Index
<1>5. \A n \in Conns : LConn(n) /\ LThread(n)
  BY <1>0 DEF LS!Init, LConn, LThread, Working, Reading, Writing, LS!NoRequest, LS!NoReply, Conns
<1>6. \A c \in Clients : LClient(c)
  BY DEF LS!Init, LClient
<1> QED
  BY <1>1, <1>2, <1>3, <1>4, <1>5, <1>6 DEF LInv, LRest

(* The arrays of the letter server are arrays of the same semop.            *)
LEMMA LetterArrays ==
  /\ LS!Blocked = Blocked
  /\ \A s : /\ LS!start_rd(s) = (s ## <<0, 1>> ## <<1, 0>> ## <<4, 0>> ## <<2, 1>> ## <<0, -1>>)
            /\ LS!stop_rd(s) = (s ## <<2, -1>>)
            /\ LS!start_wr(s) = (s ## <<1, 1>> ## <<2, 0>> ## <<3, -1>> ## <<4, 1>> ## <<1, -1>>)
            /\ LS!stop_wr(s) = (s ## <<4, -1>> ## <<3, 1>>)
<1>1. LS!Blocked = Blocked
  BY DEF LS!Blocked, Blocked
<1>2. \A s, o : LS!##(s, o) = (s ## o)
  BY <1>1 DEF LS!##, ##, LS!Operation, Operation
<1> QED
  BY <1>1, <1>2 DEF LS!start_rd, LS!stop_rd, LS!start_wr, LS!stop_wr, LS!READER_QUEUE,
                    LS!WRITER_QUEUE, LS!READER, LS!WRITER, LS!SHADOW_WRITER

Five == 0 .. 4

(* One struct sembuf on the set of five.                                    *)
LEMMA OneOfFive ==
  ASSUME NEW s \in [Five -> Nat]
  PROVE  \A n \in Five :
           /\ (s ## <<n, 1>>) = [s EXCEPT ![n] = @ + 1]
           /\ (s ## <<n, -1>>) = IF s[n] > 0 THEN [s EXCEPT ![n] = @ - 1] ELSE Blocked
           /\ (s ## <<n, 0>>) # Blocked => (s ## <<n, 0>>) = s
<1> TAKE n \in Five
<1>1. (s ## <<n, 1>>) = [s EXCEPT ![n] = @ + 1]
  BY Add
<1>2. (s ## <<n, -1>>) = IF s[n] > 0 THEN [s EXCEPT ![n] = @ - 1] ELSE Blocked
  BY Down
<1>3. (s ## <<n, 0>>) = IF s[n] = 0 THEN s ELSE Blocked
  BY Zero
<1> QED
  BY <1>1, <1>2, <1>3

(* What the four arrays do when they do not block: the queue counters are   *)
(* back where they were.                                                    *)
LEMMA ReadArrays ==
  ASSUME NEW s \in [Five -> Nat]
  PROVE  /\ LS!start_rd(s) # Blocked => LS!start_rd(s) = [s EXCEPT ![2] = @ + 1]
         /\ s[2] > 0 => LS!stop_rd(s) = [s EXCEPT ![2] = @ - 1]
<1>0. 0 \in Five /\ 1 \in Five /\ 2 \in Five /\ 3 \in Five /\ 4 \in Five
  BY DEF Five
<1>1. s[2] > 0 => LS!stop_rd(s) = [s EXCEPT ![2] = @ - 1]
  BY <1>0, OneOfFive, LetterArrays
<1>2. ASSUME LS!start_rd(s) # Blocked PROVE LS!start_rd(s) = [s EXCEPT ![2] = @ + 1]
  <2> DEFINE a == [s EXCEPT ![0] = @ + 1]
             b == [a EXCEPT ![2] = @ + 1]
  <2>1. a \in [Five -> Nat] /\ b \in [Five -> Nat] /\ b[0] > 0
    BY <1>0
  <2>2. (s ## <<0, 1>>) = a
    BY <1>0, OneOfFive
  <2>3. [b EXCEPT ![0] = @ - 1] = [s EXCEPT ![2] = @ + 1]
    <3>1. s[0] \in Nat /\ (s[0] + 1) - 1 = s[0]
      BY <1>0
    <3> QED
      BY <1>0, <3>1
  <2> HIDE DEF a
  <2>4. LS!start_rd(s) = (a ## <<1, 0>> ## <<4, 0>> ## <<2, 1>> ## <<0, -1>>)
    BY <2>2, LetterArrays
  <2>5. (a ## <<1, 0>>) # Blocked
    BY <1>2, <2>4, BlockedStays
  <2>6. (a ## <<1, 0>>) = a
    BY <1>0, <2>1, <2>5, OneOfFive
  <2>7. (a ## <<4, 0>>) # Blocked
    BY <1>2, <2>4, <2>6, BlockedStays
  <2>8. (a ## <<4, 0>>) = a
    BY <1>0, <2>1, <2>7, OneOfFive
  <2>9. (a ## <<2, 1>>) = b
    BY <1>0, <2>1, OneOfFive
  <2> HIDE DEF b
  <2>10. (b ## <<0, -1>>) = [b EXCEPT ![0] = @ - 1]
    BY <1>0, <2>1, OneOfFive
  <2> QED
    BY <2>3, <2>4, <2>6, <2>8, <2>9, <2>10 DEF b, a
<1> QED
  BY <1>1, <1>2

LEMMA WriteArrays ==
  ASSUME NEW s \in [Five -> Nat]
  PROVE  /\ LS!start_wr(s) # Blocked =>
              s[3] > 0 /\ LS!start_wr(s) = [s EXCEPT ![3] = @ - 1, ![4] = @ + 1]
         /\ s[4] > 0 => LS!stop_wr(s) = [s EXCEPT ![4] = @ - 1, ![3] = @ + 1]
<1>0. 0 \in Five /\ 1 \in Five /\ 2 \in Five /\ 3 \in Five /\ 4 \in Five
  BY DEF Five
<1>1. ASSUME s[4] > 0 PROVE LS!stop_wr(s) = [s EXCEPT ![4] = @ - 1, ![3] = @ + 1]
  <2> DEFINE a == [s EXCEPT ![4] = @ - 1]
  <2>1. a \in [Five -> Nat]
    BY <1>0, <1>1
  <2>2. (s ## <<4, -1>>) = a
    BY <1>0, <1>1, OneOfFive
  <2>3. [a EXCEPT ![3] = @ + 1] = [s EXCEPT ![4] = @ - 1, ![3] = @ + 1]
    OBVIOUS
  <2> HIDE DEF a
  <2>4. (a ## <<3, 1>>) = [a EXCEPT ![3] = @ + 1]
    BY <1>0, <2>1, OneOfFive
  <2> QED
    BY <2>2, <2>3, <2>4, LetterArrays
<1>2. ASSUME LS!start_wr(s) # Blocked
      PROVE  s[3] > 0 /\ LS!start_wr(s) = [s EXCEPT ![3] = @ - 1, ![4] = @ + 1]
  <2> DEFINE a == [s EXCEPT ![1] = @ + 1]
             b == [a EXCEPT ![3] = @ - 1]
             d == [b EXCEPT ![4] = @ + 1]
  <2>1. a \in [Five -> Nat] /\ a[3] = s[3]
    BY <1>0
  <2>2. (s ## <<1, 1>>) = a
    BY <1>0, OneOfFive
  <2> HIDE DEF a
  <2>3. LS!start_wr(s) = (a ## <<2, 0>> ## <<3, -1>> ## <<4, 1>> ## <<1, -1>>)
    BY <2>2, LetterArrays
  <2>4. (a ## <<2, 0>>) # Blocked
    BY <1>2, <2>3, BlockedStays
  <2>5. (a ## <<2, 0>>) = a
    BY <1>0, <2>1, <2>4, OneOfFive
  <2>6. (a ## <<3, -1>>) # Blocked
    BY <1>2, <2>3, <2>5, BlockedStays
  <2>7. a[3] > 0 /\ (a ## <<3, -1>>) = b
    BY <1>0, <2>1, <2>6, OneOfFive
  <2>8. b \in [Five -> Nat] /\ d \in [Five -> Nat] /\ d[1] > 0
    <3>1. b \in [Five -> Nat] /\ b[1] = a[1]
      BY <1>0, <2>1, <2>7
    <3>2. a[1] > 0
      BY <1>0 DEF a
    <3> QED
      BY <1>0, <3>1, <3>2
  <2>9. [d EXCEPT ![1] = @ - 1] = [s EXCEPT ![3] = @ - 1, ![4] = @ + 1]
    <3>1. s[1] \in Nat /\ (s[1] + 1) - 1 = s[1]
      BY <1>0
    <3> QED
      BY <1>0, <3>1 DEF a
  <2> HIDE DEF b
  <2>10. (b ## <<4, 1>>) = d
    BY <1>0, <2>8, OneOfFive
  <2> HIDE DEF d
  <2>11. (d ## <<1, -1>>) = [d EXCEPT ![1] = @ - 1]
    BY <1>0, <2>8, OneOfFive
  <2>12. LS!start_wr(s) = [s EXCEPT ![3] = @ - 1, ![4] = @ + 1]
    BY <2>3, <2>5, <2>7, <2>9, <2>10, <2>11
  <2> QED
    BY <2>1, <2>7, <2>12
<1> QED
  BY <1>1, <1>2

ConnsUnchanged == UNCHANGED <<up, free, opened, peer, inbox, reply, cl, mine, index, owners>>

(* The first letter of a list exists.                                       *)
LEMMA FirstOf ==
  ASSUME NEW S, S \subseteq Nat, S # {}
  PROVE  (CHOOSE i \in S : \A j \in S : i <= j) \in S
<1> DEFINE R == OpToRel(<, Nat)
<1>1. IsWellFoundedOn(R, Nat) /\ \A i, j \in Nat : i < j => <<i, j>> \in R
  BY NatLessThanWellFounded DEF OpToRel
<1> HIDE DEF R
<1>2. PICK i \in S : \A j \in S : ~ (<<j, i>> \in R)
  BY ZenonT(60), <1>1, WFMin
<1>3. \A j \in S : i <= j
  <2> TAKE j \in S
  <2>1. i \in Nat /\ j \in Nat /\ ~ (j < i)
    BY <1>1, <1>2
  <2> QED
    BY <2>1
<1> QED
  BY <1>3

(* The four semop calls, as the threads make them.                          *)
LEMMA SemCalls ==
  ASSUME LInv, NEW t \in Conns
  PROVE  /\ LS!RdEnter(t) => sem' = [sem EXCEPT ![2] = @ + 1]
         /\ LS!RdLeave(t) => sem[2] > 0 /\ sem' = [sem EXCEPT ![2] = @ - 1]
         /\ LS!WrEnter(t) => sem[3] > 0 /\ sem' = [sem EXCEPT ![3] = @ - 1, ![4] = @ + 1]
         /\ LS!WrLeave(t) => sem[4] > 0 /\ sem' = [sem EXCEPT ![4] = @ - 1, ![3] = @ + 1]
<1>0. sem \in [Five -> Nat]
  BY DEF LInv, LTypes, Five
<1>1. LS!Blocked = Blocked
  BY LetterArrays
<1>2. LS!RdEnter(t) => sem' = [sem EXCEPT ![2] = @ + 1]
  BY <1>0, <1>1, ReadArrays DEF LS!RdEnter
<1>3. ASSUME LS!RdLeave(t) PROVE sem[2] > 0
  <2>1. IsFiniteSet(LReaders)
    <3>1. IsFiniteSet(Conns) /\ LReaders \subseteq Conns
      BY FS_Interval DEF LInv, LetterSizes, Conns, LS!Conns, LReaders
    <3> QED
      BY <3>1, FS_Subset
  <2>2. t \in LReaders
    BY <1>3 DEF LS!RdLeave, LS!At, LReaders, InRead
  <2>3. Cardinality(LReaders) \in Nat /\ Cardinality(LReaders) # 0
    BY <2>1, <2>2, FS_EmptySet, FS_CardinalityType
  <2> QED
    BY <2>3 DEF LInv, LCounts
<1>4. LS!RdLeave(t) => sem[2] > 0 /\ sem' = [sem EXCEPT ![2] = @ - 1]
  BY <1>0, <1>3, ReadArrays DEF LS!RdLeave
<1>5. LS!WrEnter(t) => sem[3] > 0 /\ sem' = [sem EXCEPT ![3] = @ - 1, ![4] = @ + 1]
  BY <1>0, <1>1, WriteArrays DEF LS!WrEnter
<1>6. LS!WrLeave(t) => sem[4] > 0
  BY DEF LS!WrLeave, LS!At, LInv, LCounts, InWrite
<1>7. LS!WrLeave(t) => sem[4] > 0 /\ sem' = [sem EXCEPT ![4] = @ - 1, ![3] = @ + 1]
  BY <1>0, <1>6, WriteArrays DEF LS!WrLeave
<1> QED
  BY <1>2, <1>4, <1>5, <1>7

LEMMA LetterTypes == ASSUME LInv, LS!Next PROVE LTypes'
<1> USE DEF LInv, LetterSizes
<1>0. /\ Conns = 1 .. MaxConn /\ \A n \in Conns : n \in Nat
      /\ 0 \in Index /\ \A i \in Index : i \in Nat
  BY ThreadsAssumption DEF Index, LS!Index, Conns, LS!Conns
<1>1. CASE LS!Accept
  <2>1. connfd + 1 \in Conns
    BY <1>0, <1>1 DEF LS!Accept, LTypes
  <2> QED
    BY SMTT(30), <1>0, <1>1, <2>1 DEF LS!Accept, LTypes, LS!serverVars, LS!connVars, LS!clientVars
<1>2. CASE LS!Sigint
  BY <1>2 DEF LS!Sigint, LTypes, LS!connVars, LS!threadVars, LS!clientVars
<1>3. ASSUME NEW t \in Conns, LS!Thread(t) PROVE LTypes'
  <2> USE DEF LS!At, LS!Goto, LS!serverVars, LS!connVars, LS!threadVars, LS!clientVars,
              Working, Reading, Writing
  <2>1. CASE LS!ReadFd(t)
    <3>1. connfd \in 0 .. MaxConn
      BY DEF LTypes
    <3> QED
      BY <2>1, <3>1 DEF LS!ReadFd, LTypes
  <2>2. CASE LS!Recv(t)
    <3> DEFINE m == inbox[fd[t]]
    <3>1. fd[t] \in Conns
      BY <1>0, <2>2 DEF LS!Recv, LTypes, LS!None
    <3>2. m \in [type : {"none", "r", "w", "eof"}, index : Index]
      BY <3>1 DEF LTypes
    <3>3. inbox' \in [Conns -> [type : {"none", "r", "w", "eof"}, index : Index]]
      BY <1>0, <2>2 DEF LS!Recv, LTypes, LS!NoRequest
    <3>4. got' \in [Conns -> [index : Index, status : {"none", "OK", "ALREADLY_RESERVED"}]]
      BY <2>2, <3>2 DEF LS!Recv, LTypes
    <3>5. th' \in [Conns -> {"none", "born", "recv", "done", "rdstop", "wrstop"} \cup Working]
      BY <2>2, <3>2 DEF LS!Recv, LTypes
    <3> QED
      BY <2>2, <3>3, <3>4, <3>5 DEF LS!Recv, LTypes
  <2>3. CASE LS!RdEnter(t) \/ LS!RdLeave(t) \/ LS!WrEnter(t) \/ LS!WrLeave(t)
    <3>1. sem \in [Five -> Nat]
      BY DEF LTypes, Five
    <3>2. sem' \in [Five -> Nat]
      BY <2>3, <3>1, SemCalls DEF Five
    <3> QED
      BY <2>3, <3>2 DEF LTypes, Five, LS!RdEnter, LS!RdLeave, LS!WrEnter, LS!WrLeave
  <2>4. CASE LS!RdSend(t)
    BY <2>4 DEF LS!RdSend, LTypes
  <2>5. CASE LS!WrTest(t)
    <3>1. th' \in [Conns -> {"none", "born", "recv", "done", "rdstop", "wrstop"} \cup Working]
      BY <2>5 DEF LS!WrTest, LTypes
    <3>2. got' \in [Conns -> [index : Index, status : {"none", "OK", "ALREADLY_RESERVED"}]]
      <4>1. got[t] \in [index : Index, status : {"none", "OK", "ALREADLY_RESERVED"}]
        BY DEF LTypes
      <4> QED
        BY <2>5, <4>1 DEF LS!WrTest, LTypes
    <3> QED
      BY <2>5, <3>1, <3>2 DEF LS!WrTest, LTypes
  <2>6. CASE LS!WrMark(t)
    <3>1. fd[t] \in Conns /\ peer[fd[t]] \in Clients
      BY <2>6 DEF LS!WrMark, LRest, LThread, LConn
    <3>2. owners' \in [Index -> SUBSET Clients]
      BY <2>6, <3>1 DEF LS!WrMark, LTypes
    <3> QED
      BY <2>6, <3>2 DEF LS!WrMark, LTypes
  <2>7. CASE LS!WrFull(t)
    BY <2>7 DEF LS!WrFull, LTypes
  <2>8. CASE LS!WrSend(t)
    BY <2>8 DEF LS!WrSend, LTypes
  <2> QED
    BY <1>3, <2>1, <2>2, <2>3, <2>4, <2>5, <2>6, <2>7, <2>8 DEF LS!Thread
<1>4. ASSUME NEW c \in Clients, LS!Client(c) PROVE LTypes'
  <2> USE DEF LS!ClientUnchanged, LS!serverVars, LS!threadVars, LS!connVars, LS!NoReply
  <2>1. CASE LS!Connect(c)
    <3>1. CASE up
      <4> DEFINE n == opened + 1
      <4>1. n \in Conns /\ n \in Nat /\ opened' = n /\ connfd <= n /\ n <= MaxConn
        BY <1>0, <2>1, <3>1 DEF LS!Connect, LTypes
      <4>2. /\ peer' = [peer EXCEPT ![n] = c]
            /\ inbox' = [inbox EXCEPT ![n] = [type |-> "r", index |-> 0]]
            /\ mine' = [mine EXCEPT ![c] = n]
            /\ cl' = [cl EXCEPT ![c] = "reading"]
        BY <2>1, <3>1 DEF LS!Connect
      <4> HIDE DEF n
      <4> QED
        BY <1>0, <2>1, <4>1, <4>2 DEF LS!Connect, LTypes
    <3>2. CASE ~ up
      BY <2>1, <3>2 DEF LS!Connect, LTypes
    <3> QED
      BY <3>1, <3>2
  <2>2. CASE LS!Pick(c)
    <3> DEFINE letters == reply[mine[c]].free
    <3>1. mine[c] \in Conns /\ letters \subseteq Index
      BY <2>2 DEF LS!Pick, LTypes, LRest, LClient
    <3>2. reply' \in [Conns -> [status : {"none", "letters", "OK", "ALREADLY_RESERVED"},
                                 free : SUBSET Index]]
      BY <2>2 DEF LS!Pick, LTypes
    <3>3. inbox' \in [Conns -> [type : {"none", "r", "w", "eof"}, index : Index]]
      <4>1. inbox' = inbox \/ inbox' = [inbox EXCEPT ![mine[c]] = [type |-> "eof", index |-> 0]]
        BY <2>2 DEF LS!Pick
      <4>2. [type |-> "eof", index |-> 0] \in [type : {"none", "r", "w", "eof"}, index : Index]
        BY <1>0
      <4>3. inbox \in [Conns -> [type : {"none", "r", "w", "eof"}, index : Index]]
        BY DEF LTypes
      <4> QED
        BY <3>1, <4>1, <4>2, <4>3
    <3>4. index' \in [Clients -> Index]
      <4>1. letters # {} => (CHOOSE i \in letters : \A j \in letters : i <= j) \in letters
        <5> HIDE DEF letters
        <5>1. letters \subseteq Nat
          BY <1>0, <3>1
        <5> QED
          BY <5>1, FirstOf
      <4>2. letters = {} => index' = index
        BY <2>2 DEF LS!Pick
      <4>3. letters # {} =>
              index' = [index EXCEPT ![c] = CHOOSE i \in letters : \A j \in letters : i <= j]
        BY <2>2 DEF LS!Pick
      <4> HIDE DEF letters
      <4> QED
        BY <3>1, <4>1, <4>2, <4>3 DEF LTypes
    <3>5. cl' \in [Clients -> {"idle", "reading", "thinking", "writing", "exited"}]
      <4>1. cl \in [Clients -> {"idle", "reading", "thinking", "writing", "exited"}]
        BY DEF LTypes
      <4>2. \E x \in {"idle", "reading", "thinking", "writing", "exited"} : cl' = [cl EXCEPT ![c] = x]
        BY <2>2 DEF LS!Pick
      <4> QED
        BY <4>1, <4>2
    <3> QED
      BY <2>2, <3>2, <3>3, <3>4, <3>5 DEF LS!Pick, LTypes
  <2>3. CASE LS!Reserve(c)
    BY <2>3 DEF LS!Reserve, LTypes
  <2>4. CASE LS!Answered(c)
    BY <1>0, <2>4 DEF LS!Answered, LTypes, LS!None
  <2>5. CASE LS!Lost(c)
    BY <2>5 DEF LS!Lost, LTypes
  <2> QED
    BY <1>4, <2>1, <2>2, <2>3, <2>4, <2>5 DEF LS!Client
<1> QED
  BY <1>1, <1>2, <1>3, <1>4 DEF LS!Next, Conns

LEMMA LetterCounts == ASSUME LInv, LS!Next PROVE LCounts' /\ LBorn'
<1> USE DEF LInv
<1>0. /\ th \in [Conns -> {"none", "born", "recv", "done", "rdstop", "wrstop"} \cup Working]
      /\ connfd \in Nat /\ Conns = 1 .. MaxConn /\ MaxConn \in Nat
      /\ sem \in [0 .. 4 -> Nat] /\ LCounts /\ LBorn
  BY DEF LTypes, LetterSizes, Conns, LS!Conns
<1>1. ASSUME sem' = sem,
             \A u \in Conns : /\ th'[u] \in InRead <=> th[u] \in InRead
                              /\ th'[u] \in InWrite <=> th[u] \in InWrite
      PROVE  LCounts'
  <2>1. LReaders' = LReaders
    BY <1>1 DEF LReaders, Conns, LS!Conns
  <2> QED
    BY <1>0, <1>1, <2>1 DEF LCounts, Conns, LS!Conns
<1>2. ASSUME NEW t \in Conns, th[t] # "none", connfd' = connfd,
             \E l : th' = [th EXCEPT ![t] = l]
      PROVE  LBorn'
  BY <1>0, <1>2 DEF LBorn, Conns, LS!Conns
<1>3. CASE LS!Accept
  <2>1. connfd + 1 \in Conns
    BY <1>0, <1>3 DEF LS!Accept, LTypes
  <2>2. th[connfd + 1] = "none" /\ sem' = sem /\ th' = [th EXCEPT ![connfd + 1] = "born"]
    BY <1>0, <1>3, <2>1 DEF LS!Accept, LBorn, LS!serverVars
  <2>3. LCounts'
    BY <1>0, <1>1, <2>1, <2>2 DEF InRead, InWrite
  <2>4. LBorn'
    BY <1>0, <1>3, <2>2 DEF LS!Accept, LBorn, Conns, LS!Conns
  <2> QED
    BY <2>3, <2>4
<1>4. ASSUME th' = th, sem' = sem, connfd' = connfd PROVE LCounts' /\ LBorn'
  BY <1>0, <1>1, <1>4 DEF LBorn, Conns, LS!Conns
<1>5. ASSUME NEW t \in Conns, LS!Thread(t) PROVE LCounts' /\ LBorn'
  <2> USE DEF LS!At, LS!Goto, LS!serverVars, InRead, InWrite
  <2>0. /\ IsFiniteSet(LReaders) /\ LReaders \subseteq Conns
        /\ Cardinality(LReaders) \in Nat /\ sem[2] = Cardinality(LReaders)
    <3>1. IsFiniteSet(Conns) /\ LReaders \subseteq Conns
      BY <1>0, FS_Interval DEF LReaders
    <3> QED
      BY <1>0, <3>1, FS_Subset, FS_CardinalityType DEF LCounts
  <2>1. LBorn'
    <3>1. th[t] # "none" /\ connfd' = connfd /\ \E l : th' = [th EXCEPT ![t] = l]
      BY <1>5 DEF LS!Thread, LS!ReadFd, LS!Recv, LS!RdEnter, LS!RdSend, LS!RdLeave, LS!WrEnter,
                  LS!WrTest, LS!WrMark, LS!WrFull, LS!WrSend, LS!WrLeave
    <3> QED
      BY <1>2, <3>1
  <2>2. CASE LS!RdEnter(t)
    <3>1. LReaders' = LReaders \cup {t} /\ t \notin LReaders
      BY <1>0, <2>2 DEF LS!RdEnter, LReaders, Conns, LS!Conns
    <3>2. Cardinality(LReaders') = Cardinality(LReaders) + 1
      BY <2>0, <3>1, FS_AddElement
    <3>3. sem' = [sem EXCEPT ![2] = @ + 1]
      BY <2>2, SemCalls
    <3>4. \A u \in Conns : th'[u] \in InWrite <=> th[u] \in InWrite
      BY <1>0, <2>2 DEF LS!RdEnter
    <3> HIDE DEF InWrite
    <3> QED
      BY <1>0, <2>0, <2>1, <3>2, <3>3, <3>4 DEF LCounts, Conns, LS!Conns
  <2>3. CASE LS!RdLeave(t)
    <3>1. LReaders' = LReaders \ {t} /\ t \in LReaders
      BY <1>0, <2>3 DEF LS!RdLeave, LReaders, Conns, LS!Conns
    <3>2. Cardinality(LReaders') = Cardinality(LReaders) - 1
      BY <2>0, <3>1, FS_RemoveElement
    <3>3. sem' = [sem EXCEPT ![2] = @ - 1]
      BY <2>3, SemCalls
    <3>4. \A u \in Conns : th'[u] \in InWrite <=> th[u] \in InWrite
      BY <1>0, <2>3 DEF LS!RdLeave
    <3> HIDE DEF InWrite
    <3> QED
      BY <1>0, <2>0, <2>1, <3>2, <3>3, <3>4 DEF LCounts, Conns, LS!Conns
  <2>4. CASE LS!WrEnter(t)
    <3>1. sem[3] > 0 /\ sem' = [sem EXCEPT ![3] = @ - 1, ![4] = @ + 1]
      BY <2>4, SemCalls
    <3>2. LReaders' = LReaders
      BY <1>0, <2>4 DEF LS!WrEnter, LReaders, Conns, LS!Conns
    <3>3. sem[3] = 1 /\ sem[4] = 0 /\ \A u \in Conns : th[u] \notin InWrite
      BY <1>0, <3>1 DEF LCounts
    <3>4. th'[t] \in InWrite /\ \A u \in Conns : th'[u] \in InWrite => u = t
      BY <1>0, <2>4, <3>3 DEF LS!WrEnter
    <3>5. sem'[2] = sem[2] /\ sem'[3] = 0 /\ sem'[4] = 1
      BY <1>0, <3>1, <3>3
    <3> HIDE DEF InWrite
    <3> QED
      BY <2>0, <2>1, <3>2, <3>4, <3>5 DEF LCounts, Conns, LS!Conns
  <2>5. CASE LS!WrLeave(t)
    <3>1. sem[4] > 0 /\ sem' = [sem EXCEPT ![4] = @ - 1, ![3] = @ + 1]
      BY <2>5, SemCalls
    <3>2. LReaders' = LReaders
      BY <1>0, <2>5 DEF LS!WrLeave, LReaders, Conns, LS!Conns
    <3>3. sem[3] = 0 /\ sem[4] = 1 /\ \A u \in Conns : th[u] \in InWrite => u = t
      BY <1>0, <2>5, <3>1 DEF LCounts, LS!WrLeave
    <3>4. \A u \in Conns : th'[u] \notin InWrite
      BY <1>0, <2>5, <3>3 DEF LS!WrLeave
    <3>5. sem'[2] = sem[2] /\ sem'[3] = 1 /\ sem'[4] = 0
      BY <1>0, <3>1, <3>3
    <3> HIDE DEF InWrite
    <3> QED
      BY <2>0, <2>1, <3>2, <3>4, <3>5 DEF LCounts, Conns, LS!Conns
  <2>6. CASE LS!ReadFd(t) \/ LS!Recv(t) \/ LS!RdSend(t) \/ LS!WrTest(t) \/ LS!WrMark(t)
             \/ LS!WrFull(t) \/ LS!WrSend(t)
    <3>1. sem' = sem
      BY <2>6 DEF LS!ReadFd, LS!Recv, LS!RdSend, LS!WrTest, LS!WrMark, LS!WrFull, LS!WrSend
    <3>2. \A u \in Conns : /\ th'[u] \in InRead <=> th[u] \in InRead
                           /\ th'[u] \in InWrite <=> th[u] \in InWrite
      BY <1>0, <2>6 DEF LS!ReadFd, LS!Recv, LS!RdSend, LS!WrTest, LS!WrMark, LS!WrFull, LS!WrSend
    <3> QED
      BY <1>1, <2>1, <3>1, <3>2
  <2> QED
    BY <1>5, <2>2, <2>3, <2>4, <2>5, <2>6 DEF LS!Thread
<1>6. ASSUME NEW c \in Clients, LS!Client(c) PROVE th' = th /\ sem' = sem /\ connfd' = connfd
  BY <1>6 DEF LS!Client, LS!Connect, LS!Pick, LS!Reserve, LS!Answered, LS!Lost,
              LS!ClientUnchanged, LS!serverVars, LS!threadVars
<1>7. LS!Sigint => th' = th /\ sem' = sem /\ connfd' = connfd
  BY DEF LS!Sigint, LS!threadVars
<1> QED
  BY <1>3, <1>4, <1>5, <1>6, <1>7 DEF LS!Next, Conns

(* A thread that only moves on its own disturbs no one.                     *)
LEMMA ThreadMove ==
  ASSUME LInv, NEW t \in Conns, ConnsUnchanged, LThread(t)',
         th'[t] \in Working => th[t] \in Working /\ fd'[t] = fd[t],
         \A u \in Conns : u # t => th'[u] = th[u] /\ fd'[u] = fd[u] /\ got'[u] = got[u]
  PROVE  LRest'
<1> USE DEF LInv, LRest, ConnsUnchanged
<1>0. Conns' = Conns /\ Index' = Index /\ Clients' = Clients
  BY DEF Conns, LS!Conns, Index, LS!Index
<1>1. LUnique'
  BY <1>0 DEF LUnique
<1>2. LOwners'
  BY <1>0 DEF LOwners
<1>3. \A n \in Conns : LConn(n)'
  BY DEF LConn, Asks, Gone, NotOwn
<1>4. \A u \in Conns : LThread(u)'
  BY DEF LThread, Asks, Gone, NotOwn
<1>5. \A c \in Clients : LClient(c)'
  BY <1>0 DEF LClient
<1> QED
  BY <1>0, <1>1, <1>2, <1>3, <1>4, <1>5

LEMMA LetterMoves ==
  ASSUME LInv, NEW t \in Conns,
         \/ LS!ReadFd(t) \/ LS!RdEnter(t) \/ LS!RdLeave(t) \/ LS!WrEnter(t)
         \/ LS!WrTest(t) \/ LS!WrFull(t) \/ LS!WrLeave(t)
  PROVE  LRest'
<1> USE DEF LInv, LS!At, LS!Goto, LS!serverVars, LS!connVars, LS!clientVars
<1>0. /\ th \in [Conns -> {"none", "born", "recv", "done", "rdstop", "wrstop"} \cup Working]
      /\ fd \in [Conns -> 0 .. MaxConn]
      /\ got \in [Conns -> [index : Index, status : {"none", "OK", "ALREADLY_RESERVED"}]]
      /\ LThread(t)
  BY DEF LTypes, LRest
<1>1. ConnsUnchanged
  BY DEF ConnsUnchanged, LS!ReadFd, LS!RdEnter, LS!RdLeave, LS!WrEnter,
         LS!WrTest, LS!WrFull, LS!WrLeave
<1>2. \A u \in Conns : u # t => th'[u] = th[u] /\ fd'[u] = fd[u] /\ got'[u] = got[u]
  BY <1>0 DEF LS!ReadFd, LS!RdEnter, LS!RdLeave, LS!WrEnter,
              LS!WrTest, LS!WrFull, LS!WrLeave
<1>3. th'[t] \in Working => th[t] \in Working /\ fd'[t] = fd[t]
  BY <1>0 DEF Working, Reading, Writing, LS!ReadFd, LS!RdEnter, LS!RdLeave, LS!WrEnter,
              LS!WrTest, LS!WrFull, LS!WrLeave
<1>4. LThread(t)'
  <2> USE DEF LThread, Working, Reading, Writing
  <2>1. CASE LS!ReadFd(t)
    BY <1>0, <2>1 DEF LS!ReadFd
  <2>2. CASE LS!RdEnter(t)
    BY <1>0, <2>2 DEF LS!RdEnter, Asks, Gone
  <2>3. CASE LS!RdLeave(t)
    BY <1>0, <2>3 DEF LS!RdLeave
  <2>4. CASE LS!WrEnter(t)
    BY <1>0, <2>4 DEF LS!WrEnter, Asks, Gone, NotOwn
  <2>5. CASE LS!WrTest(t)
    <3>1. got[t].index \in Index /\ fd[t] \in Conns
      BY <1>0, <2>5 DEF LS!WrTest
    <3>2. got[t].index \notin free => owners[got[t].index] # {}
      BY <3>1 DEF LRest, LOwners
    <3>3. /\ got'[t].index = got[t].index
          /\ got'[t].status = IF got[t].index \in free THEN "OK" ELSE "ALREADLY_RESERVED"
          /\ th'[t] = IF got[t].index \in free THEN "mark" ELSE "full"
      BY <1>0, <2>5 DEF LS!WrTest
    <3> QED
      BY <1>0, <2>5, <3>1, <3>2, <3>3 DEF LS!WrTest, Asks, Gone, NotOwn
  <2>6. CASE LS!WrFull(t)
    BY <1>0, <2>6 DEF LS!WrFull, Asks, Gone, NotOwn
  <2>7. CASE LS!WrLeave(t)
    BY <1>0, <2>7 DEF LS!WrLeave
  <2> QED
    BY <2>1, <2>2, <2>3, <2>4, <2>5, <2>6, <2>7
<1> QED
  BY <1>1, <1>2, <1>3, <1>4, ThreadMove

LEMMA LetterAccept == ASSUME LInv, LS!Accept PROVE LRest'
<1>1. PICK t \in Conns :
        th' = [th EXCEPT ![t] = "born"] /\ UNCHANGED <<fd, got>> /\ ConnsUnchanged
  <2>1. connfd + 1 \in Conns
    BY DEF LInv, LTypes, LetterSizes, Conns, LS!Conns, LS!Accept
  <2> QED
    BY <2>1 DEF LS!Accept, ConnsUnchanged, LS!serverVars, LS!connVars, LS!clientVars
<1>2. th'[t] = "born" /\ \A u \in Conns : u # t => th'[u] = th[u]
  BY <1>1 DEF LInv, LTypes
<1>3. LThread(t)'
  BY <1>2 DEF LThread, Working, Reading, Writing
<1> QED
  BY <1>1, <1>2, <1>3, ThreadMove DEF Working, Reading, Writing

(* What the invariant says of a thread at work, while the server is up.     *)
LEMMA AtWork ==
  ASSUME LInv, up, NEW t \in Conns, th[t] \in Working
  PROVE  /\ fd[t] \in Conns /\ fd[t] <= opened /\ peer[fd[t]] \in Clients
         /\ inbox[fd[t]].type = "none" /\ reply[fd[t]].status = "none"
         /\ Asks(fd[t], IF th[t] \in Reading THEN "reading" ELSE "writing")
         /\ th[t] \in Writing => got[t].index = index[peer[fd[t]]]
         /\ got[t].index \in Index
         /\ \A u \in Conns : th[u] \in Working /\ fd[u] = fd[t] => u = t
<1>1. LThread(t) /\ LUnique /\ \A n \in Conns : LConn(n)
  BY DEF LInv, LRest
<1>2. fd[t] \in Conns /\ fd[t] <= opened
  BY <1>1 DEF LThread
<1>3. peer[fd[t]] \in Clients
  BY <1>1, <1>2 DEF LConn
<1>4. got[t].index \in Index
  BY DEF LInv, LTypes
<1>5. \A u \in Conns : th[u] \in Working /\ fd[u] = fd[t] => u = t
  BY <1>1 DEF LUnique
<1>6. Asks(fd[t], IF th[t] \in Reading THEN "reading" ELSE "writing")
  BY <1>1 DEF LThread, Gone, Working
<1> QED
  BY <1>1, <1>2, <1>3, <1>4, <1>5, <1>6 DEF LThread, Gone

LEMMA LetterRecv == ASSUME LInv, NEW t \in Conns, LS!Recv(t) PROVE LRest'
<1> USE DEF LInv, LRest
<1>0. Conns' = Conns /\ Index' = Index
  BY DEF Conns, LS!Conns, Index, LS!Index
<1>1. PICK n \in Conns : n = fd[t]
  BY DEF LS!Recv, LTypes, LS!None, Conns, LS!Conns, LetterSizes
<1> DEFINE m == inbox[n]
<1>2. /\ up /\ th[t] = "recv" /\ m.type # "none"
      /\ th' = [th EXCEPT ![t] = CASE m.type = "r" -> "rd" [] m.type = "w" -> "wr" [] OTHER -> "done"]
      /\ got' = [got EXCEPT ![t] = [index |-> m.index, status |-> "none"]]
      /\ inbox' = IF m.type = "eof" THEN inbox ELSE [inbox EXCEPT ![n] = LS!NoRequest]
      /\ UNCHANGED <<up, free, opened, peer, reply, fd, cl, mine, index, owners>>
  BY <1>1 DEF LS!Recv, LS!At, LS!Goto, LS!serverVars, LS!clientVars
<1>3. /\ th'[t] = CASE m.type = "r" -> "rd" [] m.type = "w" -> "wr" [] OTHER -> "done"
      /\ got'[t].index = m.index
      /\ \A u \in Conns : u # t => th'[u] = th[u] /\ got'[u] = got[u]
      /\ \A k \in Conns : k # n => inbox'[k] = inbox[k]
      /\ m.type # "eof" => inbox'[n].type = "none"
      /\ m.type = "eof" => inbox' = inbox
      /\ m.type \in {"r", "w", "eof"}
  BY <1>2 DEF LTypes, LS!NoRequest
<1>4. \A u \in Conns : th[u] \in Working => fd[u] # n
  BY <1>2 DEF LThread
<1>5. LUnique'
  BY <1>0, <1>1, <1>2, <1>3, <1>4 DEF LUnique
<1>6. LOwners'
  BY <1>0, <1>2 DEF LOwners
<1>7. ASSUME NEW k \in Conns PROVE LConn(k)'
  BY SMTT(30), <1>2, <1>3 DEF LConn, Asks, Gone, NotOwn
<1>8. ASSUME NEW u \in Conns PROVE LThread(u)'
  <2>1. CASE u # t
    BY <1>2, <1>3, <1>4, <2>1 DEF LThread, Asks, Gone, NotOwn
  <2>2. CASE u = t
    <3>1. n <= opened /\ reply[n].status = "none"
      BY <1>2 DEF LConn, LTypes, Conns, LS!Conns
    <3>2. CASE m.type = "r"
      <4>1. Asks(n, "reading")
        BY <1>2, <3>2 DEF LConn, Gone
      <4> QED
        BY <1>1, <1>2, <1>3, <2>2, <3>1, <3>2, <4>1
        DEF LThread, Asks, Gone, Working, Reading, Writing
    <3>3. CASE m.type = "w"
      <4>1. Asks(n, "writing") /\ m.index = index[peer[n]] /\ NotOwn(n)
        BY <1>2, <3>3 DEF LConn, Gone
      <4> QED
        BY <1>1, <1>2, <1>3, <2>2, <3>1, <3>3, <4>1
        DEF LThread, Asks, Gone, NotOwn, Working, Reading, Writing
    <3>4. CASE m.type = "eof"
      BY <1>3, <2>2, <3>4 DEF LThread, Working, Reading, Writing
    <3> QED
      BY <1>3, <3>2, <3>3, <3>4
  <2> QED
    BY <2>1, <2>2
<1>9. \A c \in Clients : LClient(c)'
  BY <1>0, <1>2 DEF LClient
<1> QED
  BY <1>0, <1>5, <1>6, <1>7, <1>8, <1>9

(* A thread puts the reply on its connection.                               *)
LEMMA LetterSend ==
  ASSUME LInv, NEW t \in Conns, LS!RdSend(t) \/ LS!WrSend(t)
  PROVE  LRest'
<1> USE DEF LInv, LRest
<1>0. Conns' = Conns /\ Index' = Index
  BY DEF Conns, LS!Conns, Index, LS!Index
<1>1. up /\ th[t] \in {"copy", "wrsend"} /\ th[t] \in Working
  BY DEF LS!RdSend, LS!WrSend, LS!At, Working, Reading, Writing
<1>2. PICK n \in Conns : n = fd[t]
  BY <1>1, AtWork
<1>3. /\ th'[t] \notin Working
      /\ \A u \in Conns : u # t => th'[u] = th[u]
      /\ \A k \in Conns : k # n => reply'[k] = reply[k]
      /\ th[t] = "copy" => reply'[n].status = "letters" /\ reply'[n].free = free
      /\ th[t] = "wrsend" => reply'[n].status = got[t].status
      /\ UNCHANGED <<up, free, opened, peer, inbox, fd, got, cl, mine, index, owners>>
  <2>1. CASE LS!RdSend(t)
    BY <1>2, <2>1 DEF LS!RdSend, LS!At, LS!Goto, LS!serverVars, LS!clientVars, LTypes,
                      Working, Reading, Writing
  <2>2. CASE LS!WrSend(t)
    BY <1>2, <2>2 DEF LS!WrSend, LS!At, LS!Goto, LS!serverVars, LS!clientVars, LTypes,
                      Working, Reading, Writing
  <2> QED
    BY <2>1, <2>2
<1>4. \A u \in Conns : u # t /\ th[u] \in Working => fd[u] # n
  BY <1>1, <1>2, AtWork
<1>5. LUnique'
  BY <1>0, <1>3 DEF LUnique
<1>6. LOwners'
  BY <1>0, <1>3 DEF LOwners
<1>7. ASSUME NEW k \in Conns PROVE LConn(k)'
  <2>1. CASE k # n
    BY <1>3, <2>1 DEF LConn, Asks, Gone, NotOwn
  <2>2. CASE k = n /\ th[t] = "copy"
    <3>1. Asks(n, "reading") /\ n <= opened /\ inbox[n].type = "none" /\ LConn(n)
      BY <1>1, <1>2, <2>2, AtWork DEF Reading
    <3>2. \A i \in free : owners[i] # {peer[n]}
      BY DEF LOwners, LTypes
    <3> QED
      BY <1>3, <2>2, <3>1, <3>2 DEF LConn, Asks, LTypes, Conns, LS!Conns
  <2>3. CASE k = n /\ th[t] = "wrsend"
    <3>1. Asks(n, "writing") /\ n <= opened /\ inbox[n].type = "none" /\ LConn(n)
          /\ got[t].index = index[peer[n]]
      BY <1>1, <1>2, <2>3, AtWork DEF Reading, Writing
    <3>2. /\ got[t].status \in {"OK", "ALREADLY_RESERVED"}
          /\ IF got[t].status = "OK" THEN owners[got[t].index] = {peer[n]}
             ELSE NotOwn(n) /\ owners[got[t].index] # {}
      BY <1>1, <1>2, <2>3 DEF LThread, Gone
    <3> QED
      BY <1>3, <2>3, <3>1, <3>2 DEF LConn, Asks, NotOwn, LTypes, Conns, LS!Conns
  <2> QED
    BY <1>1, <2>1, <2>2, <2>3
<1>8. ASSUME NEW u \in Conns PROVE LThread(u)'
  <2>1. CASE u # t
    BY <1>3, <1>4, <2>1 DEF LThread, Asks, Gone, NotOwn
  <2>2. CASE u = t
    BY <1>3, <2>2 DEF LThread, Working, Reading, Writing
  <2> QED
    BY <2>1, <2>2
<1>9. \A c \in Clients : LClient(c)'
  BY <1>0, <1>3 DEF LClient
<1> QED
  BY <1>0, <1>5, <1>6, <1>7, <1>8, <1>9

(* arr[index] = ' ': the letter was free, so no reply depends on its owner; *)
(* its new owner waits for this very thread.                                *)
LEMMA LetterMark == ASSUME LInv, NEW t \in Conns, LS!WrMark(t) PROVE LRest'
<1> USE DEF LInv, LRest
<1>0. Conns' = Conns /\ Index' = Index
  BY DEF Conns, LS!Conns, Index, LS!Index
<1>1. up /\ th[t] = "mark" /\ th[t] \in Working
  BY DEF LS!WrMark, LS!At, Working, Writing
<1>2. PICK n \in Conns : n = fd[t]
  BY <1>1, AtWork
<1>3. PICK i \in Index : i = got[t].index
  BY <1>1, AtWork
<1>4. PICK c \in Clients : c = peer[n]
  BY <1>1, <1>2, AtWork
<1>5. /\ mine[c] = n /\ cl[c] = "writing" /\ index[c] = i /\ inbox[n].type = "none"
      /\ i \in free /\ owners[i] = {} /\ got[t].status = "OK" /\ LThread(t)
  <2>1. Asks(n, "writing") /\ index[c] = i /\ inbox[n].type = "none"
    BY <1>1, <1>2, <1>3, <1>4, AtWork DEF Reading, Writing
  <2>2. i \in free /\ got[t].status = "OK" /\ LThread(t)
    BY <1>1, <1>3 DEF LThread
  <2> QED
    BY <1>4, <2>1, <2>2 DEF Asks, LOwners
<1>6. /\ th'[t] = "full" /\ \A u \in Conns : u # t => th'[u] = th[u]
      /\ free' = free \ {i}
      /\ owners'[i] = {c} /\ \A j \in Index : j # i => owners'[j] = owners[j]
      /\ UNCHANGED <<up, opened, peer, inbox, reply, fd, got, cl, mine, index>>
  BY <1>2, <1>3, <1>4, <1>5
  DEF LS!WrMark, LS!At, LS!Goto, LS!connVars, LS!clientVars, LTypes
<1>7. \A u \in Conns : /\ u # t /\ th[u] \in Working => fd[u] # n
                       /\ u # t => th[u] # "mark"
  <2>1. \A u \in Conns : u # t /\ th[u] \in Working => fd[u] # n
    BY <1>1, <1>2, AtWork
  <2>2. \A u \in Conns : u # t => th[u] # "mark"
    BY <1>1 DEF LCounts, InWrite
  <2> QED
    BY <2>1, <2>2
<1>8. LUnique'
  BY <1>0, <1>1, <1>6 DEF LUnique
<1>9. LOwners'
  BY <1>0, <1>6 DEF LOwners
<1>10. ASSUME NEW k \in Conns PROVE LConn(k)'
  <2>1. peer[k] \in Clients => index[peer[k]] \in Index
    BY DEF LTypes
  <2>2. inbox[k].type # "none" \/ reply[k].status # "none" => peer[k] \in Clients
    BY DEF LConn, LTypes, Conns, LS!Conns
  <2>3. inbox[k].type = "w" => peer[k] # c
    BY <1>1, <1>5 DEF LConn, Asks, Gone
  <2>4. reply[k].status = "letters" => peer[k] # c /\ reply[k].free \subseteq Index
    BY <1>5 DEF LConn, Asks, LTypes
  <2> QED
    BY SMTT(30), <1>1, <1>5, <1>6, <2>1, <2>2, <2>3, <2>4 DEF LConn, Asks, Gone, NotOwn
<1>11. ASSUME NEW u \in Conns PROVE LThread(u)'
  <2>1. CASE u = t
    BY <1>1, <1>2, <1>3, <1>4, <1>5, <1>6, <2>1
    DEF LThread, Asks, Gone, NotOwn, Working, Reading, Writing
  <2>2. CASE u # t /\ th[u] \notin Working
    BY <1>6, <2>2 DEF LThread, Working, Reading, Writing
  <2>3. CASE u # t /\ th[u] \in Working
    <3>1. LThread(u) /\ th[u] # "mark" /\ fd[u] # n
      BY <1>7, <2>3
    <3>2. /\ fd[u] \in Conns /\ peer[fd[u]] \in Clients /\ got[u].index \in Index
          /\ th[u] \in Writing => got[u].index = index[peer[fd[u]]]
          /\ mine[peer[fd[u]]] = fd[u]
      BY <1>1, <2>3, AtWork DEF Asks
    <3>3. peer[fd[u]] # c
      BY <1>5, <3>1, <3>2
    <3> QED
      BY <1>1, <1>5, <1>6, <2>3, <3>1, <3>2, <3>3
      DEF LThread, Asks, Gone, NotOwn, Working, Reading, Writing
  <2> QED
    BY <2>1, <2>2, <2>3
<1>12. ASSUME NEW d \in Clients PROVE LClient(d)'
  <2>1. index[d] \in Index /\ (cl[d] = "thinking" => d # c)
    BY <1>5 DEF LTypes
  <2> QED
    BY <1>6, <2>1 DEF LClient
<1> QED
  BY <1>0, <1>8, <1>9, <1>10, <1>11, <1>12

LEMMA LetterSigint == ASSUME LInv, LS!Sigint PROVE LRest'
<1> USE DEF LInv, LRest
<1>1. up /\ UNCHANGED <<free, opened, peer, inbox, reply, th, fd, got, cl, mine, index, owners>>
  BY DEF LS!Sigint, LS!connVars, LS!threadVars, LS!clientVars
<1>2. Conns' = Conns /\ Index' = Index
  BY DEF Conns, LS!Conns, Index, LS!Index
<1>3. LUnique' /\ LOwners'
  BY <1>1, <1>2 DEF LUnique, LOwners
<1>4. ASSUME NEW n \in Conns PROVE LConn(n)' /\ LThread(n)'
  BY <1>1 DEF LConn, LThread, Asks, Gone, NotOwn
<1>5. \A c \in Clients : LClient(c)'
  BY <1>1, <1>2 DEF LClient
<1> QED
  BY <1>2, <1>3, <1>4, <1>5

(* A step of client c leaves the threads and the letters alone, and the     *)
(* connections it does not hold are not about it.                           *)
LEMMA ClientMove ==
  ASSUME LInv, NEW c \in Clients,
         UNCHANGED <<up, free, th, fd, got, owners>>,
         \A n \in Conns : LConn(n)',
         \A t \in Conns : th[t] \in Working => LThread(t)',
         \A d \in Clients : LClient(d)'
  PROVE  LRest'
<1>1. Conns' = Conns /\ Index' = Index
  BY DEF Conns, LS!Conns, Index, LS!Index
<1>2. LUnique' /\ LOwners'
  BY <1>1 DEF LInv, LRest, LUnique, LOwners
<1>3. \A t \in Conns : th[t] \notin Working => LThread(t)'
  BY DEF LThread, Working, Reading, Writing
<1> QED
  BY <1>1, <1>2, <1>3 DEF LRest

(* The connections of client c that carry something: the one it holds, and  *)
(* none when it waits for nothing.                                          *)
LEMMA HeldBy ==
  ASSUME LInv, NEW c \in Clients, cl[c] # "exited", NEW n \in Conns, peer[n] = c
  PROVE  /\ \/ inbox[n].type \in {"r", "w"} \/ reply[n].status # "none"
            \/ \E t \in Conns : th[t] \in Working /\ fd[t] = n
            => mine[c] = n /\ cl[c] \in {"reading", "writing"}
<1>1. LConn(n) /\ \A t \in Conns : LThread(t)
  BY DEF LInv, LRest
<1>2. ASSUME inbox[n].type \in {"r", "w"} \/ reply[n].status # "none"
      PROVE  mine[c] = n /\ cl[c] \in {"reading", "writing"}
  <2>1. reply[n].status \in {"none", "letters", "OK", "ALREADLY_RESERVED"}
    BY DEF LInv, LTypes
  <2> QED
    BY <1>1, <1>2, <2>1 DEF LConn, Asks, Gone
<1>3. ASSUME NEW t \in Conns, th[t] \in Working, fd[t] = n
      PROVE  mine[c] = n /\ cl[c] \in {"reading", "writing"}
  BY <1>1, <1>3 DEF LThread, Asks, Gone, Working
<1> QED
  BY <1>2, <1>3

LEMMA LetterLost == ASSUME LInv, NEW c \in Clients, LS!Lost(c) PROVE LRest'
<1> USE DEF LInv, LRest
<1>1. /\ ~ up /\ cl[c] # "exited" /\ reply[mine[c]].status = "none"
      /\ cl' = [cl EXCEPT ![c] = "exited"] /\ cl'[c] = "exited"
      /\ \A d \in Clients : d # c => cl'[d] = cl[d]
      /\ UNCHANGED <<up, free, th, fd, got, owners, opened, peer, inbox, reply, mine, index>>
  BY DEF LS!Lost, LS!ClientUnchanged, LS!serverVars, LS!threadVars, LS!connVars, LTypes
<1>2. ASSUME NEW n \in Conns PROVE LConn(n)'
  <2>1. peer[n] = c => reply[n].status = "none"
    BY <1>1, HeldBy
  <2>2. peer[n] # c /\ n <= opened => cl'[peer[n]] = cl[peer[n]]
    BY <1>1 DEF LConn
  <2>3. n <= opened \/ n > opened
    BY DEF LTypes, Conns, LS!Conns
  <2> QED
    BY <1>1, <2>1, <2>2, <2>3 DEF LConn, Asks, Gone, NotOwn
<1>3. ASSUME NEW t \in Conns, th[t] \in Working PROVE LThread(t)'
  <2>1. fd[t] \in Conns /\ peer[fd[t]] \in Clients
    BY <1>3 DEF LThread, LConn
  <2> QED
    BY <1>1, <1>3, <2>1 DEF LThread, Asks, Gone, NotOwn
<1>4. \A d \in Clients : LClient(d)'
  BY <1>1 DEF LClient
<1> QED
  BY <1>1, <1>2, <1>3, <1>4, ClientMove

(* A step of client c on connection n disturbs nothing elsewhere.           *)
LEMMA Elsewhere ==
  ASSUME LInv, NEW c \in Clients, cl[c] # "exited", NEW n \in Nat,
         cl[c] \in {"reading", "writing"} => mine[c] = n,
         UNCHANGED <<up, free, th, fd, got, owners>>,
         opened' = opened \/ (opened' = opened + 1 /\ n = opened + 1),
         \A d \in Clients : d # c => cl'[d] = cl[d] /\ mine'[d] = mine[d] /\ index'[d] = index[d],
         \A k \in Conns : k # n => peer'[k] = peer[k] /\ inbox'[k] = inbox[k] /\ reply'[k] = reply[k]
  PROVE  /\ \A k \in Conns : k # n => LConn(k)'
         /\ \A t \in Conns : th[t] \in Working /\ fd[t] # n => LThread(t)'
<1>0. opened \in Nat /\ \A k \in Conns : k \in Nat
  BY DEF LInv, LTypes, Conns, LS!Conns, LetterSizes
<1>1. ASSUME NEW k \in Conns, k # n PROVE LConn(k)'
  <2>1. LConn(k) /\ (k <= opened' <=> k <= opened) /\ (k > opened' <=> k > opened)
        /\ (k <= opened \/ k > opened)
    BY <1>0, <1>1 DEF LInv, LRest
  <2>2. peer'[k] = peer[k] /\ inbox'[k] = inbox[k] /\ reply'[k] = reply[k]
    BY <1>1
  <2>3. CASE peer[k] = c
    <3>1. inbox[k].type \notin {"r", "w"} /\ reply[k].status = "none"
      BY <1>1, <2>3, HeldBy
    <3> QED
      BY <2>1, <2>2, <2>3, <3>1 DEF LConn
  <2>4. CASE peer[k] # c /\ k <= opened
    <3>1. peer[k] \in Clients
      BY <2>1, <2>4 DEF LConn
    <3>2. cl'[peer[k]] = cl[peer[k]] /\ mine'[peer[k]] = mine[peer[k]]
          /\ index'[peer[k]] = index[peer[k]]
      BY <2>4, <3>1
    <3> QED
      BY <2>1, <2>2, <3>1, <3>2 DEF LConn, Asks, Gone, NotOwn
  <2>5. CASE k > opened
    BY <2>1, <2>2, <2>5 DEF LConn
  <2> QED
    BY <2>1, <2>3, <2>4, <2>5
<1>2. ASSUME NEW t \in Conns, th[t] \in Working, fd[t] # n PROVE LThread(t)'
  <2>1. LThread(t) /\ fd[t] \in Conns /\ fd[t] <= opened /\ peer[fd[t]] \in Clients
    BY <1>2 DEF LInv, LRest, LThread, LConn
  <2>2. peer[fd[t]] # c
    BY <1>2, <2>1, HeldBy
  <2>3. /\ cl'[peer[fd[t]]] = cl[peer[fd[t]]] /\ mine'[peer[fd[t]]] = mine[peer[fd[t]]]
        /\ index'[peer[fd[t]]] = index[peer[fd[t]]]
        /\ peer'[fd[t]] = peer[fd[t]] /\ inbox'[fd[t]] = inbox[fd[t]]
        /\ reply'[fd[t]] = reply[fd[t]] /\ fd[t] <= opened'
    BY <1>0, <1>2, <2>1, <2>2
  <2> QED
    BY <2>1, <2>3 DEF LThread, Asks, Gone, NotOwn
<1> QED
  BY <1>1, <1>2

(* Between a reply and the next request no thread works on the connection.  *)
LEMMA LetterReserve == ASSUME LInv, NEW c \in Clients, LS!Reserve(c) PROVE LRest'
<1>1. PICK n \in Conns : n = mine[c] /\ n \in Nat /\ n <= opened /\ peer[n] = c
  BY DEF LInv, LRest, LClient, LTypes, LS!Reserve, LS!serverVars
<1>2. /\ cl[c] = "thinking" /\ cl'[c] = "writing"
      /\ inbox'[n] = [type |-> "w", index |-> index[c]]
      /\ \A d \in Clients : d # c => cl'[d] = cl[d]
      /\ \A k \in Conns : k # n => inbox'[k] = inbox[k]
      /\ UNCHANGED <<up, free, th, fd, got, owners, opened, peer, reply, mine, index>>
  BY <1>1 DEF LS!Reserve, LS!ClientUnchanged, LS!serverVars, LS!threadVars, LInv, LTypes
<1>3. /\ \A k \in Conns : k # n => LConn(k)'
      /\ \A t \in Conns : th[t] \in Working /\ fd[t] # n => LThread(t)'
  BY <1>1, <1>2, Elsewhere
<1>4. reply[n].status = "none" /\ \A t \in Conns : th[t] \in Working => fd[t] # n
  BY <1>1, <1>2, HeldBy
<1>5. owners[index[c]] # {c} /\ \A d \in Clients : LClient(d)
  BY <1>2 DEF LInv, LRest, LClient
<1>6. LConn(n)'
  BY <1>1, <1>2, <1>4, <1>5 DEF LConn, Asks, NotOwn, LInv, LTypes
<1>7. \A d \in Clients : LClient(d)'
  BY <1>1, <1>2, <1>5 DEF LClient
<1> QED
  BY <1>2, <1>3, <1>4, <1>6, <1>7, ClientMove

LEMMA LetterAnswered == ASSUME LInv, NEW c \in Clients, LS!Answered(c) PROVE LRest'
<1>1. PICK n \in Conns : n = mine[c] /\ n \in Nat /\ n <= opened /\ peer[n] = c
  BY DEF LInv, LRest, LClient, LTypes, LS!Answered
<1>2. /\ cl[c] = "writing" /\ cl'[c] = "idle" /\ reply[n].status # "none"
      /\ inbox'[n].type = "eof" /\ reply'[n].status = "none"
      /\ \A d \in Clients : d # c => cl'[d] = cl[d] /\ mine'[d] = mine[d]
      /\ \A k \in Conns : k # n => inbox'[k] = inbox[k] /\ reply'[k] = reply[k]
      /\ UNCHANGED <<up, free, th, fd, got, owners, opened, peer, index>>
  BY <1>1 DEF LS!Answered, LS!NoReply, LS!ClientUnchanged, LS!serverVars, LS!threadVars,
              LInv, LTypes
<1>3. /\ \A k \in Conns : k # n => LConn(k)'
      /\ \A t \in Conns : th[t] \in Working /\ fd[t] # n => LThread(t)'
  BY <1>1, <1>2, Elsewhere
<1>4. \A t \in Conns : th[t] \in Working => fd[t] # n
  BY <1>2 DEF LInv, LRest, LThread
<1>5. LConn(n)'
  BY <1>1, <1>2 DEF LConn, LInv, LTypes
<1>6. \A d \in Clients : LClient(d)'
  BY <1>2 DEF LClient, LInv, LRest
<1> QED
  BY <1>2, <1>3, <1>4, <1>5, <1>6, ClientMove

LEMMA LetterPick == ASSUME LInv, NEW c \in Clients, LS!Pick(c) PROVE LRest'
<1>1. PICK n \in Conns : n = mine[c] /\ n \in Nat /\ n <= opened /\ peer[n] = c
  BY DEF LInv, LRest, LClient, LTypes, LS!Pick
<1> DEFINE letters == reply[n].free
<1>2. /\ cl[c] = "reading" /\ reply[n].status = "letters"
      /\ reply'[n].status = "none"
      /\ \A d \in Clients : d # c => cl'[d] = cl[d] /\ index'[d] = index[d]
      /\ \A k \in Conns : k # n => inbox'[k] = inbox[k] /\ reply'[k] = reply[k]
      /\ UNCHANGED <<up, free, th, fd, got, owners, opened, peer, mine>>
  BY <1>1 DEF LS!Pick, LS!NoReply, LS!ClientUnchanged, LS!serverVars, LS!threadVars, LInv, LTypes
<1>3. LConn(n) /\ inbox[n].type = "none" /\ letters \subseteq Index
  BY <1>2 DEF LInv, LRest, LConn, LTypes
<1>4. \/ letters = {} /\ cl'[c] = "exited" /\ inbox'[n].type = "eof"
      \/ letters # {} /\ cl'[c] = "thinking" /\ inbox' = inbox /\ owners[index'[c]] # {c}
  <2>1. CASE letters = {}
    BY <1>1, <2>1 DEF LS!Pick, LInv, LTypes
  <2>2. CASE letters # {}
    <3>1. /\ cl'[c] = "thinking" /\ inbox' = inbox
          /\ index'[c] = CHOOSE i \in letters : \A j \in letters : i <= j
      BY <1>1, <2>2 DEF LS!Pick, LInv, LTypes
    <3>2. letters \subseteq Nat
      BY <1>3, ThreadsAssumption DEF Index, LS!Index
    <3>3. \A i \in letters : owners[i] # {c}
      BY <1>1, <1>2, <1>3 DEF LConn
    <3> HIDE DEF letters
    <3>4. index'[c] \in letters
      BY <2>2, <3>1, <3>2, FirstOf
    <3> QED
      BY <2>2, <3>1, <3>3, <3>4
  <2> QED
    BY <2>1, <2>2
<1>5. /\ \A k \in Conns : k # n => LConn(k)'
      /\ \A t \in Conns : th[t] \in Working /\ fd[t] # n => LThread(t)'
  BY <1>1, <1>2, Elsewhere
<1>6. \A t \in Conns : th[t] \in Working => fd[t] # n
  BY <1>2 DEF LInv, LRest, LThread
<1>7. LConn(n)'
  BY <1>1, <1>2, <1>3, <1>4 DEF LConn, LInv, LTypes
<1>8. \A d \in Clients : LClient(d)'
  BY <1>1, <1>2, <1>4 DEF LClient, LInv, LRest
<1> QED
  BY <1>2, <1>5, <1>6, <1>7, <1>8, ClientMove

LEMMA LetterConnect == ASSUME LInv, NEW c \in Clients, LS!Connect(c) PROVE LRest'
<1>0. cl[c] = "idle" /\ UNCHANGED <<up, free, th, fd, got, owners, reply, index>>
  BY DEF LS!Connect, LS!ClientUnchanged, LS!serverVars, LS!threadVars
<1>1. CASE up
  <2>1. PICK n \in Conns : n \in Nat /\ n = opened + 1 /\ opened' = n /\ opened \in Nat
    BY <1>1 DEF LS!Connect, LInv, LTypes, LetterSizes, Conns, LS!Conns
  <2>2. /\ cl'[c] = "reading" /\ mine'[c] = n /\ peer'[n] = c /\ inbox'[n].type = "r"
        /\ \A d \in Clients : d # c => cl'[d] = cl[d] /\ mine'[d] = mine[d]
        /\ \A k \in Conns : k # n => peer'[k] = peer[k] /\ inbox'[k] = inbox[k]
    BY <1>1, <2>1 DEF LS!Connect, LInv, LTypes
  <2>3. /\ \A k \in Conns : k # n => LConn(k)'
        /\ \A t \in Conns : th[t] \in Working /\ fd[t] # n => LThread(t)'
    BY <1>0, <2>1, <2>2, Elsewhere
  <2>4. reply[n].status = "none" /\ \A t \in Conns : th[t] \in Working => fd[t] # n
    BY <2>1 DEF LInv, LRest, LConn, LThread
  <2>5. LConn(n)'
    BY <1>0, <2>1, <2>2, <2>4 DEF LConn, Asks
  <2>6. ASSUME NEW d \in Clients PROVE LClient(d)'
    <3>1. CASE d = c
      BY <1>0, <2>1, <2>2, <3>1 DEF LClient
    <3>2. CASE d # c
      <4>1. LClient(d)
        BY DEF LInv, LRest
      <4> QED
        BY <1>0, <2>1, <2>2, <3>2, <4>1 DEF LClient, Conns, LS!Conns
    <3> QED
      BY <3>1, <3>2
  <2> QED
    BY <1>0, <2>3, <2>4, <2>5, <2>6, ClientMove
<1>2. CASE ~ up
  <2>1. /\ UNCHANGED <<opened, peer, inbox, mine>> /\ cl'[c] = "exited"
        /\ \A d \in Clients : d # c => cl'[d] = cl[d]
    BY <1>2 DEF LS!Connect, LInv, LTypes
  <2>2. 0 \in Nat /\ \A k \in Conns : k # 0
    BY DEF Conns, LS!Conns
  <2>3. /\ \A k \in Conns : k # 0 => LConn(k)'
        /\ \A t \in Conns : th[t] \in Working /\ fd[t] # 0 => LThread(t)'
    BY <1>0, <2>1, <2>2, Elsewhere
  <2>4. \A t \in Conns : th[t] \in Working => fd[t] # 0
    BY <2>2 DEF LInv, LRest, LThread
  <2>5. \A d \in Clients : LClient(d)'
    BY <1>0, <2>1 DEF LClient, LInv, LRest
  <2> QED
    BY <1>0, <2>2, <2>3, <2>4, <2>5, ClientMove
<1> QED
  BY <1>1, <1>2

LEMMA LetterStep == LInv /\ [LS!Next]_(LS!vars) => LInv'
<1> SUFFICES ASSUME LInv, [LS!Next]_(LS!vars) PROVE LInv'
  OBVIOUS
<1>1. CASE LS!Next
  <2>1. LetterSizes' /\ LTypes' /\ LCounts' /\ LBorn'
    BY <1>1, LetterTypes, LetterCounts DEF LInv, LetterSizes
  <2>2. ASSUME NEW t \in Conns, LS!Thread(t) PROVE LRest'
    BY <2>2, LetterMoves, LetterRecv, LetterSend, LetterMark DEF LS!Thread
  <2>3. ASSUME NEW c \in Clients, LS!Client(c) PROVE LRest'
    BY <2>3, LetterConnect, LetterPick, LetterReserve, LetterAnswered, LetterLost DEF LS!Client
  <2>4. LRest'
    BY <1>1, <2>2, <2>3, LetterAccept, LetterSigint DEF LS!Next, Conns
  <2> QED
    BY <2>1, <2>4 DEF LInv
<1>2. CASE UNCHANGED LS!vars
  <2>1. /\ UNCHANGED <<up, sem, free, connfd, opened, peer, inbox, reply, th, fd, got>>
        /\ UNCHANGED <<cl, mine, index, owners>>
        /\ Conns' = Conns /\ Index' = Index
    BY <1>2 DEF LS!vars, LS!serverVars, LS!connVars, LS!threadVars, LS!clientVars,
                Conns, LS!Conns, Index, LS!Index
  <2>2. LTypes' /\ LetterSizes'
    BY <2>1 DEF LInv, LTypes, LetterSizes
  <2>3. LCounts' /\ LBorn'
    BY <2>1 DEF LInv, LCounts, LReaders, LBorn
  <2>4. LRest'
    <3>1. LUnique' /\ LOwners'
      BY <2>1 DEF LInv, LRest, LUnique, LOwners
    <3>2. \A n \in Conns : LConn(n)'
      BY <2>1 DEF LInv, LRest, LConn, Asks, Gone, NotOwn
    <3>3. \A t \in Conns : LThread(t)'
      BY <2>1 DEF LInv, LRest, LThread, Asks, Gone, NotOwn
    <3>4. \A c \in Clients : LClient(c)'
      BY <2>1 DEF LInv, LRest, LClient
    <3> QED
      BY <2>1, <3>1, <3>2, <3>3, <3>4 DEF LRest
  <2> QED
    BY <2>2, <2>3, <2>4 DEF LInv
<1> QED
  BY <1>1, <1>2

LEMMA TruthOfInv == LInv => LS!RepliesTruthful
<1> SUFFICES ASSUME LInv PROVE LS!RepliesTruthful
  OBVIOUS
<1>1. \A S : LS!Cardinality(S) = Cardinality(S)
  BY Zenon DEF LS!Cardinality, Cardinality
<1>2. \A i \in LS!Index : LS!Cardinality(owners[i]) <= 1
  <2> TAKE i \in LS!Index
  <2>1. owners[i] = {} \/ \E c : owners[i] = {c}
    BY DEF LInv, LRest, LOwners, Index
  <2>2. Cardinality(owners[i]) = 0 \/ Cardinality(owners[i]) = 1
    BY <2>1, FS_EmptySet, FS_Singleton
  <2> QED
    BY <1>1, <2>2
<1>3. ASSUME NEW c \in Clients, cl[c] = "writing"
      PROVE  /\ reply[mine[c]].status = "OK" => owners[index[c]] = {c}
             /\ reply[mine[c]].status = "ALREADLY_RESERVED" => owners[index[c]] \notin {{}, {c}}
  <2>1. mine[c] \in Conns /\ peer[mine[c]] = c /\ LConn(mine[c])
    BY <1>3 DEF LInv, LRest, LClient
  <2> QED
    BY <2>1 DEF LConn, NotOwn
<1> QED
  BY <1>2, <1>3 DEF LS!RepliesTruthful

(* The letter server gives each letter to one client at most, and a client  *)
(* that reads OK owns the letter it asked for, one that reads "already      *)
(* reserved" lost it to another, although it chose from a list that was     *)
(* stale by then and although two threads may serve its connection; for any *)
(* number of clients, letters and connections.                              *)
THEOREM LetterRepliesTruthful == ASSUME LetterSizes PROVE LS!Spec => []LS!RepliesTruthful
  BY InitLInv, LetterStep, TruthOfInv, PTL DEF LS!Spec
=============================================================================
