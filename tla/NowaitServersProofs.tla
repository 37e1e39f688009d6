------------------------- MODULE NowaitServersProofs --------------------------
(***************************************************************************)
(* The two buffer servers that use IPC_NOWAIT and no mutex, for any number *)
(* of clients, any ring and any number of requests: the epoll server       *)
(* (PcServerEpoll) and the one-connection-at-a-time server                 *)
(* (PcServerIterative) implement a bounded queue; the first refuses only   *)
(* what it must and carries out no request twice.                          *)
(*                                                                         *)
(* Both keep the same ring behind the same two semaphores, so what a store *)
(* and a fetch do to it is proved once.                                    *)
(***************************************************************************)
EXTENDS PcServerEpoll, SemRingProofs

CONSTANT WARMUP
VARIABLES main, flag, cur

I == INSTANCE PcServerIterative

N == ARR_SIZE

-----------------------------------------------------------------------------
(* The ring and its two semaphores.                                         *)

(* tail is as far ahead of head as SEM_FULL says, and SEM_EMPTY counts at   *)
(* most the rest of the ring.                                               *)
RingOK ==
  /\ sem \in [0 .. 1 -> Nat] /\ sem[0] + sem[1] <= N
  /\ ring \in [Slots -> 0 .. L]
  /\ head \in Slots /\ tail \in Slots
  /\ tail = (head + sem[1]) % N

LEMMA RingIs ==
  /\ N \in Nat \ {0} /\ Slots = 0 .. N - 1 /\ 0 \in Slots /\ L \in Nat \ {0}
  /\ Blank \in 0 .. L /\ \A x \in Letters : x \in 0 .. L /\ (x + 1) % L \in Letters
  /\ \A r \in [Slots -> 0 .. L] : r \in [0 .. N - 1 -> Nat]
<1>1. N \in Nat \ {0} /\ L \in Nat \ {0}
  BY EpollAssumption DEF N
<1>2. Slots = 0 .. N - 1 /\ 0 \in Slots
  BY <1>1 DEF N, Slots
<1>3. Blank \in 0 .. L /\ \A x \in Letters : x \in 0 .. L /\ (x + 1) % L \in Letters
  BY <1>1 DEF Blank, Letters
<1> QED
  BY <1>1, <1>2, <1>3

(* The buffer is Part of the ring, as long as SEM_FULL says.                *)
LEMMA BufferIs ==
  ASSUME RingOK
  PROVE  /\ Buffer = Part(N, head, sem[1], ring) /\ Len(Buffer) = sem[1]
         /\ sem[1] = 0 => Buffer = << >>
         /\ sem[1] \in 0 .. N /\ sem[0] \in 0 .. N
         /\ head \in 0 .. N - 1 /\ ring \in [0 .. N - 1 -> Nat]
<1>1. N \in Nat \ {0} /\ head \in 0 .. N - 1 /\ ring \in [0 .. N - 1 -> Nat]
  BY RingIs DEF RingOK
<1>2. sem[1] \in 0 .. N /\ sem[0] \in 0 .. N
  <2>1. sem[0] \in Nat /\ sem[1] \in Nat /\ sem[0] + sem[1] <= N
    BY DEF RingOK
  <2> QED
    BY <2>1, <1>1
<1>3. Buffer = Part(N, head, sem[1], ring)
  BY DEF Buffer, Part, N, SEM_FULL
<1>4. PartLaw(N, head, sem[1], ring)
  BY <1>1, <1>2, PartSeq
<1> QED
  BY <1>1, <1>2, <1>3, <1>4 DEF PartLaw

(* A struct sembuf on a set of two.                                         *)
LEMMA OnePair ==
  ASSUME NEW s \in [0 .. 1 -> Nat]
  PROVE  \A n \in 0 .. 1 :
           /\ (s ## <<n, -1>>) = IF s[n] > 0 THEN [s EXCEPT ![n] = @ - 1] ELSE Blocked
           /\ (s ## <<n, 1>>) = [s EXCEPT ![n] = @ + 1]
<1> TAKE n \in 0 .. 1
<1>1. (s ## <<n, -1>>) = IF s[n] > 0 THEN [s EXCEPT ![n] = @ - 1] ELSE Blocked
  BY Down
<1>2. (s ## <<n, 1>>) = [s EXCEPT ![n] = @ + 1]
  BY Add
<1> QED
  BY <1>1, <1>2

(* The four semop calls, and when two of them fail with EAGAIN.             *)
LEMMA Semops ==
  ASSUME NEW s \in [0 .. 1 -> Nat]
  PROVE  /\ (start_produce(s) = Blocked) <=> s[0] = 0
         /\ (start_consume(s) = Blocked) <=> s[1] = 0
         /\ s[0] > 0 => stop_produce(start_produce(s)) = [s EXCEPT ![0] = @ - 1, ![1] = @ + 1]
         /\ s[1] > 0 => stop_consume(start_consume(s)) = [s EXCEPT ![1] = @ - 1, ![0] = @ + 1]
<1> USE DEF SEM_EMPTY, SEM_FULL
<1>0. s[0] \in Nat /\ s[1] \in Nat /\ 0 \in 0 .. 1 /\ 1 \in 0 .. 1
  OBVIOUS
<1>1. start_produce(s) = IF s[0] > 0 THEN [s EXCEPT ![0] = @ - 1] ELSE Blocked
  BY <1>0, OnePair, Zenon DEF start_produce
<1>2. start_consume(s) = IF s[1] > 0 THEN [s EXCEPT ![1] = @ - 1] ELSE Blocked
  BY <1>0, OnePair, Zenon DEF start_consume
<1>3. \A t \in [0 .. 1 -> Nat] : t # Blocked
  <2> SUFFICES ASSUME NEW t \in [0 .. 1 -> Nat] PROVE t # Blocked
    OBVIOUS
  <2>1. t \in [0 .. 1 -> Int] /\ 0 \in 0 .. 1
    OBVIOUS
  <2> QED
    BY <2>1, SetIsNotBlocked
<1>4. ASSUME s[0] > 0 PROVE [s EXCEPT ![0] = @ - 1] \in [0 .. 1 -> Nat]
  BY <1>0, <1>4
<1>5. ASSUME s[1] > 0 PROVE [s EXCEPT ![1] = @ - 1] \in [0 .. 1 -> Nat]
  BY <1>0, <1>5
<1>6. ASSUME s[0] > 0
      PROVE  stop_produce(start_produce(s)) = [s EXCEPT ![0] = @ - 1, ![1] = @ + 1]
  <2> DEFINE t == [s EXCEPT ![0] = @ - 1]
  <2>1. t \in [0 .. 1 -> Nat] /\ start_produce(s) = t
    BY <1>1, <1>4, <1>6
  <2>2. [t EXCEPT ![1] = @ + 1] = [s EXCEPT ![0] = @ - 1, ![1] = @ + 1]
    OBVIOUS
  <2> HIDE DEF t
  <2>3. stop_produce(t) = [t EXCEPT ![1] = @ + 1]
    BY <1>0, <2>1, OnePair, Zenon DEF stop_produce
  <2> QED
    BY <2>1, <2>2, <2>3
<1>7. ASSUME s[1] > 0
      PROVE  stop_consume(start_consume(s)) = [s EXCEPT ![1] = @ - 1, ![0] = @ + 1]
  <2> DEFINE t == [s EXCEPT ![1] = @ - 1]
  <2>1. t \in [0 .. 1 -> Nat] /\ start_consume(s) = t
    BY <1>2, <1>5, <1>7
  <2>2. [t EXCEPT ![0] = @ + 1] = [s EXCEPT ![1] = @ - 1, ![0] = @ + 1]
    OBVIOUS
  <2> HIDE DEF t
  <2>3. stop_consume(t) = [t EXCEPT ![0] = @ + 1]
    BY <1>0, <2>1, OnePair, Zenon DEF stop_consume
  <2> QED
    BY <2>1, <2>2, <2>3
<1> QED
  BY <1>0, <1>1, <1>2, <1>3, <1>4, <1>5, <1>6, <1>7

(* A letter is stored at tail between the two semop calls.                  *)
Store(x) ==
  /\ start_produce(sem) # Blocked /\ sem' = stop_produce(start_produce(sem))
  /\ ring' = [ring EXCEPT ![tail] = x] /\ tail' = Successor(tail)
  /\ UNCHANGED <<head, taken>>

(* The letter at head is handed out between them.                           *)
Fetch ==
  /\ start_consume(sem) # Blocked /\ sem' = stop_consume(start_consume(sem))
  /\ taken' = ring[head] /\ head' = Successor(head)
  /\ UNCHANGED <<ring, tail>>

LEMMA StoreStep ==
  ASSUME RingOK, NEW x \in Letters, Store(x)
  PROVE  RingOK' /\ Fifo!Put /\ sem'[0] + sem'[1] = sem[0] + sem[1]
<1>1. /\ sem[0] > 0 /\ sem' = [sem EXCEPT ![0] = @ - 1, ![1] = @ + 1]
      /\ sem[0] \in Nat /\ sem[1] \in Nat /\ sem \in [0 .. 1 -> Nat] /\ sem[0] + sem[1] <= N
  BY Semops DEF RingOK, Store
<1>2. N \in Nat \ {0} /\ head \in 0 .. N - 1 /\ ring \in [0 .. N - 1 -> Nat] /\ x \in Nat
  BY RingIs, BufferIs DEF Letters
<1>3. sem' \in [0 .. 1 -> Nat] /\ sem'[0] = sem[0] - 1 /\ sem'[1] = sem[1] + 1
      /\ sem'[0] + sem'[1] = sem[0] + sem[1] /\ sem[1] \in 0 .. N - 1 /\ sem'[0] + sem'[1] <= N
  BY <1>1, <1>2
<1>4. ring' = [ring EXCEPT ![(head + sem[1]) % N] = x] /\ head' = head
  BY DEF RingOK, Store
<1>5. tail' = (head' + sem'[1]) % N /\ tail' \in Slots
  <2>1. /\ (((head + sem[1]) % N) + 1) % N = (head + (sem[1] + 1)) % N
        /\ tail' = (((head + sem[1]) % N) + 1) % N
    BY <1>2, <1>3, OneFurther DEF RingOK, Store, Successor, N
  <2>2. (head + (sem[1] + 1)) % N \in 0 .. N - 1
    <3>1. sem[1] + 1 \in 0 .. N
      BY <1>2, <1>3
    <3> QED
      BY <3>1, <1>2, Around
  <2> QED
    BY <2>1, <2>2, <1>3, <1>4, RingIs
<1>6. RingOK'
  BY <1>3, <1>4, <1>5, RingIs DEF RingOK
<1>7. Buffer' = Append(Buffer, x) /\ Len(Buffer) < ARR_SIZE
  <2>1. Part(N, head, sem[1] + 1, [ring EXCEPT ![(head + sem[1]) % N] = x])
          = Append(Part(N, head, sem[1], ring), x)
    BY ZenonT(60), <1>2, <1>3, PartPut
  <2>2. Buffer' = Part(N, head, sem[1] + 1, ring')
    BY <1>3, <1>4 DEF Buffer, Part, N, SEM_FULL
  <2>3. Buffer = Part(N, head, sem[1], ring) /\ Len(Buffer) = sem[1] /\ sem[1] < ARR_SIZE
    BY <1>2, <1>3, BufferIs DEF N
  <2> QED
    BY <2>1, <2>2, <2>3, <1>4
<1> QED
  BY <1>3, <1>6, <1>7 DEF Fifo!Put, Store

LEMMA FetchStep ==
  ASSUME RingOK, Fetch
  PROVE  RingOK' /\ Fifo!Get /\ sem'[0] + sem'[1] = sem[0] + sem[1]
<1>1. /\ sem[1] > 0 /\ sem' = [sem EXCEPT ![1] = @ - 1, ![0] = @ + 1]
      /\ sem[0] \in Nat /\ sem[1] \in Nat /\ sem \in [0 .. 1 -> Nat] /\ sem[0] + sem[1] <= N
  BY Semops DEF RingOK, Fetch
<1>2. N \in Nat \ {0} /\ head \in 0 .. N - 1 /\ ring \in [0 .. N - 1 -> Nat]
  BY RingIs, BufferIs
<1>3. sem' \in [0 .. 1 -> Nat] /\ sem'[0] = sem[0] + 1 /\ sem'[1] = sem[1] - 1
      /\ sem'[0] + sem'[1] = sem[0] + sem[1] /\ sem[1] - 1 \in 0 .. N - 1 /\ sem[1] \in 1 .. N
      /\ sem'[0] + sem'[1] <= N
  <2>1. sem' \in [0 .. 1 -> Nat] /\ sem'[0] = sem[0] + 1 /\ sem'[1] = sem[1] - 1
    BY <1>1
  <2>2. ASSUME NEW a \in Nat, NEW b \in Nat, b > 0, a + b <= N
        PROVE  (a + 1) + (b - 1) = a + b /\ b - 1 \in 0 .. N - 1 /\ b \in 1 .. N
    BY <2>2, <1>2
  <2>3. (sem[0] + 1) + (sem[1] - 1) = sem[0] + sem[1] /\ sem[1] - 1 \in 0 .. N - 1 /\ sem[1] \in 1 .. N
    BY <2>2, <1>1
  <2> QED
    BY <2>1, <2>3, <1>1
<1>4. head' = (head + 1) % N /\ head' \in 0 .. N - 1
      /\ ((head' + (sem[1] - 1)) % N) = (head + ((sem[1] - 1) + 1)) % N
  BY <1>2, <1>3, OneFurther DEF Fetch, Successor, N
<1>5. tail' = (head' + sem'[1]) % N
  <2>1. (sem[1] - 1) + 1 = sem[1]
    BY <1>1
  <2> QED
    BY <2>1, <1>3, <1>4 DEF RingOK, Fetch
<1>6. RingOK'
  BY <1>3, <1>4, <1>5, RingIs DEF RingOK, Fetch
<1>7. Buffer # << >> /\ Head(Buffer) = ring[head] /\ Buffer' = Tail(Buffer)
  <2>1. /\ Part(N, head, sem[1], ring) # << >> /\ Head(Part(N, head, sem[1], ring)) = ring[head]
        /\ Part(N, (head + 1) % N, sem[1] - 1, ring) = Tail(Part(N, head, sem[1], ring))
    BY <1>2, <1>3, PartTail
  <2>2. Buffer' = Part(N, (head + 1) % N, sem[1] - 1, ring)
    BY <1>3, <1>4 DEF Buffer, Part, N, SEM_FULL, Fetch
  <2> QED
    BY <2>1, <2>2, BufferIs
<1> QED
  BY <1>3, <1>6, <1>7 DEF Fifo!Get, Fetch

-----------------------------------------------------------------------------
(* The epoll server.                                                        *)

ETypes ==
  /\ RingOK
  /\ server \in {"init", "up", "exit0", "exit1"}
  /\ conn \in [Clients -> {"none", "backlog", "open"} \cup Replies]
  /\ cl \in [Clients -> {"ready", "wait", "failed", "done"}]
  /\ iter \in [Clients -> Nat] /\ served \in [Clients -> Nat]
  /\ letter \in [Clients -> Letters]

(* Before the server is up nothing has happened; then the two semaphores    *)
(* always add up to the ring.                                               *)
EStart ==
  /\ server = "init" => sem[1] = 0 /\ \A c \in Clients : conn[c] = "none"
  /\ server # "init" => sem[0] + sem[1] = N

(* A client that is about to connect has no connection.                     *)
EReady == \A c \in Clients : cl[c] = "ready" => conn[c] = "none"

(* ServedOnce, which must hold before the first request, too.               *)
EServed ==
  server \in {"init", "up"} =>
    \A c \in Clients : served[c] = iter[c] + IF conn[c] = "OK" THEN 1 ELSE 0

EInv == ETypes /\ EStart /\ EReady /\ EServed

LEMMA InitEInv == Init => EInv /\ Fifo!Init
<1> SUFFICES ASSUME Init PROVE EInv /\ Fifo!Init
  OBVIOUS
<1>1. RingOK
  <2>1. (0 + 0) % N = 0 /\ 0 + 0 <= N
    BY RingIs
  <2> QED
    BY <2>1, RingIs DEF Init, RingOK
<1>2. Buffer = << >>
  BY <1>1, BufferIs DEF Init
<1>3. ETypes
  BY <1>1, RingIs DEF Init, ETypes, Letters
<1>4. EStart /\ EReady /\ EServed
  BY DEF Init, EStart, EReady, EServed
<1> QED
  BY <1>2, <1>3, <1>4 DEF EInv, Init, Fifo!Init

(* What a step of the epoll server or of its clients may do to the buffer,  *)
(* and the refusals it may send.                                            *)
Refuses ==
  \A c \in Clients :
    /\ conn[c] = "open" /\ conn'[c] = "BUFFER_FULL_ERR"  => Len(Buffer) = ARR_SIZE
    /\ conn[c] = "open" /\ conn'[c] = "BUFFER_EMPTY_ERR" => Len(Buffer) = 0

Good == EInv' /\ (Fifo!Next \/ UNCHANGED <<Buffer, taken>>) /\ Refuses

(* A step that leaves the ring alone.                                       *)
LEMMA RingRests ==
  ASSUME RingOK, UNCHANGED ringVars
  PROVE  RingOK' /\ Buffer' = Buffer
  BY DEF RingOK, Buffer, ringVars

LEMMA StartupStep == ASSUME EInv, Startup PROVE Good
<1>1. /\ server = "init" /\ server' \in {"up", "exit1"}
      /\ sem' = [n \in 0 .. 1 |-> IF n = 0 THEN N ELSE 0]
      /\ UNCHANGED <<ring, head, tail, conn, cl, iter, letter, served, taken>>
  BY DEF Startup, SEM_EMPTY, N, clientVars
<1>2. sem[1] = 0 /\ sem' \in [0 .. 1 -> Nat] /\ sem'[0] = N /\ sem'[1] = 0 /\ N \in Nat
  BY <1>1, RingIs DEF EInv, EStart
<1>3. RingOK'
  BY <1>1, <1>2 DEF EInv, ETypes, RingOK
<1>4. Buffer' = Buffer
  BY <1>1, <1>2 DEF Buffer, SEM_FULL
<1>5. ETypes' /\ EStart' /\ EReady' /\ EServed'
  BY <1>1, <1>2, <1>3 DEF EInv, ETypes, EStart, EReady, EServed
<1> QED
  BY <1>1, <1>4, <1>5 DEF Good, EInv, Refuses, ETypes

LEMMA ProduceStep == ASSUME EInv, NEW c \in Clients, Produce(c) PROVE Good
<1>0. RingOK /\ sem[0] + sem[1] = N /\ server = "up" /\ conn[c] = "open"
  BY DEF EInv, ETypes, EStart, Produce, Up
<1>1. UNCHANGED <<server, head, cl, iter, letter, taken>>
  BY DEF Produce, serverVars, clientVars
<1>2. CASE start_produce(sem) = Blocked
  <2>1. conn' = [conn EXCEPT ![c] = "BUFFER_FULL_ERR"] /\ UNCHANGED <<sem, ring, tail, served>>
    BY <1>2 DEF Produce
  <2>2. RingOK' /\ Buffer' = Buffer
    BY <1>0, <1>1, <2>1, RingRests DEF ringVars
  <2>3. Len(Buffer) = ARR_SIZE
    <3>1. sem[0] = 0 /\ Len(Buffer) = sem[1] /\ sem[1] \in 0 .. N /\ N \in Nat
      BY <1>0, <1>2, Semops, BufferIs, RingIs DEF RingOK
    <3> QED
      BY <3>1, <1>0 DEF N
  <2>4. ETypes' /\ EStart' /\ EReady' /\ EServed'
    BY <1>0, <1>1, <2>1, <2>2 DEF EInv, ETypes, EStart, EReady, EServed, Replies
  <2> QED
    BY <1>0, <1>1, <2>1, <2>2, <2>3, <2>4 DEF Good, EInv, Refuses, ETypes
<1>3. CASE start_produce(sem) # Blocked
  <2>1. /\ Store(letter[c]) /\ conn' = [conn EXCEPT ![c] = "OK"]
        /\ served' = [served EXCEPT ![c] = @ + 1]
    BY <1>1, <1>3 DEF Produce, Store
  <2>2. letter[c] \in Letters
    BY DEF EInv, ETypes
  <2>3. RingOK' /\ Fifo!Put /\ sem'[0] + sem'[1] = N
    BY <1>0, <2>1, <2>2, StoreStep
  <2>4. ETypes' /\ EStart' /\ EReady' /\ EServed'
    BY <1>0, <1>1, <2>1, <2>3 DEF EInv, ETypes, EStart, EReady, EServed, Replies
  <2> QED
    BY <1>0, <2>1, <2>3, <2>4 DEF Good, EInv, Refuses, ETypes, Fifo!Next
<1> QED
  BY <1>2, <1>3

LEMMA ConsumeStep == ASSUME EInv, NEW c \in Clients, Consume(c) PROVE Good
<1>0. RingOK /\ sem[0] + sem[1] = N /\ server = "up" /\ conn[c] = "open"
  BY DEF EInv, ETypes, EStart, Consume, Up
<1>1. UNCHANGED <<server, ring, tail, cl, iter, letter>>
  BY DEF Consume, serverVars, clientVars
<1>2. CASE start_consume(sem) = Blocked
  <2>1. conn' = [conn EXCEPT ![c] = "BUFFER_EMPTY_ERR"] /\ UNCHANGED <<sem, head, served, taken>>
    BY <1>2 DEF Consume
  <2>2. RingOK' /\ Buffer' = Buffer
    BY <1>0, <1>1, <2>1, RingRests DEF ringVars
  <2>3. Len(Buffer) = 0
    BY <1>0, <1>2, Semops, BufferIs DEF RingOK
  <2>4. ETypes' /\ EStart' /\ EReady' /\ EServed'
    BY <1>0, <1>1, <2>1, <2>2 DEF EInv, ETypes, EStart, EReady, EServed, Replies
  <2> QED
    BY <1>0, <1>1, <2>1, <2>2, <2>3, <2>4 DEF Good, EInv, Refuses, ETypes
<1>3. CASE start_consume(sem) # Blocked
  <2>1. /\ Fetch /\ conn' = [conn EXCEPT ![c] = "OK"]
        /\ served' = [served EXCEPT ![c] = @ + 1]
    BY <1>1, <1>3 DEF Consume, Fetch
  <2>3. RingOK' /\ Fifo!Get /\ sem'[0] + sem'[1] = N
    BY <1>0, <2>1, FetchStep
  <2>4. ETypes' /\ EStart' /\ EReady' /\ EServed'
    BY <1>0, <1>1, <2>1, <2>3 DEF EInv, ETypes, EStart, EReady, EServed, Replies
  <2> QED
    BY <1>0, <2>1, <2>3, <2>4 DEF Good, EInv, Refuses, ETypes, Fifo!Next
<1> QED
  BY <1>2, <1>3

(* The client goes on after a reply, reported or not.                       *)
Goes(c) ==
  /\ iter' \in [Clients -> Nat] /\ letter' \in [Clients -> Letters]
  /\ cl' \in [Clients -> {"ready", "wait", "failed", "done"}]
  /\ \A d \in Clients \ {c} : iter'[d] = iter[d] /\ cl'[d] = cl[d]

LEMMA ReportOrRetry ==
  ASSUME ETypes, NEW c \in Clients
  PROVE  /\ Report(c) => Goes(c) /\ iter'[c] = iter[c] + 1
         /\ \A s : Retry(c, s) => Goes(c) /\ iter'[c] = iter[c]
<1>1. (letter[c] + 1) % L \in Letters
  BY RingIs DEF ETypes
<1>2. Report(c) => Goes(c) /\ iter'[c] = iter[c] + 1
  BY <1>1 DEF Report, Goes, ETypes
<1>3. \A s : Retry(c, s) => Goes(c) /\ iter'[c] = iter[c]
  BY DEF Retry, Goes, ETypes
<1> QED
  BY <1>2, <1>3

(* Accept, Sigint and the clients do not touch the ring.                    *)
LEMMA OtherStep ==
  ASSUME EInv, Sigint \/ \E c \in Clients : Accept(c) \/ Client(c)
  PROVE  Good
<1>1. RingOK' /\ Buffer' = Buffer /\ UNCHANGED <<sem, taken, served>>
  <2>1. UNCHANGED <<ringVars, taken, served>>
    BY DEF Sigint, Accept, Client, Request, Reply, Lost
  <2> QED
    BY <2>1, RingRests DEF EInv, ETypes, ringVars
<1>2. CASE Sigint
  <2>1. server = "up" /\ server' = "exit0" /\ UNCHANGED <<conn, cl, iter, letter>>
    BY <1>2 DEF Sigint, Up, clientVars
  <2> QED
    BY <1>1, <2>1 DEF Good, EInv, ETypes, EStart, EReady, EServed, Refuses
<1>3. ASSUME NEW c \in Clients, Accept(c) PROVE Good
  <2>1. /\ server = "up" /\ conn[c] = "backlog" /\ conn' = [conn EXCEPT ![c] = "open"]
        /\ UNCHANGED <<server, cl, iter, letter>>
    BY <1>3 DEF Accept, Up, serverVars, clientVars
  <2> QED
    BY <1>1, <2>1 DEF Good, EInv, ETypes, EStart, EReady, EServed, Refuses, Replies
<1>4. ASSUME NEW c \in Clients, Request(c) PROVE Good
  <2>1. /\ cl[c] = "ready" /\ UNCHANGED <<server, iter, letter>>
        /\ \/ server = "up" /\ cl' = [cl EXCEPT ![c] = "wait"] /\ conn' = [conn EXCEPT ![c] = "backlog"]
           \/ cl' = [cl EXCEPT ![c] = "failed"] /\ conn' = conn
    BY <1>4 DEF Request, Up, serverVars
  <2>2. conn[c] = "none"
    BY <2>1 DEF EInv, EReady
  <2> QED
    BY <1>1, <2>1, <2>2 DEF Good, EInv, ETypes, EStart, EReady, EServed, Refuses, Replies
<1>5. ASSUME NEW c \in Clients, Reply(c) PROVE Good
  <2>1. /\ conn[c] \in Replies /\ conn' = [conn EXCEPT ![c] = "none"] /\ UNCHANGED server
        /\ IF conn[c] = "OK" THEN Report(c) ELSE Retry(c, conn[c])
    BY <1>5 DEF Reply, Replies, serverVars
  <2>2. server # "init"
    BY <2>1 DEF EInv, EStart, Replies
  <2>3. /\ Goes(c)
        /\ iter'[c] = IF conn[c] = "OK" THEN iter[c] + 1 ELSE iter[c]
    BY <2>1, ReportOrRetry DEF EInv
  <2>4. EServed'
    BY <1>1, <2>1, <2>3 DEF EInv, ETypes, EServed, Goes
  <2>5. ETypes' /\ EStart' /\ EReady'
    BY <1>1, <2>1, <2>2, <2>3 DEF EInv, ETypes, EStart, EReady, Goes, Replies
  <2> QED
    BY <1>1, <2>1, <2>4, <2>5 DEF Good, EInv, ETypes, Refuses
<1>6. ASSUME NEW c \in Clients, Lost(c) PROVE Good
  <2>1. /\ conn[c] # "none" /\ conn' = [conn EXCEPT ![c] = "none"]
        /\ server # "up" /\ UNCHANGED server
        /\ Report(c) \/ Retry(c, status[c])
    BY <1>6 DEF Lost, serverVars, Up
  <2>2. server # "init"
    BY <2>1 DEF EInv, EStart
  <2>3. Goes(c)
    BY <2>1, ReportOrRetry DEF EInv
  <2>4. ETypes' /\ EStart' /\ EReady' /\ EServed'
    BY <1>1, <2>1, <2>2, <2>3 DEF EInv, ETypes, EStart, EReady, EServed, Goes, Replies
  <2> QED
    BY <1>1, <2>1, <2>4 DEF Good, EInv, ETypes, Refuses
<1> QED
  BY <1>2, <1>3, <1>4, <1>5, <1>6 DEF Client

LEMMA EStep == EInv /\ [Next]_vars => Good
<1> SUFFICES ASSUME EInv, [Next]_vars PROVE Good
  OBVIOUS
<1>1. CASE UNCHANGED vars
  <2>1. UNCHANGED <<server, ringVars, conn, cl, iter, letter, served, taken>>
    BY <1>1 DEF vars, serverVars, clientVars
  <2>2. RingOK' /\ Buffer' = Buffer
    BY <2>1, RingRests DEF EInv, ETypes
  <2> QED
    BY <2>1, <2>2 DEF Good, EInv, ETypes, EStart, EReady, EServed, Refuses, ringVars
<1>2. CASE Next
  BY <1>1, <1>2, StartupStep, ProduceStep, ConsumeStep, OtherStep DEF Next, Serve, Terminating
<1> QED
  BY <1>1, <1>2

LEMMA EInvariant == Spec => []EInv
<1>1. EInv /\ [Next]_vars => EInv'
  BY EStep DEF Good
<1> QED
  BY <1>1, InitEInv, PTL DEF Spec

(* Retries do not duplicate.  As long as the epoll server runs, it has      *)
(* carried out the requests its clients reported, each once, and the ones   *)
(* whose OK is on the way.                                                  *)
THEOREM RetriesServedOnce == Spec => []ServedOnce
<1>1. EInv => ServedOnce
  BY DEF EInv, EServed, ServedOnce, Up
<1> QED
  BY <1>1, EInvariant, PTL

(* The epoll server implements a bounded queue: a produce it accepts puts   *)
(* its letter at the end, a consume takes the first, and what it refuses it *)
(* could not do.                                                            *)
THEOREM EpollImplementsFifo == Spec => ImplementsFifo
<1>1. EInv /\ [Next]_vars => [Fifo!Next]_(Fifo!vars) /\ [Refuses]_vars
  BY EStep DEF Good, Fifo!vars
<1>2. Spec => Fifo!Init /\ [][Fifo!Next]_(Fifo!vars) /\ [][Refuses]_vars
  BY <1>1, InitEInv, EInvariant, PTL DEF Spec
<1> QED
  BY <1>2 DEF ImplementsFifo, Fifo!Spec, RefusalJustified, Refuses

-----------------------------------------------------------------------------
(* The one-connection-at-a-time server.                                     *)

(* Its semop calls, ring and buffer are those of the epoll server.          *)
LEMMA SameRing ==
  /\ I!Blocked = Blocked /\ I!Buffer = Buffer /\ I!Slots = Slots /\ I!Letters = Letters
  /\ \A s : /\ I!start_produce(s) = start_produce(s) /\ I!stop_produce(s) = stop_produce(s)
            /\ I!start_consume(s) = start_consume(s) /\ I!stop_consume(s) = stop_consume(s)
  /\ \A i : I!Successor(i) = Successor(i)
<1>1. I!Blocked = Blocked
  BY DEF I!Blocked, Blocked
<1>2. \A s, o : I!##(s, o) = (s ## o)
  BY <1>1 DEF I!##, ##, I!Operation, Operation
<1>3. I!SEM_EMPTY = SEM_EMPTY /\ I!SEM_FULL = SEM_FULL
  BY DEF I!SEM_EMPTY, I!SEM_FULL, SEM_EMPTY, SEM_FULL
<1>4. \A s : /\ I!start_produce(s) = start_produce(s) /\ I!stop_produce(s) = stop_produce(s)
             /\ I!start_consume(s) = start_consume(s) /\ I!stop_consume(s) = stop_consume(s)
  BY <1>2, <1>3 DEF I!start_produce, I!stop_produce, I!start_consume, I!stop_consume,
                    start_produce, stop_produce, start_consume, stop_consume
<1>5. I!Buffer = Buffer /\ I!Slots = Slots /\ I!Letters = Letters
  BY <1>3 DEF I!Buffer, Buffer, I!Slots, Slots, I!Letters, Letters
<1>6. \A i : I!Successor(i) = Successor(i)
  BY DEF I!Successor, Successor
<1> QED
  BY <1>1, <1>4, <1>5, <1>6

(* serve() has a connection while it receives; before the set exists the    *)
(* ring is empty.                                                           *)
IInv ==
  /\ RingOK
  /\ letter \in [Clients -> Letters]
  /\ main = "recv" => cur \in Clients
  /\ main = "init" => sem[1] = 0

LEMMA InitIInv == I!Init => IInv /\ I!Fifo!Init
<1> SUFFICES ASSUME I!Init PROVE IInv /\ I!Fifo!Init
  OBVIOUS
<1>0. /\ sem = [n \in 0 .. 1 |-> 0] /\ ring = [i \in Slots |-> Blank] /\ head = 0 /\ tail = 0
      /\ letter = [c \in Clients |-> 0] /\ taken = Blank /\ main = "init"
  BY SameRing DEF I!Init, I!Blank, Blank
<1>1. RingOK
  <2>1. (0 + 0) % N = 0 /\ 0 + 0 <= N
    BY RingIs
  <2> QED
    BY <2>1, <1>0, RingIs DEF RingOK
<1>2. I!Buffer = << >>
  BY <1>0, <1>1, BufferIs, SameRing
<1>3. IInv
  BY <1>0, <1>1, RingIs DEF IInv, Letters
<1> QED
  BY <1>0, <1>2, <1>3 DEF I!Fifo!Init, I!Blank, Blank

LEMMA IStep == IInv /\ [I!Next]_(I!vars) => IInv' /\ [I!Fifo!Next]_(I!Fifo!vars)
<1> SUFFICES ASSUME IInv, [I!Next]_(I!vars) PROVE IInv' /\ [I!Fifo!Next]_(I!Fifo!vars)
  OBVIOUS
<1> USE DEF IInv
<1>0. ASSUME UNCHANGED <<ringVars, taken>>, IInv'
      PROVE  IInv' /\ [I!Fifo!Next]_(I!Fifo!vars)
  BY <1>0, SameRing DEF ringVars, I!Fifo!vars, I!Buffer
<1>1. CASE I!Startup
  <2>1. /\ main = "init" /\ main' \in {"setup", "exit1"}
        /\ sem' = [n \in 0 .. 1 |-> IF n = 0 THEN N ELSE 0]
        /\ UNCHANGED <<ring, head, tail, letter, taken>>
    BY <1>1 DEF I!Startup, I!SEM_EMPTY, N, I!clientVars
  <2>2. sem[1] = 0 /\ sem' \in [0 .. 1 -> Nat] /\ sem'[0] = N /\ sem'[1] = 0 /\ N \in Nat
    BY <2>1, RingIs
  <2>3. RingOK'
    BY <2>1, <2>2 DEF RingOK
  <2>4. I!Buffer' = I!Buffer
    BY <2>1, <2>2 DEF I!Buffer, I!SEM_FULL
  <2> QED
    BY <2>1, <2>3, <2>4 DEF I!Fifo!vars
<1>2. CASE I!ServeProduce
  <2>0. cur \in Clients /\ letter[cur] \in Letters
    BY <1>2 DEF I!ServeProduce
  <2>1. UNCHANGED <<main, cur, letter, head, taken>>
    BY <1>2 DEF I!ServeProduce, I!clientVars
  <2>2. CASE start_produce(sem) = Blocked
    <3>1. UNCHANGED <<ringVars, taken>>
      BY <1>2, <2>1, <2>2, SameRing DEF I!ServeProduce, ringVars
    <3> QED
      BY <3>1, <2>1, <1>0, RingRests DEF ringVars
  <2>3. CASE start_produce(sem) # Blocked
    <3>1. Store(letter[cur])
      BY <1>2, <2>1, <2>3, SameRing DEF I!ServeProduce, Store
    <3>2. RingOK' /\ Fifo!Put
      BY <3>1, <2>0, StoreStep
    <3>3. I!Fifo!Put
      BY <3>2, SameRing DEF Fifo!Put, I!Fifo!Put, I!Buffer, Buffer, I!SEM_FULL, SEM_FULL
    <3>4. main # "init"
      BY <1>2 DEF I!ServeProduce
    <3> QED
      BY <3>2, <3>3, <3>4, <2>0, <2>1 DEF I!Fifo!Next
  <2> QED
    BY <2>2, <2>3
<1>3. CASE I!ServeConsume
  <2>1. UNCHANGED <<main, cur, letter, ring, tail>> /\ main # "init"
    BY <1>3 DEF I!ServeConsume, I!clientVars
  <2>2. CASE start_consume(sem) = Blocked
    <3>1. UNCHANGED <<ringVars, taken>>
      BY <1>3, <2>1, <2>2, SameRing DEF I!ServeConsume, ringVars
    <3> QED
      BY <3>1, <2>1, <1>0, RingRests DEF ringVars
  <2>3. CASE start_consume(sem) # Blocked
    <3>1. Fetch
      BY <1>3, <2>1, <2>3, SameRing DEF I!ServeConsume, Fetch
    <3>2. RingOK' /\ Fifo!Get
      BY <3>1, FetchStep
    <3>3. I!Fifo!Get
      BY <3>2 DEF Fifo!Get, I!Fifo!Get, I!Buffer, Buffer, I!SEM_FULL, SEM_FULL
    <3> QED
      BY <3>2, <3>3, <2>1 DEF I!Fifo!Next
  <2> QED
    BY <2>2, <2>3
<1>4. CASE I!Accept
  <2>1. UNCHANGED <<ringVars, taken, letter>> /\ main' = "recv" /\ cur' \in Clients
    BY <1>4 DEF I!Accept, ringVars, I!ringVars, I!clientVars
  <2> QED
    BY <2>1, <1>0, RingRests
<1>5. CASE I!Setup \/ I!TestFlag \/ I!EpollTimeout \/ I!Closed \/ I!Reset \/ I!Remove \/ I!Sigint
           \/ UNCHANGED I!vars
  <2>1. UNCHANGED <<ringVars, taken, letter>>
    BY <1>5 DEF I!Setup, I!TestFlag, I!EpollTimeout, I!Closed, I!Reset, I!Remove, I!Sigint, I!vars,
                ringVars, I!ringVars, I!clientVars
  <2>2. main' # "recv" \/ (main = "recv" /\ cur' = cur)
    BY <1>5 DEF I!Setup, I!TestFlag, I!EpollTimeout, I!Closed, I!Reset, I!Remove, I!Sigint, I!vars
  <2>3. main' = "init" => main = "init"
    BY <1>5 DEF I!Setup, I!TestFlag, I!EpollTimeout, I!Closed, I!Reset, I!Remove, I!Sigint, I!vars
  <2> QED
    BY <2>1, <2>2, <2>3, <1>0, RingRests DEF ringVars
<1>6. ASSUME NEW c \in Clients, I!Client(c) \/ I!Killed(c)
      PROVE  IInv' /\ [I!Fifo!Next]_(I!Fifo!vars)
  <2>1. UNCHANGED <<ringVars, taken, main, cur>>
    BY <1>6 DEF I!Client, I!Request, I!Reply, I!Lost, I!Killed, ringVars, I!ringVars
  <2>2. letter' = letter \/ letter' = [letter EXCEPT ![c] = (@ + 1) % L]
    BY <1>6 DEF I!Client, I!Request, I!Reply, I!Lost, I!Killed
  <2>3. (letter[c] + 1) % L \in Letters
    BY RingIs
  <2>4. letter' \in [Clients -> Letters]
    BY <2>2, <2>3
  <2> QED
    BY <2>1, <2>4, <1>0, RingRests DEF ringVars
<1> QED
  BY <1>1, <1>2, <1>3, <1>4, <1>5, <1>6 DEF I!Next, I!Server, I!Terminating

(* The one-connection-at-a-time server implements the same bounded queue,   *)
(* wherever SIGINT and killed clients strike.                               *)
THEOREM IterativeImplementsFifo == I!Spec => I!ImplementsFifo
<1>1. I!Spec => I!Fifo!Init /\ [][I!Fifo!Next]_(I!Fifo!vars)
  BY InitIInv, IStep, PTL DEF I!Spec
<1> QED
  BY <1>1 DEF I!ImplementsFifo, I!Fifo!Spec
=============================================================================
