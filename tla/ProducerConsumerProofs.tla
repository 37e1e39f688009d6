------------------------ MODULE ProducerConsumerProofs ------------------------
(***************************************************************************)
(* ProducerConsumer for every number of slots, children, bytes and         *)
(* letters: the type invariant, the safety of the semaphores, and the      *)
(* order of the letters.                                                   *)
(*                                                                         *)
(* None of the properties is inductive by itself.  IInv adds what ties     *)
(* them together: which children exist, that BIN_SEM is held exactly while *)
(* some child is between start_... and stop_..., and how far the counters  *)
(* lag behind the pointers at each point of the critical section.          *)
(***************************************************************************)
EXTENDS ProducerConsumer, SemRingProofs, FiniteSetTheorems

Hold(c) == pc[c] \in Critical \cup {"killed"}

(* Children are forked in order, and only after the setup.                  *)
Born ==
  /\ \A c \in Children : c >= next => pc[c] = "unborn"
  /\ parent \in {"semget", "semctl", "shmget", "shmat"} => next = 1
  /\ next = 1 => pr = 0 /\ con = 0

(* Shmat has stored 'a' before any child can take a letter.                 *)
LetterReady ==
  parent \in {"fork", "wait", "clean"} \/ next > 1 => letter \in Letters

(* Letters between the pointers that BUFFER_FULL does not count (yet).      *)
Owed(c) == IF (c \in Producers) = (pc[c] = "stop") THEN 1 ELSE 0

NobodyIn ==
  /\ \A c \in Children : ~ Hold(c)
  /\ sem[BIN_SEM] = 1
  /\ sem[BUFFER_EMPTY] + sem[BUFFER_FULL] = N
  /\ sem[BUFFER_FULL] = pr - con

SomeoneIn(h) ==
  /\ Hold(h)
  /\ \A c \in Children : Hold(c) => c = h
  /\ sem[BIN_SEM] = 0
  /\ sem[BUFFER_EMPTY] + sem[BUFFER_FULL] = N - 1
  /\ sem[BUFFER_FULL] + Owed(h) = pr - con

Ready == parent \in {"shmget", "shmat", "fork", "wait", "clean"} \/ next > 1

Counters == Ready => NobodyIn \/ \E h \in Children : SomeoneIn(h)

IInv == TypeOK /\ Born /\ LetterReady /\ Counters

-----------------------------------------------------------------------------
(* What the four arrays do when they do not block.                          *)

(* start_...: both units are there and both are taken, or nothing is.       *)
LEMMA DownDown ==
  ASSUME NEW n \in 0 .. 1, NEW s \in [0 .. 2 -> Nat], (s ## <<n, -1>> ## <<2, -1>>) # Blocked
  PROVE  /\ s[n] > 0 /\ s[2] > 0
         /\ (s ## <<n, -1>> ## <<2, -1>>) = [[s EXCEPT ![n] = @ - 1] EXCEPT ![2] = @ - 1]
  <1> DEFINE t == [s EXCEPT ![n] = @ - 1]
  <1>1. (s ## <<n, -1>>) = IF s[n] > 0 THEN t ELSE Blocked
    BY Down, n \in 0 .. 2
  <1>2. s[n] > 0
    BY <1>1, BlockedStays
  <1>3. t \in [0 .. 2 -> Nat] /\ t[2] = s[2]
    BY <1>2
  <1>4. (t ## <<2, -1>>) = IF t[2] > 0 THEN [t EXCEPT ![2] = @ - 1] ELSE Blocked
    <2> HIDE DEF t
    <2> QED BY <1>3, Down, 2 \in 0 .. 2
  <1>5. (s ## <<n, -1>> ## <<2, -1>>) = (t ## <<2, -1>>)
    BY <1>1, <1>2
  <1> QED BY <1>2, <1>3, <1>4, <1>5

(* stop_...: both units are added.                                          *)
LEMMA UpUp ==
  ASSUME NEW n \in 0 .. 1, NEW s \in [0 .. 2 -> Nat]
  PROVE  (s ## <<2, 1>> ## <<n, 1>>) = [[s EXCEPT ![2] = @ + 1] EXCEPT ![n] = @ + 1]
  <1> DEFINE t == [s EXCEPT ![2] = @ + 1]
  <1>1. (s ## <<2, 1>>) = t
    BY Add, 2 \in 0 .. 2
  <1>2. t \in [0 .. 2 -> Nat]
    OBVIOUS
  <1>3. (t ## <<n, 1>>) = [t EXCEPT ![n] = @ + 1]
    <2> HIDE DEF t
    <2> QED BY <1>2, Add, n \in 0 .. 2
  <1> QED BY <1>1, <1>3

(* start_produce and start_consume take BIN_SEM and one unit.               *)
LEMMA StartEffect ==
  ASSUME NEW s \in [0 .. 2 -> Nat], NEW c, Start(c, s) # Blocked
  PROVE  /\ Start(c, s) \in [0 .. 2 -> Nat]
         /\ s[BIN_SEM] > 0 /\ Start(c, s)[BIN_SEM] = s[BIN_SEM] - 1
         /\ c \in Producers => /\ Start(c, s)[BUFFER_EMPTY] = s[BUFFER_EMPTY] - 1
                               /\ Start(c, s)[BUFFER_FULL] = s[BUFFER_FULL]
         /\ c \notin Producers => /\ Start(c, s)[BUFFER_EMPTY] = s[BUFFER_EMPTY]
                                  /\ Start(c, s)[BUFFER_FULL] = s[BUFFER_FULL] - 1
  <1> USE DEF BUFFER_EMPTY, BUFFER_FULL, BIN_SEM
  <1>1. CASE c \in Producers
    <2>1. Start(c, s) = (s ## <<0, -1>> ## <<2, -1>>)
      BY <1>1 DEF Start, start_produce
    <2>2. s[0] > 0 /\ s[2] > 0 /\ Start(c, s) = [[s EXCEPT ![0] = @ - 1] EXCEPT ![2] = @ - 1]
      BY <2>1, DownDown, 0 \in 0 .. 1
    <2> QED BY <1>1, <2>2
  <1>2. CASE c \notin Producers
    <2>1. Start(c, s) = (s ## <<1, -1>> ## <<2, -1>>)
      BY <1>2 DEF Start, start_consume
    <2>2. s[1] > 0 /\ s[2] > 0 /\ Start(c, s) = [[s EXCEPT ![1] = @ - 1] EXCEPT ![2] = @ - 1]
      BY <2>1, DownDown, 1 \in 0 .. 1
    <2> QED BY <1>2, <2>2
  <1> QED BY <1>1, <1>2

(* stop_produce and stop_consume give BIN_SEM and one unit back.            *)
LEMMA StopEffect ==
  ASSUME NEW s \in [0 .. 2 -> Nat], NEW c
  PROVE  /\ Stop(c, s) \in [0 .. 2 -> Nat]
         /\ Stop(c, s)[BIN_SEM] = s[BIN_SEM] + 1
         /\ c \in Producers => /\ Stop(c, s)[BUFFER_EMPTY] = s[BUFFER_EMPTY]
                               /\ Stop(c, s)[BUFFER_FULL] = s[BUFFER_FULL] + 1
         /\ c \notin Producers => /\ Stop(c, s)[BUFFER_EMPTY] = s[BUFFER_EMPTY] + 1
                                  /\ Stop(c, s)[BUFFER_FULL] = s[BUFFER_FULL]
  <1> USE DEF BUFFER_EMPTY, BUFFER_FULL, BIN_SEM
  <1>1. CASE c \in Producers
    <2>1. Stop(c, s) = (s ## <<2, 1>> ## <<1, 1>>)
      BY <1>1 DEF Stop, stop_produce
    <2>2. Stop(c, s) = [[s EXCEPT ![2] = @ + 1] EXCEPT ![1] = @ + 1]
      BY <2>1, UpUp, 1 \in 0 .. 1
    <2> QED BY <1>1, <2>2
  <1>2. CASE c \notin Producers
    <2>1. Stop(c, s) = (s ## <<2, 1>> ## <<0, 1>>)
      BY <1>2 DEF Stop, stop_consume
    <2>2. Stop(c, s) = [[s EXCEPT ![2] = @ + 1] EXCEPT ![0] = @ + 1]
      BY <2>1, UpUp, 0 \in 0 .. 1
    <2> QED BY <1>2, <2>2
  <1> QED BY <1>1, <1>2

-----------------------------------------------------------------------------
(* A step that leaves the counters and pointers alone, and moves no child   *)
(* into, out of or to the end of the critical section.                      *)
LEMMA CountersFrame ==
  ASSUME NobodyIn \/ \E h \in Children : SomeoneIn(h),
         sem' = sem, pr' = pr, con' = con,
         \A c \in Children : Hold(c)' <=> Hold(c),
         \A c \in Children : (pc'[c] = "stop") <=> (pc[c] = "stop")
  PROVE  (NobodyIn \/ \E h \in Children : SomeoneIn(h))'
  <1>1. CASE NobodyIn
    BY <1>1 DEF NobodyIn
  <1>2. ASSUME NEW h \in Children, SomeoneIn(h) PROVE SomeoneIn(h)'
    <2>1. Owed(h)' = Owed(h)
      BY DEF Owed
    <2> QED BY <1>2, <2>1 DEF SomeoneIn
  <1> QED BY <1>1, <1>2

(* A child that runs has been forked.                                       *)
LEMMA Forked1 ==
  ASSUME TypeOK, Born, NEW c \in Children, pc[c] # "unborn"
  PROVE  next > 1 /\ Ready /\ c < next
  BY ProducerConsumerAssumption DEF TypeOK, Born, Ready, Children

(* The steps of a child outside semop, the pointers' increment excepted.    *)
LEMMA QuietStep ==
  ASSUME IInv, NEW c \in Children,
         Test(c) \/ Sleep(c) \/ Take(c) \/ Fault(c) \/ Put(c) \/ Get(c) \/ Alarm(c)
  PROVE  IInv'
  <1> USE ProducerConsumerAssumption DEF Goto
  <1>0. pc[c] # "unborn" /\ TypeOK /\ Born /\ LetterReady /\ Counters
    BY DEF IInv, Test, Sleep, Take, Fault, Put, Get, Alarm, Live, TypeOK, Critical, Final
  <1>1. next > 1 /\ Ready /\ c < next
    BY <1>0, Forked1
  <1>2. letter \in Letters
    BY <1>0, <1>1 DEF LetterReady
  <1>3. /\ sem' = sem /\ ipc' = ipc /\ parent' = parent /\ next' = next /\ reaped' = reaped
        /\ pr' = pr /\ con' = con
    BY DEF Test, Sleep, Take, Fault, Put, Get, Alarm, ipcVars, parentVars, shmVars
  <1>4. /\ pc' \in [Children -> {"unborn", "loop", "start", "sleep"} \cup Critical \cup Final]
        /\ \A d \in Children : d # c => pc'[d] = pc[d]
        /\ Hold(c)' <=> Hold(c)
        /\ (pc'[c] = "stop") <=> (pc[c] = "stop")
    BY <1>0 DEF Test, Sleep, Take, Fault, Put, Get, Alarm, TypeOK, Critical, Final, Hold
  <1>5. letter' \in Letters
    BY <1>2 DEF Test, Sleep, Take, Fault, Put, Get, Alarm, shmVars, Succ, Letters
  <1>6. /\ flag' \in [Children -> BOOLEAN] /\ alarm' \in [Children -> {"none", "armed", "fired", "missed"}]
    BY <1>0 DEF Test, Sleep, Take, Fault, Put, Get, Alarm, Spent, TypeOK
  <1>7. mem' \in [Offset -> 0 .. L] /\ symb' \in [Children -> 0 .. L]
    BY ZenonT(60), <1>0 DEF Test, Sleep, Take, Fault, Put, Get, Alarm, TypeOK, shmVars, Offset
  <1>8. out' \in Seq(0 .. L)
    <2>1. CASE UNCHANGED out
      BY <1>0, <2>1 DEF TypeOK
    <2>2. CASE Get(c)
      <3>1. (IF con < ROOM THEN mem[con] ELSE Blank) \in 0 .. L
        BY <1>0 DEF TypeOK, Offset, Blank
      <3> QED BY <1>0, <2>2, <3>1 DEF TypeOK, Get
    <2> QED BY <2>1, <2>2 DEF Test, Sleep, Take, Fault, Put, Alarm
  <1>9. TypeOK'
    BY <1>0, <1>3, <1>4, <1>5, <1>6, <1>7, <1>8 DEF TypeOK, Letters
  <1>10. Born'
    BY <1>0, <1>1, <1>3, <1>4 DEF Born, TypeOK, Children
  <1>11. LetterReady'
    BY <1>5 DEF LetterReady, Letters
  <1>12. Counters'
    <2>1. NobodyIn \/ \E h \in Children : SomeoneIn(h)
      BY <1>0, <1>1 DEF Counters
    <2>2. \A d \in Children : (Hold(d)' <=> Hold(d)) /\ ((pc'[d] = "stop") <=> (pc[d] = "stop"))
      BY <1>4 DEF Hold
    <2> QED BY <2>1, <2>2, <1>3, CountersFrame DEF Counters
  <1> QED BY <1>9, <1>10, <1>11, <1>12 DEF IInv

(* start_...: BIN_SEM was free, so nobody was inside, and now c is.         *)
LEMMA EnterStep == ASSUME IInv, NEW c \in Children, Enter(c) PROVE IInv'
  <1> USE ProducerConsumerAssumption DEF Goto
  <1>0. pc[c] \in {"start", "sleep"} /\ TypeOK /\ Born /\ LetterReady /\ Counters
    BY DEF IInv, Enter
  <1>1. next > 1 /\ Ready /\ c < next
    BY <1>0, Forked1
  <1>2. UNCHANGED <<ipc, parent, next, reaped, flag, alarm, pr, con, letter, mem, symb, out>>
    BY DEF Enter, parentVars, shmVars
  <1>3. /\ pc' \in [Children -> {"unborn", "loop", "start", "sleep"} \cup Critical \cup Final]
        /\ \A d \in Children : d # c => pc'[d] = pc[d]
        /\ pc'[c] \in {"take", "put"}
    BY <1>0 DEF Enter, TypeOK, Critical
  <1>4. sem \in [0 .. 2 -> Nat] /\ sem' = Start(c, sem) /\ Start(c, sem) # Blocked
    BY <1>0 DEF TypeOK, Enter
  <1>5. TypeOK'
    BY <1>0, <1>2, <1>3, <1>4, StartEffect DEF TypeOK
  <1>6. Born' /\ LetterReady'
    BY <1>0, <1>1, <1>2, <1>3 DEF Born, LetterReady, Letters
  <1>7. Counters'
    <2>1. NobodyIn
      <3>1. sem[BIN_SEM] > 0
        BY <1>4, StartEffect
      <3> QED BY <3>1, <1>0, <1>1 DEF Counters, SomeoneIn
    <2>2. SomeoneIn(c)'
      <3>1. Hold(c)' /\ \A d \in Children : Hold(d)' => d = c
        BY <2>1, <1>3 DEF Hold, NobodyIn, Critical
      <3>2. /\ sem[BIN_SEM] = 1 /\ sem[BUFFER_EMPTY] + sem[BUFFER_FULL] = N
            /\ sem[BUFFER_FULL] = pr - con
        BY <2>1 DEF NobodyIn
      <3>3. sem[BUFFER_EMPTY] \in Nat /\ sem[BUFFER_FULL] \in Nat /\ pr \in Nat /\ con \in Nat
        BY <1>0 DEF TypeOK, BUFFER_EMPTY, BUFFER_FULL
      <3>4. Owed(c)' = IF c \in Producers THEN 0 ELSE 1
        BY <1>3 DEF Owed
      <3>5. CASE c \in Producers
        <4>1. /\ sem'[BIN_SEM] = 0 /\ sem'[BUFFER_EMPTY] = sem[BUFFER_EMPTY] - 1
              /\ sem'[BUFFER_FULL] = sem[BUFFER_FULL]
          BY <3>2, <3>5, <1>4, StartEffect
        <4> QED BY <3>1, <3>2, <3>3, <3>4, <3>5, <4>1, <1>2 DEF SomeoneIn
      <3>6. CASE c \notin Producers
        <4>1. /\ sem'[BIN_SEM] = 0 /\ sem'[BUFFER_EMPTY] = sem[BUFFER_EMPTY]
              /\ sem'[BUFFER_FULL] = sem[BUFFER_FULL] - 1
          BY <3>2, <3>6, <1>4, StartEffect
        <4> QED BY <3>1, <3>2, <3>3, <3>4, <3>6, <4>1, <1>2 DEF SomeoneIn
      <3> QED BY <3>5, <3>6
    <2> QED BY <2>2 DEF Counters
  <1> QED BY <1>5, <1>6, <1>7 DEF IInv

(* The holder moves its pointer; what it owes the counters flips.           *)
LEMMA AdvanceStep == ASSUME IInv, NEW c \in Children, Advance(c) PROVE IInv'
  <1> USE ProducerConsumerAssumption DEF Goto
  <1>0. pc[c] = "advance" /\ TypeOK /\ Born /\ LetterReady /\ Counters
    BY DEF IInv, Advance
  <1>1. next > 1 /\ Ready /\ c < next
    BY <1>0, Forked1
  <1>2. UNCHANGED <<sem, ipc, parent, next, reaped, flag, alarm, letter, mem, symb, out>>
    BY DEF Advance, ipcVars, parentVars
  <1>3. /\ pc' \in [Children -> {"unborn", "loop", "start", "sleep"} \cup Critical \cup Final]
        /\ \A d \in Children : d # c => pc'[d] = pc[d]
        /\ pc'[c] = "stop"
    BY <1>0 DEF Advance, TypeOK, Critical
  <1>4. /\ pr \in Nat /\ con \in Nat
        /\ pr' = (IF c \in Producers THEN pr + 1 ELSE pr)
        /\ con' = (IF c \in Producers THEN con ELSE con + 1)
    BY <1>0 DEF Advance, TypeOK
  <1>5. TypeOK'
    BY <1>0, <1>2, <1>3, <1>4 DEF TypeOK
  <1>6. Born' /\ LetterReady'
    BY <1>0, <1>1, <1>2, <1>3 DEF Born, LetterReady, Letters
  <1>7. Counters'
    <2>1. SomeoneIn(c)
      <3>1. Hold(c)
        BY <1>0 DEF Hold, Critical
      <3> QED BY <3>1, <1>0, <1>1 DEF Counters, NobodyIn, SomeoneIn
    <2>2. Hold(c)' /\ \A d \in Children : Hold(d)' => d = c
      BY <2>1, <1>3 DEF Hold, SomeoneIn, Critical
    <2>3. Owed(c) = (IF c \in Producers THEN 0 ELSE 1) /\ Owed(c)' = IF c \in Producers THEN 1 ELSE 0
      BY <1>0, <1>3 DEF Owed
    <2>4. sem'[BUFFER_FULL] + Owed(c)' = pr' - con'
      <3>1. sem[BUFFER_FULL] \in Nat
        BY <1>0 DEF TypeOK, BUFFER_FULL
      <3> QED BY <2>1, <2>3, <3>1, <1>2, <1>4 DEF SomeoneIn
    <2>5. SomeoneIn(c)'
      BY <2>1, <2>2, <2>4, <1>2 DEF SomeoneIn
    <2> QED BY <2>5 DEF Counters
  <1> QED BY <1>5, <1>6, <1>7 DEF IInv

(* stop_...: the holder pays what it owes and leaves nobody inside.         *)
LEMMA LeaveStep == ASSUME IInv, NEW c \in Children, Leave(c) PROVE IInv'
  <1> USE ProducerConsumerAssumption DEF Goto
  <1>0. pc[c] = "stop" /\ TypeOK /\ Born /\ LetterReady /\ Counters
    BY DEF IInv, Leave
  <1>1. next > 1 /\ Ready /\ c < next
    BY <1>0, Forked1
  <1>2. UNCHANGED <<ipc, parent, next, reaped, flag, alarm, pr, con, letter, mem, out>>
    BY DEF Leave, parentVars, shmVars
  <1>3. /\ pc' \in [Children -> {"unborn", "loop", "start", "sleep"} \cup Critical \cup Final]
        /\ \A d \in Children : d # c => pc'[d] = pc[d]
        /\ pc'[c] = "loop"
        /\ symb' \in [Children -> 0 .. L]
    BY <1>0 DEF Leave, TypeOK, Blank
  <1>4. sem \in [0 .. 2 -> Nat] /\ sem' = Stop(c, sem)
    BY <1>0 DEF TypeOK, Leave
  <1>5. TypeOK'
    BY <1>0, <1>2, <1>3, <1>4, StopEffect DEF TypeOK
  <1>6. Born' /\ LetterReady'
    BY <1>0, <1>1, <1>2, <1>3 DEF Born, LetterReady, Letters
  <1>7. Counters'
    <2>1. SomeoneIn(c)
      <3>1. Hold(c)
        BY <1>0 DEF Hold, Critical
      <3> QED BY <3>1, <1>0, <1>1 DEF Counters, NobodyIn, SomeoneIn
    <2>2. \A d \in Children : ~ Hold(d)'
      BY <2>1, <1>3 DEF Hold, SomeoneIn, Critical
    <2>3. /\ sem[BIN_SEM] = 0 /\ sem[BUFFER_EMPTY] + sem[BUFFER_FULL] = N - 1
          /\ sem[BUFFER_FULL] + (IF c \in Producers THEN 1 ELSE 0) = pr - con
      BY <2>1, <1>0 DEF SomeoneIn, Owed
    <2>4. sem[BUFFER_EMPTY] \in Nat /\ sem[BUFFER_FULL] \in Nat /\ pr \in Nat /\ con \in Nat
      BY <1>0 DEF TypeOK, BUFFER_EMPTY, BUFFER_FULL
    <2>5. NobodyIn'
      <3>1. CASE c \in Producers
        <4>1. /\ sem'[BIN_SEM] = 1 /\ sem'[BUFFER_EMPTY] = sem[BUFFER_EMPTY]
              /\ sem'[BUFFER_FULL] = sem[BUFFER_FULL] + 1
          BY <2>3, <3>1, <1>4, StopEffect
        <4> QED BY SMTT(30), <2>2, <2>3, <2>4, <3>1, <4>1, <1>2 DEF NobodyIn
      <3>2. CASE c \notin Producers
        <4>1. /\ sem'[BIN_SEM] = 1 /\ sem'[BUFFER_EMPTY] = sem[BUFFER_EMPTY] + 1
              /\ sem'[BUFFER_FULL] = sem[BUFFER_FULL]
          BY <2>3, <3>2, <1>4, StopEffect
        <4> QED BY <2>2, <2>3, <2>4, <3>2, <4>1, <1>2 DEF NobodyIn
      <3> QED BY <3>1, <3>2
    <2> QED BY <2>5 DEF Counters
  <1> QED BY <1>5, <1>6, <1>7 DEF IInv

-----------------------------------------------------------------------------
(* The parent before its first fork: no child exists, both pointers are 0.  *)
LEMMA SetupStep == ASSUME IInv, Semget \/ Semctl \/ Shmget \/ Shmat PROVE IInv'
  <1> USE ProducerConsumerAssumption
  <1>0. TypeOK /\ Born /\ LetterReady /\ Counters
    BY DEF IInv
  <1>1. parent \in {"semget", "semctl", "shmget", "shmat"} /\ next = 1
    BY <1>0 DEF Semget, Semctl, Shmget, Shmat, Call, Born
  <1>2. /\ pr = 0 /\ con = 0
        /\ \A c \in Children : pc[c] = "unborn"
    BY <1>0, <1>1 DEF Born, Children
  <1>3. UNCHANGED <<next, reaped, pc, flag, alarm, mem, symb, out>>
    BY DEF Semget, Semctl, Shmget, Shmat, Call, procVars, shmVars
  <1>4. pr' = 0 /\ con' = 0 /\ letter' \in {0, letter}
    BY <1>2 DEF Semget, Semctl, Shmget, Shmat, shmVars
  <1>5. /\ ipc' \in SUBSET {"sem", "shm"}
        /\ parent' \in {"semctl", "shmget", "shmat", "fork", "exited"}
    BY <1>0 DEF Semget, Semctl, Shmget, Shmat, Call, TypeOK
  <1>6. sem' \in [0 .. 2 -> Nat]
    BY <1>0 DEF Semget, Semctl, Shmget, Shmat, TypeOK, BUFFER_EMPTY, BUFFER_FULL, BIN_SEM
  <1>7. TypeOK'
    BY <1>0, <1>3, <1>4, <1>5, <1>6 DEF TypeOK
  <1>8. Born'
    BY <1>1, <1>2, <1>3, <1>4 DEF Born
  <1>9. LetterReady'
    BY <1>1, <1>3, <1>4 DEF LetterReady, Letters, Semget, Semctl, Shmget, Shmat, Call
  <1>10. Counters'
    <2>1. CASE ~ Ready'
      BY <2>1 DEF Counters
    <2>2. CASE Semctl
      <3>1. sem'[BIN_SEM] = 1 /\ sem'[BUFFER_EMPTY] = N /\ sem'[BUFFER_FULL] = 0
        BY <2>2 DEF Semctl, BUFFER_EMPTY, BUFFER_FULL, BIN_SEM
      <3>2. \A c \in Children : ~ Hold(c)'
        BY <1>2, <1>3 DEF Hold, Critical
      <3>3. NobodyIn'
        BY <3>1, <3>2, <1>4 DEF NobodyIn
      <3> QED BY <3>3 DEF Counters
    <2>3. CASE Ready' /\ ~ Semctl
      <3>1. sem' = sem /\ Ready
        BY <2>3, <1>1, <1>3 DEF Semget, Shmget, Shmat, Call, Ready
      <3>2. NobodyIn \/ \E h \in Children : SomeoneIn(h)
        BY <3>1, <1>0 DEF Counters
      <3>3. \A c \in Children : (Hold(c)' <=> Hold(c)) /\ ((pc'[c] = "stop") <=> (pc[c] = "stop"))
        BY <1>3 DEF Hold
      <3> QED BY <3>1, <3>2, <3>3, <1>2, <1>4, CountersFrame DEF Counters
    <2> QED BY <2>1, <2>2, <2>3
  <1> QED BY <1>7, <1>8, <1>9, <1>10 DEF IInv

(* The parent from its first fork on: it touches neither the counters nor   *)
(* the page, and a new child starts outside the critical section.           *)
LEMMA ParentStep ==
  ASSUME IInv, Fork \/ ForkFails \/ Forked \/ Wait \/ CleanUp PROVE IInv'
  <1> USE ProducerConsumerAssumption
  <1>0. TypeOK /\ Born /\ LetterReady /\ Counters
    BY DEF IInv
  <1>1. parent \in {"fork", "wait", "clean"}
    BY DEF Fork, ForkFails, Forked, Wait, CleanUp
  <1>2. UNCHANGED <<sem, flag, pr, con, letter, mem, symb, out>>
    BY DEF Fork, ForkFails, Forked, Wait, CleanUp, ipcVars, procVars, shmVars
  <1>3. /\ next' \in 1 .. K + 1 /\ next' >= next
        /\ \A c \in Children : c >= next' => c >= next /\ pc'[c] = pc[c]
        /\ \A c \in Children : pc'[c] # pc[c] => pc[c] = "unborn" /\ pc'[c] = "loop"
        /\ pc' \in [Children -> {"unborn", "loop", "start", "sleep"} \cup Critical \cup Final]
        /\ alarm' \in [Children -> {"none", "armed", "fired", "missed"}]
    <2>1. CASE Fork
      <3>1. next' = next + 1 /\ next \in Children /\ pc[next] = "unborn"
        BY <2>1, <1>0 DEF Fork, TypeOK, Children, Born
      <3> QED BY <2>1, <3>1, <1>0 DEF Fork, TypeOK, Children
    <2>2. CASE UNCHANGED <<next, pc, alarm>>
      BY <2>2, <1>0 DEF TypeOK, Children
    <2> QED BY <2>1, <2>2 DEF ForkFails, Forked, Wait, CleanUp, procVars
  <1>4. /\ ipc' \in SUBSET {"sem", "shm"} /\ reaped' \in SUBSET Children
        /\ parent' \in {"fork", "wait", "clean", "exited"}
    BY <1>0 DEF Fork, ForkFails, Forked, Wait, CleanUp, ipcVars, TypeOK
  <1>5. TypeOK'
    BY <1>0, <1>2, <1>3, <1>4 DEF TypeOK
  <1>6. Born'
    BY <1>0, <1>2, <1>3, <1>4 DEF Born, TypeOK
  <1>7. LetterReady'
    BY <1>0, <1>1, <1>2 DEF LetterReady, Letters
  <1>8. Counters'
    <2>1. NobodyIn \/ \E h \in Children : SomeoneIn(h)
      BY <1>0, <1>1 DEF Counters, Ready
    <2>2. \A c \in Children : (Hold(c)' <=> Hold(c)) /\ ((pc'[c] = "stop") <=> (pc[c] = "stop"))
      BY <1>3 DEF Hold, Critical
    <2> QED BY <2>1, <2>2, <1>2, CountersFrame DEF Counters
  <1> QED BY <1>5, <1>6, <1>7, <1>8 DEF IInv

-----------------------------------------------------------------------------
(* The set is empty and unused, no child exists.                            *)
LEMMA InitIInv == Init => IInv
  <1> SUFFICES ASSUME Init PROVE IInv
    OBVIOUS
  <1> USE ProducerConsumerAssumption DEF Init
  <1>1. TypeOK
    BY DEF TypeOK, Blank
  <1>2. Born /\ LetterReady /\ Counters
    BY DEF Born, LetterReady, Counters, Ready, Children
  <1> QED BY <1>1, <1>2 DEF IInv

(* Every step of every process keeps the invariant.                         *)
LEMMA NextIInv == IInv /\ [Next]_vars => IInv'
  <1> SUFFICES ASSUME IInv, [Next]_vars PROVE IInv'
    OBVIOUS
  <1>1. CASE Parent
    BY <1>1, SetupStep, ParentStep DEF Parent
  <1>2. ASSUME NEW c \in Children, Child(c) \/ Alarm(c) PROVE IInv'
    BY <1>2, QuietStep, EnterStep, AdvanceStep, LeaveStep DEF Child
  <1>3. CASE UNCHANGED vars
    BY <1>3 DEF vars, ipcVars, parentVars, procVars, shmVars, IInv, TypeOK, Born, LetterReady,
                Counters, Ready, NobodyIn, SomeoneIn, Owed, Hold
  <1> QED BY <1>1, <1>2, <1>3 DEF Next, Terminating

(* IInv holds in every reachable state, for all sizes.                      *)
THEOREM Invariance == Spec => []IInv
  BY InitIInv, NextIInv, PTL DEF Spec

(* The counters, pointers and bytes stay in their types: no semaphore is    *)
(* ever driven below zero and *letter stays a letter.                       *)
THEOREM TypeCorrect == Spec => []TypeOK
  <1>1. IInv => TypeOK
    BY DEF IInv
  <1> QED BY <1>1, Invariance, PTL

(* No child is born before the set is initialised, so nobody is inside.     *)
LEMMA OneHolder == ASSUME IInv PROVE \A c, d \in Children : Hold(c) /\ Hold(d) => c = d
  <1> SUFFICES ASSUME NEW c \in Children, NEW d \in Children, Hold(c), Hold(d) PROVE c = d
    OBVIOUS
  <1>1. Ready
    BY Forked1 DEF IInv, Hold, Critical
  <1> QED BY <1>1 DEF IInv, Counters, NobodyIn, SomeoneIn

(* BIN_SEM admits one child at a time between start_... and stop_....       *)
THEOREM MutualExclusionHolds == Spec => []MutualExclusion
  <1>1. IInv => MutualExclusion
    BY OneHolder DEF MutualExclusion, Holders, Hold
  <1> QED BY <1>1, Invariance, PTL

(* The counters keep the pointers within N letters of each other.           *)
LEMMA InWindow == ASSUME IInv PROVE WithinWindow
  <1> USE ProducerConsumerAssumption DEF WithinWindow, Pending
  <1>0. /\ sem[BUFFER_EMPTY] \in Nat /\ sem[BUFFER_FULL] \in Nat /\ pr \in Nat /\ con \in Nat
        /\ next \in 1 .. K + 1
    BY DEF IInv, TypeOK, BUFFER_EMPTY, BUFFER_FULL
  <1>1. CASE next = 1
    BY <1>1 DEF IInv, Born
  <1>2. CASE next > 1 /\ NobodyIn
    BY <1>0, <1>2 DEF NobodyIn
  <1>3. ASSUME NEW h \in Children, SomeoneIn(h) PROVE WithinWindow
    <2>1. Owed(h) \in {0, 1}
      BY DEF Owed
    <2> QED BY <1>0, <1>3, <2>1 DEF SomeoneIn
  <1> QED BY <1>0, <1>1, <1>2, <1>3 DEF IInv, Counters, Ready

(* con_ptr never passes pr_ptr, and pr_ptr stays within N letters of it.    *)
THEOREM WithinWindowHolds == Spec => []WithinWindow
  BY InWindow, Invariance, PTL

(* No slot is lost or made up: BUFFER_EMPTY, BUFFER_FULL and the slot the   *)
(* holder works on add up to N, and with nobody inside BUFFER_FULL is       *)
(* exactly the number of letters between the pointers.                      *)
THEOREM SlotsConservedHolds == Spec => []SlotsConserved
  <1>1. ASSUME IInv PROVE SlotsConserved
    <2> SUFFICES ASSUME next > 1 PROVE /\ sem[BUFFER_EMPTY] + sem[BUFFER_FULL] + Cardinality(Holders) = N
                                       /\ sem[BIN_SEM] + Cardinality(Holders) = 1
                                       /\ Holders = {} => sem[BUFFER_FULL] = Pending
      BY DEF SlotsConserved
    <2> USE ProducerConsumerAssumption
    <2>0. sem[BUFFER_EMPTY] \in Nat /\ sem[BUFFER_FULL] \in Nat
      BY <1>1 DEF IInv, TypeOK, BUFFER_EMPTY, BUFFER_FULL
    <2>1. CASE NobodyIn
      <3>1. Holders = {}
        BY <2>1 DEF NobodyIn, Holders, Hold
      <3>2. Cardinality(Holders) = 0
        BY <3>1, FS_EmptySet
      <3> QED BY <2>0, <2>1, <3>2 DEF NobodyIn, Pending
    <2>2. ASSUME NEW h \in Children, SomeoneIn(h)
          PROVE  /\ sem[BUFFER_EMPTY] + sem[BUFFER_FULL] + Cardinality(Holders) = N
                 /\ sem[BIN_SEM] + Cardinality(Holders) = 1
                 /\ Holders = {} => sem[BUFFER_FULL] = Pending
      <3>1. Holders = {h}
        BY <2>2 DEF SomeoneIn, Holders, Hold
      <3>2. Cardinality(Holders) = 1
        BY <3>1, FS_Singleton
      <3> QED BY <2>0, <2>2, <3>1, <3>2 DEF SomeoneIn
    <2> QED BY <2>1, <2>2, <1>1 DEF IInv, Counters, Ready
  <1> QED BY <1>1, Invariance, PTL

(* Whatever strikes a child in the critical section, it leaves only through *)
(* stop_... or by being killed there: the alarm alone takes nobody out.     *)
THEOREM AlarmIsCleanHolds == Spec => AlarmIsClean
  <1> DEFINE Inside(c) == pc[c] \in Critical => pc'[c] \in Critical \cup {"loop", "killed"}
  <1>1. ASSUME IInv, [Next]_vars PROVE [\A c \in Children : Inside(c)]_vars
    <2> USE DEF Critical, Goto
    <2>0. pc \in [Children -> {"unborn", "loop", "start", "sleep"} \cup Critical \cup Final]
      BY <1>1 DEF IInv, TypeOK
    <2>1. CASE UNCHANGED vars
      BY <2>1
    <2>2. ASSUME NEW c \in Children, Child(c) \/ Alarm(c) PROVE \A d \in Children : Inside(d)
      <3>1. \A d \in Children : d # c => pc'[d] = pc[d]
        BY <2>0, <2>2 DEF Child, Test, Enter, Sleep, Take, Fault, Put, Get, Advance, Leave, Alarm
      <3>2. Inside(c)
        BY <2>0, <2>2 DEF Child, Test, Enter, Sleep, Take, Fault, Put, Get, Advance, Leave, Alarm
      <3> QED BY <3>1, <3>2
    <2>3. CASE Parent /\ ~ Fork
      <3>1. pc' = pc
        BY <2>3 DEF Parent, Semget, Semctl, Shmget, Shmat, Call, ForkFails, Forked, Wait, CleanUp, procVars
      <3> QED BY <3>1
    <2>4. CASE Fork
      <3>1. next \in Children /\ pc[next] = "unborn"
        BY <2>4, <1>1 DEF Fork, IInv, TypeOK, Born, Children
      <3> QED BY <2>0, <2>4, <3>1 DEF Fork
    <2> QED BY <2>1, <2>2, <2>3, <2>4, <1>1 DEF Next, Terminating
  <1> QED BY <1>1, Invariance, PTL DEF Spec, AlarmIsClean

-----------------------------------------------------------------------------
(* The letters come out in the order of the alphabet, and the IPC objects   *)
(* outlive the children.                                                    *)
(*                                                                          *)
(* AlphabetInOrder speaks of what was printed.  It is inductive only with   *)
(* what the page holds up to pr_ptr (Stored), what the next producer will   *)
(* store (Upcoming), and how the printed letters relate to the page         *)
(* (Printed).  IInv supplies that there is one holder at a time and that    *)
(* con_ptr does not pass pr_ptr.                                            *)

(* x is the letter that belongs at position p of the page.                  *)
Fits(x, p) == p \in Offset => x = IF p = 0 THEN 0 ELSE Succ(mem[p - 1])

Stored == \A a \in Offset : a < pr => Fits(mem[a], a)

Carrying(c) == c \in Producers /\ pc[c] \in {"put", "advance"}

Upcoming ==
  /\ next > 1 /\ (\A c \in Children : ~ Carrying(c)) => Fits(letter, pr)
  /\ \A c \in Children : Carrying(c) => letter = Succ(symb[c]) /\ Fits(symb[c], pr)
  /\ \A c \in Producers : pc[c] = "advance" /\ pr \in Offset => mem[pr] = symb[c]
  /\ \A c \in Producers : pc[c] = "killed" => pr \notin Offset
  /\ next = 1 /\ parent = "fork" => letter = 0

Printing(c) == c \in Consumers /\ pc[c] = "advance"

Printed ==
  /\ (\A c \in Children : ~ Printing(c)) => Len(out) = con
  /\ \A c \in Children : Printing(c) => Len(out) = con + 1
  /\ \A i \in 1 .. Len(out) : i <= ROOM => out[i] = mem[i - 1]

LInv == Stored /\ Upcoming /\ Printed

(* Only producers execute the lines that take a letter.                     *)
Takers == \A c \in Children : pc[c] = "take" => c \in Producers

(* What main() has created when, and what it knows when it removes it.      *)
IpcInv ==
  /\ parent = "semget" => ipc = {}
  /\ parent \in {"semctl", "shmget"} => ipc = {"sem"}
  /\ parent \in {"shmat", "fork", "wait", "clean"} => ipc = {"sem", "shm"}
  /\ \A c \in reaped : pc[c] \in Final
  /\ parent = "clean" => \A c \in Children : ~ Live(c)
  /\ parent = "exited" => ipc = {"sem", "shm"} \/ \A c \in Children : ~ Live(c)

-----------------------------------------------------------------------------
(* The pointers seen from inside the critical section.                      *)
LEMMA HolderFacts ==
  ASSUME IInv, NEW c \in Children, Hold(c)
  PROVE  /\ \A d \in Children : Hold(d) => d = c
         /\ pr \in Nat /\ con \in Nat /\ con <= pr
         /\ Printing(c) => con < pr
  <1> USE ProducerConsumerAssumption
  <1>1. Ready
    BY Forked1 DEF IInv, Hold, Critical
  <1>2. SomeoneIn(c)
    BY <1>1 DEF IInv, Counters, NobodyIn, SomeoneIn
  <1>3. sem[BUFFER_FULL] \in Nat /\ pr \in Nat /\ con \in Nat
    BY DEF IInv, TypeOK, BUFFER_FULL
  <1>4. Owed(c) \in {0, 1} /\ (Printing(c) => Owed(c) = 1)
    BY DEF Owed, Printing, Consumers
  <1> QED BY <1>2, <1>3, <1>4 DEF SomeoneIn

(* A step that touches neither page, pointers nor output and moves no child *)
(* between the points LInv tells apart.  The letter may only change before  *)
(* the first fork.                                                          *)
LEMMA LettersFrame ==
  ASSUME LInv, UNCHANGED <<pr, con, mem, out>>,
         next > 1 => letter' = letter,
         next' > 1 => next > 1 \/ (letter' = 0 /\ pr = 0),
         next' = 1 /\ parent' = "fork" => letter' = 0,
         \A c \in Children :
           /\ Carrying(c)' <=> Carrying(c)
           /\ Carrying(c) => symb'[c] = symb[c] /\ letter' = letter
           /\ pc'[c] = "advance" <=> pc[c] = "advance"
           /\ pc'[c] = "killed" /\ c \in Producers => pc[c] = "killed" \/ pr \notin Offset
  PROVE  LInv'
  <1>1. Stored'
    BY DEF LInv, Stored, Fits
  <1>2. Upcoming'
    <2> USE DEF Upcoming
    <2>0. Upcoming
      BY DEF LInv
    <2>1. (next > 1 /\ \A c \in Children : ~ Carrying(c))' => Fits(letter, pr)'
      BY <2>0 DEF Fits
    <2>2. \A c \in Children : Carrying(c)' => letter' = Succ(symb'[c]) /\ Fits(symb[c], pr)'
      BY <2>0 DEF Fits
    <2>3. \A c \in Producers : pc'[c] = "advance" /\ pr' \in Offset => mem'[pr'] = symb'[c]
      BY <2>0 DEF Carrying, Producers
    <2>4. \A c \in Producers : pc'[c] = "killed" => pr' \notin Offset
      BY <2>0 DEF Producers
    <2> QED BY <2>1, <2>2, <2>3, <2>4
  <1>3. Printed'
    BY DEF LInv, Printed, Printing
  <1> QED BY <1>1, <1>2, <1>3 DEF LInv

(* The steps of a child that leave the page and the output alone.           *)
LEMMA QuietLetters ==
  ASSUME IInv, LInv, NEW c \in Children,
         Test(c) \/ Enter(c) \/ Sleep(c) \/ Fault(c) \/ Leave(c) \/ Alarm(c)
  PROVE  LInv'
  <1> USE ProducerConsumerAssumption DEF Goto
  <1>1. UNCHANGED <<pr, con, mem, out, letter, next, parent>>
    BY DEF Test, Enter, Sleep, Fault, Leave, Alarm, shmVars, parentVars
  <1>2. /\ next \in Nat /\ pr \in Nat /\ con \in Nat /\ symb \in [Children -> 0 .. L]
        /\ pc \in [Children -> {"unborn", "loop", "start", "sleep"} \cup Critical \cup Final]
    BY DEF IInv, TypeOK
  <1>3. \A d \in Children : d # c => pc'[d] = pc[d] /\ symb'[d] = symb[d]
    BY <1>2 DEF Test, Enter, Sleep, Fault, Leave, Alarm
  <1>4. CASE Fault(c)
    <2>1. pc[c] = "put" /\ pc'[c] = "killed" /\ symb' = symb /\ (c \in Producers => pr \notin Offset)
      BY <1>2, <1>4 DEF Fault, Offset
    <2>2. Stored' /\ Printed'
      BY <2>1, <1>1, <1>3 DEF LInv, Stored, Fits, Printed, Printing
    <2>3. Upcoming'
      <3>1. Upcoming
        BY DEF LInv
      <3>2. CASE c \in Producers
        BY <2>1, <3>1, <3>2, <1>1, <1>3 DEF Upcoming, Fits, Carrying, Producers
      <3>3. CASE c \notin Producers
        BY <2>1, <3>1, <3>3, <1>1, <1>3 DEF Upcoming, Fits, Carrying, Producers
      <3> QED BY <3>2, <3>3
    <2> QED BY <2>2, <2>3 DEF LInv
  <1>5. CASE ~ Fault(c)
    <2>1. /\ Carrying(c)' <=> Carrying(c)
          /\ Carrying(c) => symb'[c] = symb[c]
          /\ pc'[c] = "advance" <=> pc[c] = "advance"
          /\ pc'[c] = "killed" => pc[c] = "killed"
      BY <1>2, <1>5 DEF Test, Enter, Sleep, Leave, Alarm, Carrying, Live
    <2>2. \A d \in Children :
            /\ Carrying(d)' <=> Carrying(d)
            /\ Carrying(d) => symb'[d] = symb[d] /\ letter' = letter
            /\ pc'[d] = "advance" <=> pc[d] = "advance"
            /\ pc'[d] = "killed" /\ d \in Producers => pc[d] = "killed" \/ pr \notin Offset
      BY <2>1, <1>1, <1>3 DEF Carrying
    <2>3. next = 1 /\ parent = "fork" => letter = 0
      BY DEF LInv, Upcoming
    <2> QED BY <2>2, <2>3, <1>1, LettersFrame
  <1> QED BY <1>4, <1>5

(* The steps of the parent: only Shmat writes to the page, before any fork. *)
LEMMA ParentLetters == ASSUME IInv, LInv, Parent PROVE LInv'
  <1> USE ProducerConsumerAssumption
  <1>1. /\ next \in Nat /\ next >= 1
        /\ pc \in [Children -> {"unborn", "loop", "start", "sleep"} \cup Critical \cup Final]
    BY DEF IInv, TypeOK
  <1>2. next = 1 => /\ pr = 0 /\ con = 0
                    /\ \A c \in Children : pc[c] = "unborn"
    BY DEF IInv, Born, Children
  <1>3. parent = "shmat" => next = 1
    BY DEF IInv, Born
  <1>4. UNCHANGED <<mem, out, symb>>
    BY DEF Parent, Semget, Semctl, Shmget, Shmat, Call, Fork, ForkFails, Forked, Wait, CleanUp, shmVars
  <1>5. UNCHANGED <<pr, con>> /\ (letter' = letter \/ (parent = "shmat" /\ letter' = 0))
    BY <1>2, <1>3 DEF Parent, Semget, Semctl, Shmget, Shmat, Call, Fork, ForkFails, Forked, Wait, CleanUp, shmVars
  <1>6. /\ next' = next \/ (Fork /\ next' = next + 1)
        /\ parent' = "fork" => parent \in {"shmat", "fork"} /\ (parent = "shmat" => letter' = 0)
    BY DEF Parent, Semget, Semctl, Shmget, Shmat, Call, Fork, ForkFails, Forked, Wait, CleanUp, shmVars
  <1>7. next = 1 /\ parent = "fork" => letter = 0
    BY DEF LInv, Upcoming
  <1>8. \A c \in Children : pc'[c] # pc[c] => pc[c] = "unborn" /\ pc'[c] = "loop"
    <2>1. CASE Fork
      <3>1. next \in Children /\ pc[next] = "unborn"
        BY <2>1 DEF Fork, IInv, TypeOK, Born, Children
      <3> QED BY <2>1, <3>1, <1>1 DEF Fork
    <2>2. CASE UNCHANGED pc
      BY <2>2
    <2> QED BY <2>1, <2>2 DEF Parent, Semget, Semctl, Shmget, Shmat, Call, ForkFails, Forked, Wait, CleanUp, procVars
  <1>9. \A c \in Children :
          /\ Carrying(c)' <=> Carrying(c)
          /\ pc'[c] = "advance" <=> pc[c] = "advance"
          /\ pc'[c] = "killed" => pc[c] = "killed"
    BY <1>8 DEF Carrying
  <1>10. \A c \in Children : Carrying(c) => next > 1
    BY <1>1, <1>2 DEF Carrying
  <1>11. next > 1 => letter' = letter
    BY <1>1, <1>3, <1>5
  <1>12. next' > 1 => next > 1 \/ (letter' = 0 /\ pr = 0)
    BY <1>1, <1>2, <1>5, <1>6, <1>7 DEF Fork
  <1>13. next' = 1 /\ parent' = "fork" => letter' = 0
    BY <1>1, <1>5, <1>6, <1>7
  <1> QED BY <1>4, <1>5, <1>9, <1>10, <1>11, <1>12, <1>13, LettersFrame

-----------------------------------------------------------------------------
(* symb = (star letter)++: the letter that fits moves into the producer.    *)
LEMMA TakeLetters == ASSUME IInv, LInv, NEW c \in Producers, Take(c) PROVE LInv'
  <1> USE ProducerConsumerAssumption DEF Goto
  <1>1. /\ pc[c] = "take" /\ c \in Children
        /\ \A d \in Children : pc'[d] = (IF d = c THEN "put" ELSE pc[d])
        /\ symb'[c] = letter /\ letter' = Succ(letter)
        /\ UNCHANGED <<pr, con, mem, out, next, parent>>
    BY DEF IInv, TypeOK, Take, ipcVars, parentVars, Producers
  <1>2. \A d \in Children : Hold(d) => d = c
    BY <1>1, HolderFacts DEF Hold, Critical
  <1>3. next > 1
    BY <1>1, Forked1 DEF IInv
  <1>4. \A d \in Children : ~ Carrying(d)
    BY <1>1, <1>2 DEF Carrying, Hold, Critical
  <1>5. Fits(letter, pr)
    BY <1>3, <1>4 DEF LInv, Upcoming
  <1>6. Stored' /\ Printed'
    BY <1>1 DEF LInv, Stored, Fits, Printed, Printing
  <1>7. Upcoming'
    <2>1. Carrying(c)' /\ \A d \in Children : Carrying(d)' => d = c
      BY <1>1, <1>4 DEF Carrying
    <2>2. \A d \in Producers : pc'[d] # "advance" /\ pc'[d] # "killed"
      BY <1>1, <1>2 DEF Producers, Hold, Critical
    <2> QED BY <2>1, <2>2, <1>1, <1>3, <1>5 DEF Upcoming, Fits
  <1> QED BY <1>6, <1>7 DEF LInv

(* The store at pr_ptr lies beyond everything stored or printed so far.     *)
LEMMA PutLetters == ASSUME IInv, LInv, NEW c \in Children, Put(c) PROVE LInv'
  <1> USE ProducerConsumerAssumption DEF Goto
  <1>1. /\ pc[c] = "put" /\ c \in Producers
        /\ \A d \in Children : pc'[d] = (IF d = c THEN "advance" ELSE pc[d])
        /\ UNCHANGED <<pr, con, letter, symb, out, next, parent>>
    BY DEF IInv, TypeOK, Put, ipcVars, parentVars
  <1>2. /\ \A d \in Children : Hold(d) => d = c
        /\ pr \in Nat /\ con \in Nat /\ con <= pr
    BY <1>1, HolderFacts DEF Hold, Critical
  <1>3. Carrying(c) /\ letter = Succ(symb[c]) /\ Fits(symb[c], pr)
    BY <1>1 DEF LInv, Upcoming, Carrying
  <1>4. /\ \A a \in Offset : a # pr => mem'[a] = mem[a]
        /\ pr \in Offset => mem'[pr] = symb[c]
    BY <1>2 DEF Put, IInv, TypeOK, Offset
  <1>5. Fits(symb[c], pr)'
    BY <1>1, <1>2, <1>3, <1>4 DEF Fits, Offset
  <1>6. Stored'
    <2> SUFFICES ASSUME NEW a \in Offset, a < pr PROVE Fits(mem[a], a)'
      BY <1>1 DEF Stored
    <2>1. Fits(mem[a], a)
      BY DEF LInv, Stored
    <2> QED BY <2>1, <1>2, <1>4 DEF Fits, Offset
  <1>7. Upcoming'
    <2>1. Carrying(c)' /\ \A d \in Children : Carrying(d)' => d = c
      BY <1>1, <1>2 DEF Carrying, Hold, Critical
    <2>2. \A d \in Producers : pc'[d] = "advance" => d = c
      BY <1>1, <1>2 DEF Producers, Hold, Critical
    <2>3. \A d \in Producers : pc'[d] # "killed"
      BY <1>1, <1>2 DEF Producers, Hold
    <2>4. next > 1
      BY <1>1, Forked1 DEF IInv
    <2> QED BY <2>1, <2>2, <2>3, <2>4, <1>1, <1>3, <1>4, <1>5 DEF Upcoming
  <1>8. Printed'
    <2>1. \A d \in Children : ~ Printing(d) /\ ~ Printing(d)'
      BY <1>1, <1>2 DEF Printing, Consumers, Hold, Critical
    <2>2. Len(out) = con /\ \A i \in 1 .. Len(out) : i <= ROOM => out[i] = mem[i - 1]
      BY <2>1 DEF LInv, Printed
    <2>3. ASSUME NEW i \in 1 .. Len(out), i <= ROOM PROVE out[i] = mem'[i - 1]
      <3>1. i - 1 \in Offset /\ i - 1 # pr
        BY <2>2, <2>3, <1>2 DEF Offset
      <3> QED BY <2>2, <2>3, <3>1, <1>4
    <2> QED BY <2>1, <2>2, <2>3, <1>1 DEF Printed
  <1> QED BY <1>6, <1>7, <1>8 DEF LInv

(* The load at con_ptr is the next letter of the page.                      *)
LEMMA GetLetters == ASSUME IInv, LInv, NEW c \in Children, Get(c) PROVE LInv'
  <1> USE ProducerConsumerAssumption DEF Goto
  <1>1. /\ pc[c] = "put" /\ c \in Consumers /\ c \notin Producers
        /\ \A d \in Children : pc'[d] = (IF d = c THEN "advance" ELSE pc[d])
        /\ UNCHANGED <<pr, con, letter, mem, symb, next, parent>>
    BY DEF IInv, TypeOK, Get, ipcVars, parentVars, shmVars, Consumers
  <1>2. /\ \A d \in Children : Hold(d) => d = c
        /\ con \in Nat
    BY <1>1, HolderFacts DEF Hold, Critical
  <1>3. Stored'
    BY <1>1 DEF LInv, Stored, Fits
  <1>4. Upcoming'
    BY <1>1 DEF LInv, Upcoming, Carrying, Fits, Producers
  <1>5. Printed'
    <2>1. \A d \in Children : ~ Printing(d)
      BY <1>1, <1>2 DEF Printing, Hold, Critical
    <2>2. Len(out) = con /\ \A i \in 1 .. Len(out) : i <= ROOM => out[i] = mem[i - 1]
      BY <2>1 DEF LInv, Printed
    <2> DEFINE x == IF con < ROOM THEN mem[con] ELSE Blank
    <2>3. out \in Seq(0 .. L) /\ out' = Append(out, x) /\ x \in 0 .. L
      BY <1>2 DEF IInv, TypeOK, Get, Offset, Blank
    <2> HIDE DEF x
    <2>4. /\ Len(out') = con + 1 /\ out'[con + 1] = x
          /\ \A i \in 1 .. Len(out) : out'[i] = out[i]
      BY <2>2, <2>3
    <2>5. ASSUME NEW i \in 1 .. Len(out'), i <= ROOM PROVE out'[i] = mem[i - 1]
      <3>1. CASE i = con + 1
        BY <3>1, <2>4, <2>5, <1>2 DEF x
      <3>2. CASE i # con + 1
        BY <3>2, <2>2, <2>4, <2>5, <1>2
      <3> QED BY <3>1, <3>2
    <2>6. Printing(c)'
      BY <1>1 DEF Printing
    <2> QED BY <2>4, <2>5, <2>6, <1>1 DEF Printed
  <1> QED BY <1>3, <1>4, <1>5 DEF LInv

(* The pointer moves past the letter just stored or just printed.           *)
LEMMA AdvanceLetters == ASSUME IInv, LInv, NEW c \in Children, Advance(c) PROVE LInv'
  <1> USE ProducerConsumerAssumption DEF Goto
  <1>1. /\ pc[c] = "advance"
        /\ \A d \in Children : pc'[d] = (IF d = c THEN "stop" ELSE pc[d])
        /\ UNCHANGED <<letter, mem, symb, out, next, parent>>
    BY DEF IInv, TypeOK, Advance, ipcVars, parentVars
  <1>2. /\ \A d \in Children : Hold(d) => d = c
        /\ pr \in Nat /\ con \in Nat
    BY <1>1, HolderFacts DEF Hold, Critical
  <1>3. next > 1
    BY <1>1, Forked1 DEF IInv
  <1>4. \A d \in Children : ~ Carrying(d)' /\ ~ Printing(d)'
    BY <1>1, <1>2 DEF Carrying, Printing, Hold, Critical
  <1>5. \A d \in Producers : pc'[d] \notin {"advance", "killed"}
    BY <1>1, <1>2 DEF Producers, Hold, Critical
  <1>6. CASE c \in Producers
    <2>1. pr' = pr + 1 /\ con' = con
      BY <1>6 DEF Advance
    <2>2. Carrying(c) /\ letter = Succ(symb[c]) /\ Fits(symb[c], pr) /\ (pr \in Offset => mem[pr] = symb[c])
      BY <1>1, <1>6 DEF LInv, Upcoming, Carrying
    <2>3. Stored'
      <3> SUFFICES ASSUME NEW a \in Offset, a < pr + 1 PROVE Fits(mem[a], a)
        BY <2>1, <1>1 DEF Stored, Fits
      <3>1. a < pr \/ a = pr
        BY <1>2 DEF Offset
      <3> QED BY <3>1, <2>2 DEF LInv, Stored
    <2>4. Fits(letter, pr)'
      <3>1. pr + 1 \in Offset => pr \in Offset /\ pr + 1 # 0 /\ (pr + 1) - 1 = pr
        BY <1>2 DEF Offset
      <3> QED BY <3>1, <2>1, <2>2, <1>1 DEF Fits
    <2>5. Upcoming'
      BY <2>4, <1>1, <1>3, <1>4, <1>5 DEF Upcoming
    <2>6. Printed'
      <3>1. \A d \in Children : ~ Printing(d)
        BY <1>1, <1>2, <1>6 DEF Printing, Consumers, Hold, Critical
      <3> QED BY <3>1, <2>1, <1>1, <1>4 DEF LInv, Printed
    <2> QED BY <2>3, <2>5, <2>6 DEF LInv
  <1>7. CASE c \notin Producers
    <2>1. pr' = pr /\ con' = con + 1
      BY <1>7 DEF Advance
    <2>2. Stored'
      BY <2>1, <1>1 DEF LInv, Stored, Fits
    <2>3. \A d \in Children : ~ Carrying(d)
      BY <1>1, <1>2, <1>7 DEF Carrying, Hold, Critical
    <2>4. Fits(letter, pr)'
      BY <2>1, <2>3, <1>1, <1>3 DEF LInv, Upcoming, Fits
    <2>5. Upcoming'
      BY <2>4, <1>1, <1>3, <1>4, <1>5 DEF Upcoming
    <2>6. Printed'
      <3>1. Printing(c)
        BY <1>1, <1>7 DEF Printing, Consumers
      <3> QED BY <3>1, <2>1, <1>1, <1>4 DEF LInv, Printed
    <2> QED BY <2>2, <2>5, <2>6 DEF LInv
  <1> QED BY <1>6, <1>7

-----------------------------------------------------------------------------
(* Where one step can take one child.                                       *)
LEMMA ChildMoves ==
  ASSUME IInv, [Next]_vars, NEW d \in Children
  PROVE  /\ pc'[d] = "take" => pc[d] = "take" \/ d \in Producers
         /\ pc[d] \in Final => pc'[d] = pc[d]
         /\ pc[d] = "unborn" /\ pc'[d] # "unborn" => Fork
  <1> USE DEF Goto
  <1>1. pc \in [Children -> {"unborn", "loop", "start", "sleep"} \cup Critical \cup Final]
    BY DEF IInv, TypeOK
  <1>2. CASE UNCHANGED pc
    BY <1>2
  <1>3. ASSUME NEW c \in Children, Child(c) \/ Alarm(c) PROVE
          /\ pc'[d] = "take" => pc[d] = "take" \/ d \in Producers
          /\ pc[d] \in Final \cup {"unborn"} => pc'[d] = pc[d]
    <2>1. CASE d = c
      BY <1>1, <1>3, <2>1 DEF Child, Test, Enter, Sleep, Take, Fault, Put, Get, Advance, Leave, Alarm,
                              Live, Final
    <2>2. CASE d # c
      BY <1>1, <1>3, <2>2 DEF Child, Test, Enter, Sleep, Take, Fault, Put, Get, Advance, Leave, Alarm
    <2> QED BY <2>1, <2>2
  <1>4. CASE Fork
    <2>1. next \in Children /\ pc[next] = "unborn"
      BY <1>4 DEF Fork, IInv, TypeOK, Born, Children
    <2> QED BY <1>1, <1>4, <2>1 DEF Fork, Final
  <1> QED BY <1>2, <1>3, <1>4 DEF Next, Parent, Terminating, vars, procVars, Semget, Semctl, Shmget,
                                  Shmat, Call, ForkFails, Forked, Wait, CleanUp

(* Every step of every process keeps the letters in order.                  *)
LEMMA NextLInv == IInv /\ LInv /\ Takers /\ [Next]_vars => LInv' /\ Takers'
  <1> SUFFICES ASSUME IInv, LInv, Takers, [Next]_vars PROVE LInv' /\ Takers'
    OBVIOUS
  <1>1. Takers'
    BY ChildMoves DEF Takers
  <1>2. CASE Parent
    BY <1>1, <1>2, ParentLetters
  <1>3. ASSUME NEW c \in Children, Child(c) \/ Alarm(c) PROVE LInv'
    <2>1. CASE Take(c)
      <3>1. c \in Producers
        BY <2>1 DEF Take, Takers
      <3> QED BY <2>1, <3>1, TakeLetters
    <2> QED BY <2>1, <1>3, QuietLetters, PutLetters, GetLetters, AdvanceLetters DEF Child
  <1>4. CASE UNCHANGED vars
    <2>1. UNCHANGED <<parent, next, pc, pr, con, letter, mem, symb, out>>
      BY <1>4 DEF vars, parentVars, procVars, shmVars
    <2> QED BY <1>1, <2>1 DEF LInv, Stored, Upcoming, Printed, Fits, Carrying, Printing
  <1> QED BY <1>1, <1>2, <1>3, <1>4 DEF Next, Terminating

(* While the buffer stays inside the page the consumers print a, b, c, ...  *)
(* with nothing lost, repeated or read early, however the producers and     *)
(* consumers interleave and whenever their alarms go off.                   *)
THEOREM AlphabetInOrderHolds == Spec => []AlphabetInOrder
  <1>1. Init => LInv /\ Takers
    <2> SUFFICES ASSUME Init PROVE LInv /\ Takers
      OBVIOUS
    <2> USE ProducerConsumerAssumption DEF Init
    <2>1. Stored
      BY DEF Stored, Offset
    <2>2. Upcoming
      BY DEF Upcoming, Carrying, Producers
    <2>3. Printed
      BY DEF Printed, Printing
    <2> QED BY <2>1, <2>2, <2>3 DEF LInv, Takers
  <1>2. ASSUME IInv, LInv PROVE AlphabetInOrder
    <2> USE ProducerConsumerAssumption
    <2> SUFFICES ASSUME NEW i \in 1 .. Len(out), i <= ROOM
                 PROVE  out[i] = IF i = 1 THEN 0 ELSE Succ(out[i - 1])
      BY DEF AlphabetInOrder
    <2>1. out \in Seq(0 .. L) /\ pr \in Nat /\ con \in Nat /\ Len(out) \in Nat
      BY <1>2 DEF IInv, TypeOK
    <2>2. Len(out) <= pr
      <3>1. ASSUME NEW c \in Children, Printing(c) PROVE Len(out) <= pr
        <4>1. con < pr
          BY <3>1, <1>2, HolderFacts DEF Printing, Hold, Critical
        <4> QED BY <3>1, <4>1, <2>1, <1>2 DEF LInv, Printed
      <3>2. CASE \A c \in Children : ~ Printing(c)
        <4>1. con <= pr
          BY <1>2, InWindow DEF WithinWindow
        <4> QED BY <3>2, <4>1, <1>2 DEF LInv, Printed
      <3> QED BY <3>1, <3>2
    <2>3. i - 1 \in Offset /\ i - 1 < pr
      BY <2>1, <2>2 DEF Offset
    <2>4. out[i] = mem[i - 1] /\ Fits(mem[i - 1], i - 1)
      BY <2>3, <1>2 DEF LInv, Stored, Printed
    <2>5. CASE i = 1
      BY <2>3, <2>4, <2>5 DEF Fits
    <2>6. CASE i # 1
      <3>1. i - 1 \in 1 .. Len(out) /\ i - 1 <= ROOM /\ i - 1 # 0
        BY <2>1, <2>6
      <3>2. out[i - 1] = mem[(i - 1) - 1]
        BY <3>1, <1>2 DEF LInv, Printed
      <3> QED BY <2>3, <2>4, <2>6, <3>1, <3>2 DEF Fits
    <2> QED BY <2>5, <2>6
  <1> QED BY <1>1, <1>2, NextLInv, Invariance, PTL DEF Spec

-----------------------------------------------------------------------------
(* A child is live after a step only if it was before, or is being forked.  *)
LEMMA NextIpc == IInv /\ IpcInv /\ [Next]_vars => IpcInv'
  <1> SUFFICES ASSUME IInv, IpcInv, [Next]_vars PROVE IpcInv'
    OBVIOUS
  <1> USE ProducerConsumerAssumption
  <1>0. /\ reaped \in SUBSET Children
        /\ pc \in [Children -> {"unborn", "loop", "start", "sleep"} \cup Critical \cup Final]
    BY DEF IInv, TypeOK
  <1>1. \A c \in Children : pc[c] \in Final => pc'[c] \in Final
    BY ChildMoves
  <1>2. CASE Fork
    BY <1>0, <1>1, <1>2 DEF Fork, IpcInv, ipcVars
  <1>3. CASE ~ Fork
    <2>1. \A c \in Children : Live(c)' => Live(c)
      BY <1>0, <1>1, <1>3, ChildMoves DEF Live
    <2>2. CASE UNCHANGED <<ipc, parent, reaped>>
      BY <2>1, <2>2, <1>0, <1>1 DEF IpcInv
    <2>3. CASE Semget \/ Semctl \/ Shmget \/ Shmat
      <3>1. next = 1 /\ \A c \in Children : ~ Live(c)
        BY <2>3 DEF IInv, Born, Children, Semget, Semctl, Shmget, Shmat, Call, Live
      <3> QED BY <2>1, <2>3, <3>1, <1>0, <1>1 DEF Semget, Semctl, Shmget, Shmat, Call, IpcInv
    <2>4. CASE ForkFails \/ Forked
      BY <2>1, <2>4, <1>0, <1>1 DEF ForkFails, Forked, IpcInv, ipcVars
    <2>5. CASE Wait
      <3>1. \A c \in reaped' : pc[c] \in Final
        BY <2>5 DEF Wait, IpcInv
      <3>2. parent' = "clean" => \A c \in Children : ~ Live(c)
        BY <2>5, <3>1 DEF Wait, Live
      <3> QED BY <2>1, <2>5, <3>1, <3>2, <1>0, <1>1 DEF Wait, IpcInv, ipcVars, procVars
    <2>6. CASE CleanUp
      BY <2>1, <2>6, <1>0, <1>1 DEF CleanUp, IpcInv
    <2>7. ASSUME NEW c \in Children, Child(c) \/ Alarm(c) PROVE UNCHANGED <<ipc, parent, reaped>>
      BY <2>7 DEF Child, Test, Enter, Sleep, Take, Fault, Put, Get, Advance, Leave, Alarm, ipcVars, parentVars
    <2> QED BY <2>2, <2>3, <2>4, <2>5, <2>6, <2>7, <1>3
            DEF Next, Parent, Terminating, vars, ipcVars, parentVars
  <1> QED BY <1>2, <1>3

(* main() removes the set and the page only when no child can use them any  *)
(* more, whichever call failed before.                                      *)
THEOREM IpcOutlivesChildrenHolds == Spec => []IpcOutlivesChildren
  <1>1. Init => IpcInv
    BY DEF Init, IpcInv
  <1>2. IInv /\ IpcInv => IpcOutlivesChildren
    <2> SUFFICES ASSUME IInv, IpcInv, NEW c \in Children, Live(c) PROVE ipc = {"sem", "shm"}
      BY DEF IpcOutlivesChildren
    <2>1. next > 1
      BY Forked1 DEF IInv, Live
    <2> QED BY <2>1 DEF IpcInv, IInv, Born, TypeOK
  <1> QED BY <1>1, <1>2, NextIpc, Invariance, PTL DEF Spec
=============================================================================
