------------------------- MODULE ReadersWritersProofs -------------------------
(***************************************************************************)
(* The two reader-writer monitors for every number of writers, readers,    *)
(* letters and rounds.                                                     *)
(*                                                                         *)
(* Exclusion and OneToken say who works beside whom, but not where the     *)
(* others are nor when the program stops counting; RWInv and WInv add      *)
(* that and are inductive.                                                 *)
(***************************************************************************)
EXTENDS ReadersWriters, SemRingProofs, FiniteSetTheorems

Numbers == 0 .. 3
States  == {"unborn", "loop", "start", "sleep"} \cup Reading \cup Writing \cup Final

(* Children are forked in order.                                            *)
Born == \A c \in Children : c >= next => pc[c] = "unborn"

(* Only readers read and only writers write.                                *)
Roles == \A c \in Children : /\ pc[c] \in Reading => c \in Readers
                             /\ pc[c] \in Writing => c \in Writers

(* The letter is past 'z' only between the two statements of a writer.      *)
Transient == addr = L + 1 => \E w \in Children : pc[w] = "wrap"

(* A writer that has counted two rounds is on its way out: it raises the    *)
(* signal or has cleared its flag.                                          *)
TwoRounds ==
  \A w \in Writers : count[w] = 2 =>
    pc[w] = "kill" \/ (pc[w] \in {"stop", "loop", "exit0"} /\ ~ flag[w])

RWInv == TypeOK /\ Born /\ Roles /\ Exclusion /\ Transient /\ TwoRounds

-----------------------------------------------------------------------------
(* The same for the threads of the Windows program.                         *)

Outside == {"none", "loop", "queue", "test", "try", "wait", "done"}
Counted == {"dequeue", "unlock", "print", "load", "store"}
WStates == Outside \cup W!ReadHold \cup W!WriteHold

WTypes ==
  /\ can_read \in BOOLEAN /\ can_write \in BOOLEAN
  /\ cnt \in 0 .. WinRounds
  /\ tmp \in [Children -> Int]
  /\ wPc \in [Children -> WStates]
  /\ wNext \in Nat \ {0}

(* Threads are created in order, and each has one of the two roles.         *)
WRoles ==
  /\ \A t \in Children : t >= wNext => wPc[t] = "none"
  /\ \A r \in Readers : wPc[r] \in Outside \cup W!ReadHold
  /\ \A w \in Writers : wPc[w] \in Outside \cup W!WriteHold

(* active_readers is 1 exactly while a reader is counted, and the registers *)
(* of the two plain updates hold what the update needs.                     *)
WCount ==
  /\ active_readers = IF \E r \in Readers : wPc[r] \in Counted THEN 1 ELSE 0
  /\ \A r \in Readers : /\ wPc[r] = "enter" => tmp[r] = 0
                        /\ wPc[r] = "store" => tmp[r] = 1

(* After the last round the token is with the writer that completed it, or  *)
(* gone.                                                                    *)
WLast == cnt = WinRounds =>
           /\ ~ can_read /\ ~ can_write
           /\ \A t \in W!Holders : t \in Writers /\ wPc[t] \in {"write", "end"}

WInv == WTypes /\ WRoles /\ WCount /\ WLast /\ W!OneToken

-----------------------------------------------------------------------------
(* What the four arrays do when they do not block.                          *)

(* A wait for zero that passes has found zero and changed nothing.          *)
LEMMA ZeroPasses ==
  ASSUME NEW n \in Numbers, NEW s \in [Numbers -> Nat], (s ## <<n, 0>>) # Blocked
  PROVE  s[n] = 0 /\ (s ## <<n, 0>>) = s
  BY Zero

(* start_read: no writer works, none is counted as waiting, and one more    *)
(* reader is counted; READ_COUNT is back where it was.                      *)
LEMMA StartReadEffect ==
  ASSUME NEW s \in [Numbers -> Nat], start_read(s) # Blocked
  PROVE  /\ s[1] = 0 /\ s[3] = 0
         /\ start_read(s) = [s EXCEPT ![0] = @ + 1]
  <1> DEFINE a == [s EXCEPT ![2] = @ + 1]
             b == [a EXCEPT ![0] = @ + 1]
  <1>0. 0 \in Numbers /\ 1 \in Numbers /\ 2 \in Numbers /\ 3 \in Numbers
    BY DEF Numbers
  <1>1. /\ a \in [Numbers -> Nat] /\ a[0] = s[0] /\ a[1] = s[1] /\ a[2] = s[2] + 1 /\ a[3] = s[3]
        /\ s[0] \in Nat /\ s[2] \in Nat
    BY <1>0
  <1>2. (s ## <<2, 1>>) = a
    BY <1>0, Add
  <1>3. start_read(s) = (a ## <<1, 0>> ## <<3, 0>> ## <<0, 1>> ## <<2, -1>>)
    BY <1>2 DEF start_read, COUNT_ACTIVE_READERS, ACTIVE_WRITER, READ_COUNT, WRITE_COUNT
  <1> HIDE DEF a
  <1>4. (a ## <<1, 0>>) # Blocked
    BY <1>3, BlockedStays
  <1>5. a[1] = 0 /\ (a ## <<1, 0>>) = a
    BY <1>0, <1>1, <1>4, ZeroPasses
  <1>6. (a ## <<3, 0>>) # Blocked
    BY <1>3, <1>5, BlockedStays
  <1>7. a[3] = 0 /\ (a ## <<3, 0>>) = a
    BY <1>0, <1>1, <1>6, ZeroPasses
  <1>8. b \in [Numbers -> Nat] /\ b[2] = s[2] + 1 /\ b[2] > 0
    BY <1>0, <1>1
  <1>9. (a ## <<0, 1>>) = b
    BY ZenonT(60), <1>0, <1>1, Add
  <1>10. b = [[s EXCEPT ![2] = @ + 1] EXCEPT ![0] = @ + 1]
    BY DEF a
  <1> HIDE DEF b
  <1>11. (b ## <<2, -1>>) = [b EXCEPT ![2] = @ - 1]
    BY <1>0, <1>8, Down
  <1>12. [b EXCEPT ![2] = @ - 1] = [s EXCEPT ![0] = @ + 1]
    BY <1>0, <1>1, <1>10
  <1> QED BY <1>1, <1>3, <1>5, <1>7, <1>9, <1>11, <1>12

(* start_write: nobody works, and one writer is counted; WRITE_COUNT is     *)
(* back where it was.                                                       *)
LEMMA StartWriteEffect ==
  ASSUME NEW s \in [Numbers -> Nat], start_write(s) # Blocked
  PROVE  /\ s[0] = 0 /\ s[1] = 0
         /\ start_write(s) = [s EXCEPT ![1] = @ + 1]
  <1> DEFINE a == [s EXCEPT ![3] = @ + 1]
             b == [a EXCEPT ![1] = @ + 1]
  <1>0. 0 \in Numbers /\ 1 \in Numbers /\ 2 \in Numbers /\ 3 \in Numbers
    BY DEF Numbers
  <1>1. /\ a \in [Numbers -> Nat] /\ a[0] = s[0] /\ a[1] = s[1] /\ a[3] = s[3] + 1
        /\ s[1] \in Nat /\ s[3] \in Nat
    BY <1>0
  <1>2. (s ## <<3, 1>>) = a
    BY <1>0, Add
  <1>3. start_write(s) = (a ## <<0, 0>> ## <<1, 0>> ## <<1, 1>> ## <<3, -1>>)
    BY <1>2 DEF start_write, COUNT_ACTIVE_READERS, ACTIVE_WRITER, READ_COUNT, WRITE_COUNT
  <1> HIDE DEF a
  <1>4. (a ## <<0, 0>>) # Blocked
    BY <1>3, BlockedStays
  <1>5. a[0] = 0 /\ (a ## <<0, 0>>) = a
    BY <1>0, <1>1, <1>4, ZeroPasses
  <1>6. (a ## <<1, 0>>) # Blocked
    BY <1>3, <1>5, BlockedStays
  <1>7. a[1] = 0 /\ (a ## <<1, 0>>) = a
    BY <1>0, <1>1, <1>6, ZeroPasses
  <1>8. b \in [Numbers -> Nat] /\ b[3] = s[3] + 1 /\ b[3] > 0
    BY <1>0, <1>1
  <1>9. (a ## <<1, 1>>) = b
    BY ZenonT(60), <1>0, <1>1, Add
  <1>10. b = [[s EXCEPT ![3] = @ + 1] EXCEPT ![1] = @ + 1]
    BY DEF a
  <1> HIDE DEF b
  <1>11. (b ## <<3, -1>>) = [b EXCEPT ![3] = @ - 1]
    BY <1>0, <1>8, Down
  <1>12. [b EXCEPT ![3] = @ - 1] = [s EXCEPT ![1] = @ + 1]
    BY <1>0, <1>1, <1>10
  <1> QED BY <1>1, <1>3, <1>5, <1>7, <1>9, <1>11, <1>12

(* stop_read and stop_write take one unit of their own counter.             *)
LEMMA StopEffect ==
  ASSUME NEW s \in [Numbers -> Nat], NEW n \in {0, 1}, (s ## <<n, -1>>) # Blocked
  PROVE  s[n] > 0 /\ (s ## <<n, -1>>) = [s EXCEPT ![n] = @ - 1]
  BY Down, n \in Numbers DEF Numbers

-----------------------------------------------------------------------------
(* Who works, as finite sets.                                               *)

(* The sets the semaphores count are finite.                                *)
LEMMA ActiveFinite ==
  /\ IsFiniteSet(ActiveReaders) /\ IsFiniteSet(ActiveWriters)
  /\ Cardinality(ActiveReaders) \in Nat /\ Cardinality(ActiveWriters) \in Nat
  <1> USE ReaderWriterAssumption
  <1>1. IsFiniteSet(Writers) /\ IsFiniteSet(Readers)
    BY FS_Interval DEF Writers, Readers
  <1>2. IsFiniteSet(Children)
    BY <1>1, FS_Union DEF Children
  <1>3. IsFiniteSet(ActiveReaders) /\ IsFiniteSet(ActiveWriters)
    BY <1>2, FS_Subset DEF ActiveReaders, ActiveWriters
  <1> QED BY <1>3, FS_CardinalityType

(* A step that moves nobody into or out of the two critical sections keeps  *)
(* Exclusion.                                                               *)
LEMMA ExclusionFrame ==
  ASSUME Exclusion, sem' = sem,
         \A d \in Children : (pc'[d] \in Reading <=> pc[d] \in Reading),
         \A d \in Children : (pc'[d] \in Writing <=> pc[d] \in Writing)
  PROVE  Exclusion'
  <1>1. ActiveReaders' = ActiveReaders /\ ActiveWriters' = ActiveWriters
    BY DEF ActiveReaders, ActiveWriters
  <1> QED BY <1>1 DEF Exclusion, CountersMatch

(* A child that runs has been forked, and has one role.                     *)
LEMMA Children1 ==
  ASSUME TypeOK, Born, NEW c \in Children
  PROVE  /\ pc[c] # "unborn" => c < next
         /\ c \in Nat \ {0} /\ c # Main /\ c \in Procs
         /\ (c \in Writers <=> c \notin Readers)
  BY ReaderWriterAssumption DEF TypeOK, Born, Children, Writers, Readers, Main, Procs

(* The steps of a child outside semop.                                      *)
LEMMA QuietStep ==
  ASSUME RWInv, NEW c \in Children,
         Test(c) \/ Sleep(c) \/ Read(c) \/ Inc(c) \/ Wrap(c) \/ Kill(c) \/ Deliver(c)
  PROVE  RWInv'
  <1> USE ReaderWriterAssumption DEF Goto
  <1>0. /\ TypeOK /\ Born /\ Roles /\ Exclusion /\ Transient /\ TwoRounds
        /\ pc \in [Children -> States] /\ count \in [Writers -> 0 .. 2] /\ addr \in 0 .. L + 1
        /\ flag \in [Procs -> BOOLEAN]
    BY DEF RWInv, TypeOK, States
  <1>1. pc[c] # "unborn"
    BY DEF Test, Sleep, Read, Inc, Wrap, Kill, Deliver, Live
  <1>2. c < next /\ c # Main /\ c \in Procs
    BY <1>0, <1>1, Children1
  <1>3. sem' = sem /\ ipc' = ipc /\ parent' = parent /\ next' = next /\ reaped' = reaped
    BY DEF Test, Sleep, Read, Inc, Wrap, Kill, Deliver, parentVars
  <1>4. /\ pc' \in [Children -> States]
        /\ \A d \in Children : d # c => pc'[d] = pc[d]
        /\ (pc'[c] \in Reading) <=> (pc[c] \in Reading)
        /\ (pc'[c] \in Writing) <=> (pc[c] \in Writing)
    BY <1>0 DEF Test, Sleep, Read, Inc, Wrap, Kill, Deliver, States, Reading, Writing, Final
  <1>5. /\ flag' \in [Procs -> BOOLEAN] /\ pending' \in SUBSET Procs
        /\ \A d \in Procs : flag'[d] => flag[d]
    BY <1>0, <1>2 DEF Test, Sleep, Read, Inc, Wrap, Kill, Deliver, sigVars, TypeOK, Procs
  <1>6. (pc[c] \in Writing => c \in Writers) /\ (pc[c] = "wrap" => count[c] # 2)
    BY <1>0 DEF Roles, TwoRounds, Writing
  <1>7. pc[c] \in Writing => \A d \in Children : pc[d] \in Writing => d = c
    BY <1>0 DEF Exclusion, ActiveWriters
  <1>8. count' \in [Writers -> 0 .. 2]
    <2>1. CASE Wrap(c)
      BY <2>1, <1>0, <1>6 DEF Wrap, Writing
    <2> QED BY <1>0, <2>1 DEF Test, Sleep, Read, Inc, Kill, Deliver
  <1>9. addr' \in 0 .. L + 1 /\ Transient'
    <2>1. CASE Inc(c)
      <3>1. addr # L + 1
        BY <2>1, <1>0, <1>7 DEF Transient, Inc, Writing
      <3>2. pc'[c] = "wrap"
        BY <2>1, <1>0 DEF Inc
      <3> QED BY <2>1, <3>1, <3>2, <1>0 DEF Inc, Transient
    <2>2. CASE Wrap(c)
      <3>1. addr' # L + 1 /\ addr' \in 0 .. L + 1
        BY <2>2, <1>0 DEF Wrap
      <3> QED BY <3>1 DEF Transient
    <2>3. CASE ~ Inc(c) /\ ~ Wrap(c)
      <3>1. addr' = addr
        BY <2>3 DEF Test, Sleep, Read, Kill, Deliver
      <3>2. pc'[c] = "wrap" <=> pc[c] = "wrap"
        BY <2>3, <1>0 DEF Test, Sleep, Read, Kill, Deliver
      <3> QED BY <3>1, <3>2, <1>0, <1>4 DEF Transient
    <2> QED BY <2>1, <2>2, <2>3
  <1>10. TwoRounds'
    <2> SUFFICES ASSUME NEW w \in Writers, count'[w] = 2
        PROVE pc'[w] = "kill" \/ (pc'[w] \in {"stop", "loop", "exit0"} /\ ~ flag'[w])
      BY DEF TwoRounds
    <2>0. w \in Children /\ w \in Procs
      BY DEF Children, Procs
    <2>1. CASE w # c
      <3>1. count'[w] = count[w]
        BY <2>1, <1>0 DEF Test, Sleep, Read, Inc, Wrap, Kill, Deliver
      <3> QED BY <2>0, <2>1, <3>1, <1>0, <1>4, <1>5 DEF TwoRounds
    <2>2. CASE w = c /\ ~ Wrap(c)
      <3>1. count[w] = 2
        BY <2>2 DEF Test, Sleep, Read, Inc, Kill, Deliver
      <3>2. pc[w] = "kill" \/ (pc[w] \in {"stop", "loop", "exit0"} /\ ~ flag[w])
        BY <3>1, <1>0 DEF TwoRounds
      <3>3. Test(c) \/ Kill(c) \/ Deliver(c)
        BY <3>2, <2>2 DEF Sleep, Read, Inc
      <3>4. CASE Test(c)
        BY <3>2, <3>4, <2>2, <1>0, <1>5, <2>0 DEF Test
      <3>5. CASE Kill(c)
        BY <3>1, <3>5, <2>2, <1>0, <1>2 DEF Kill
      <3>6. CASE Deliver(c)
        BY <3>2, <3>6, <2>2, <1>0, <1>2 DEF Deliver
      <3> QED BY <3>3, <3>4, <3>5, <3>6
    <2>3. CASE w = c /\ Wrap(c)
      BY <2>3, <1>0 DEF Wrap
    <2> QED BY <2>1, <2>2, <2>3
  <1>11. TypeOK'
    BY <1>0, <1>3, <1>4, <1>5, <1>8, <1>9 DEF TypeOK, States
  <1>12. Born'
    BY <1>0, <1>2, <1>3, <1>4, Children1 DEF Born, TypeOK, Children, Writers, Readers
  <1>13. Roles'
    BY <1>0, <1>4 DEF Roles
  <1>14. Exclusion'
    BY <1>0, <1>3, <1>4, ExclusionFrame
  <1> QED BY <1>9, <1>10, <1>11, <1>12, <1>13, <1>14 DEF RWInv

(* start_...: the semaphores let in a writer only when nobody works and a   *)
(* reader only when no writer does.                                         *)
LEMMA EnterStep == ASSUME RWInv, NEW c \in Children, Enter(c) PROVE RWInv'
  <1> USE ReaderWriterAssumption DEF Goto
  <1>0. /\ TypeOK /\ Born /\ Roles /\ Exclusion /\ Transient /\ TwoRounds
        /\ pc \in [Children -> States] /\ pc[c] \in {"start", "sleep"}
        /\ sem \in [Numbers -> Nat] /\ sem' = Start(c, sem) /\ Start(c, sem) # Blocked
    BY DEF RWInv, TypeOK, States, Enter, Numbers
  <1>1. c < next /\ c \in Nat
    BY <1>0, Children1
  <1>2. UNCHANGED <<ipc, parent, next, reaped, flag, pending, count, addr>>
    BY DEF Enter, parentVars, sigVars
  <1>3. /\ pc' \in [Children -> States]
        /\ \A d \in Children : d # c => pc'[d] = pc[d]
        /\ pc'[c] = IF c \in Writers THEN "inc" ELSE "read"
    BY <1>0 DEF Enter, States, Reading, Writing
  <1>4. Born' /\ Transient' /\ TwoRounds'
    <2>1. c \in Writers => count[c] # 2
      BY <1>0 DEF TwoRounds
    <2>2. \A w \in Writers : w \in Children
      BY DEF Children
    <2> QED BY <1>0, <1>1, <1>2, <1>3, <2>1, <2>2 DEF Born, Transient, TwoRounds
  <1>5. Roles'
    BY <1>0, <1>3 DEF Roles, Reading, Writing, Children
  <1>6. /\ sem[0] = Cardinality(ActiveReaders) /\ sem[1] = Cardinality(ActiveWriters)
        /\ sem[2] = 0 /\ sem[3] = 0
    BY <1>0 DEF Exclusion, CountersMatch, COUNT_ACTIVE_READERS, ACTIVE_WRITER, READ_COUNT, WRITE_COUNT
  <1>7. c \notin ActiveReaders /\ c \notin ActiveWriters
    BY <1>0 DEF ActiveReaders, ActiveWriters, Reading, Writing
  <1>8. sem' \in [Numbers -> Nat] /\ Exclusion'
    <2>1. CASE c \in Writers
      <3>1. sem[0] = 0 /\ sem[1] = 0 /\ sem' = [sem EXCEPT ![1] = @ + 1]
        BY <1>0, <2>1, StartWriteEffect DEF Start
      <3>2. sem' \in [Numbers -> Nat] /\ sem'[0] = 0 /\ sem'[1] = 1 /\ sem'[2] = 0 /\ sem'[3] = 0
        BY <1>0, <1>6, <3>1 DEF Numbers
      <3>3. ActiveReaders = {} /\ ActiveWriters = {}
        BY <1>6, <3>1, ActiveFinite, FS_EmptySet
      <3>4. ActiveReaders' = {} /\ ActiveWriters' = {c}
        BY <1>3, <2>1, <3>3 DEF ActiveReaders, ActiveWriters, Reading, Writing
      <3>5. Cardinality(ActiveReaders') = 0 /\ Cardinality(ActiveWriters') = 1
        BY <3>4, FS_EmptySet, FS_Singleton
      <3> QED BY <3>2, <3>4, <3>5
              DEF Exclusion, CountersMatch, COUNT_ACTIVE_READERS, ACTIVE_WRITER, READ_COUNT, WRITE_COUNT
    <2>2. CASE c \notin Writers
      <3>1. sem[1] = 0 /\ sem' = [sem EXCEPT ![0] = @ + 1]
        BY <1>0, <2>2, StartReadEffect DEF Start
      <3>2. /\ sem' \in [Numbers -> Nat] /\ sem'[0] = Cardinality(ActiveReaders) + 1
            /\ sem'[1] = 0 /\ sem'[2] = 0 /\ sem'[3] = 0
        BY <1>0, <1>6, <3>1, ActiveFinite DEF Numbers
      <3>3. ActiveWriters = {}
        BY <1>6, <3>1, ActiveFinite, FS_EmptySet
      <3>4. ActiveReaders' = ActiveReaders \cup {c} /\ ActiveWriters' = {}
        BY <1>3, <2>2, <3>3 DEF ActiveReaders, ActiveWriters, Reading, Writing
      <3>5. Cardinality(ActiveReaders') = Cardinality(ActiveReaders) + 1
        BY <1>7, <3>4, ActiveFinite, FS_AddElement
      <3>6. Cardinality(ActiveWriters') = 0
        BY <3>4, FS_EmptySet
      <3> QED BY <3>2, <3>4, <3>5, <3>6
              DEF Exclusion, CountersMatch, COUNT_ACTIVE_READERS, ACTIVE_WRITER, READ_COUNT, WRITE_COUNT
    <2> QED BY <2>1, <2>2
  <1>9. TypeOK'
    BY <1>0, <1>2, <1>3, <1>8 DEF TypeOK, States, Numbers
  <1> QED BY <1>4, <1>5, <1>8, <1>9 DEF RWInv

(* stop_...: one fewer works, and its own counter says so.                  *)
LEMMA LeaveStep == ASSUME RWInv, NEW c \in Children, Leave(c) PROVE RWInv'
  <1> USE ReaderWriterAssumption DEF Goto
  <1>0. /\ TypeOK /\ Born /\ Roles /\ Exclusion /\ Transient /\ TwoRounds
        /\ pc \in [Children -> States] /\ pc[c] \in {"leave", "stop"}
        /\ sem \in [Numbers -> Nat] /\ sem' = Stop(c, sem) /\ Stop(c, sem) # Blocked
    BY DEF RWInv, TypeOK, States, Leave, Numbers
  <1>1. c < next /\ c \in Nat /\ (c \in Writers <=> c \notin Readers)
    BY <1>0, Children1
  <1>2. UNCHANGED <<ipc, parent, next, reaped, flag, pending, count, addr>>
    BY DEF Leave, parentVars, sigVars
  <1>3. /\ pc' \in [Children -> States]
        /\ \A d \in Children : d # c => pc'[d] = pc[d]
        /\ pc'[c] = "loop"
    BY <1>0 DEF Leave, States
  <1>4. Born' /\ Transient' /\ TwoRounds' /\ Roles'
    <2>1. \A w \in Writers : w \in Children
      BY DEF Children
    <2>2. Born' /\ Roles'
      BY <1>0, <1>1, <1>2, <1>3 DEF Born, Roles, Reading, Writing
    <2>3. Transient'
      BY <1>0, <1>2, <1>3 DEF Transient
    <2>4. TwoRounds'
      BY <1>0, <1>2, <1>3, <2>1 DEF TwoRounds
    <2> QED BY <2>2, <2>3, <2>4
  <1>6. /\ sem[0] = Cardinality(ActiveReaders) /\ sem[1] = Cardinality(ActiveWriters)
        /\ sem[2] = 0 /\ sem[3] = 0
    BY <1>0 DEF Exclusion, CountersMatch, COUNT_ACTIVE_READERS, ACTIVE_WRITER, READ_COUNT, WRITE_COUNT
  <1>8. sem' \in [Numbers -> Nat] /\ Exclusion'
    <2>1. CASE c \in Writers
      <3>1. c \in ActiveWriters /\ ActiveReaders = {} /\ ActiveWriters = {c}
        BY <1>0, <1>1, <2>1 DEF Roles, Exclusion, ActiveWriters, ActiveReaders, Reading, Writing
      <3>2. sem[1] > 0 /\ sem' = [sem EXCEPT ![1] = @ - 1]
        BY <1>0, <2>1, StopEffect DEF Stop, stop_write, ACTIVE_WRITER
      <3>3. sem[0] = 0 /\ sem[1] = 1
        BY <1>6, <3>1, FS_EmptySet, FS_Singleton
      <3>4. sem' \in [Numbers -> Nat] /\ sem'[0] = 0 /\ sem'[1] = 0 /\ sem'[2] = 0 /\ sem'[3] = 0
        BY <1>0, <1>6, <3>2, <3>3 DEF Numbers
      <3>5. ActiveReaders' = {} /\ ActiveWriters' = {}
        BY <1>3, <3>1 DEF ActiveReaders, ActiveWriters, Reading, Writing
      <3> QED BY <3>4, <3>5, FS_EmptySet
              DEF Exclusion, CountersMatch, COUNT_ACTIVE_READERS, ACTIVE_WRITER, READ_COUNT, WRITE_COUNT
    <2>2. CASE c \notin Writers
      <3>1. c \in ActiveReaders /\ ActiveWriters = {}
        BY <1>0, <1>1, <2>2 DEF Roles, Exclusion, ActiveWriters, ActiveReaders, Reading, Writing
      <3>2. sem[0] > 0 /\ sem' = [sem EXCEPT ![0] = @ - 1]
        BY <1>0, <2>2, StopEffect DEF Stop, stop_read, COUNT_ACTIVE_READERS
      <3>3. sem[1] = 0
        BY <1>6, <3>1, FS_EmptySet
      <3>4. /\ sem' \in [Numbers -> Nat] /\ sem'[0] = Cardinality(ActiveReaders) - 1
            /\ sem'[1] = 0 /\ sem'[2] = 0 /\ sem'[3] = 0
        BY <1>0, <1>6, <3>2, <3>3, ActiveFinite DEF Numbers
      <3>5. ActiveReaders' = ActiveReaders \ {c} /\ ActiveWriters' = {}
        BY <1>3, <3>1 DEF ActiveReaders, ActiveWriters, Reading, Writing
      <3>6. Cardinality(ActiveReaders') = Cardinality(ActiveReaders) - 1
        BY <3>1, <3>5, ActiveFinite, FS_RemoveElement
      <3>7. Cardinality(ActiveWriters') = 0
        BY <3>5, FS_EmptySet
      <3> QED BY <3>4, <3>5, <3>6, <3>7
              DEF Exclusion, CountersMatch, COUNT_ACTIVE_READERS, ACTIVE_WRITER, READ_COUNT, WRITE_COUNT
    <2> QED BY <2>1, <2>2
  <1>9. TypeOK'
    BY <1>0, <1>2, <1>3, <1>8 DEF TypeOK, States, Numbers
  <1> QED BY <1>4, <1>8, <1>9 DEF RWInv

(* fork(): the new child is outside, whatever flag it inherits.             *)
LEMMA ForkStep == ASSUME RWInv, Fork PROVE RWInv'
  <1> USE ReaderWriterAssumption
  <1>0. /\ TypeOK /\ Born /\ Roles /\ Exclusion /\ Transient /\ TwoRounds
        /\ pc \in [Children -> States] /\ flag \in [Procs -> BOOLEAN] /\ count \in [Writers -> 0 .. 2]
    BY DEF RWInv, TypeOK, States
  <1>1. /\ next \in Children /\ next \in Procs /\ Main \in Procs /\ pc[next] = "unborn"
        /\ \A c \in Children : c \in Nat
    BY <1>0 DEF Fork, TypeOK, Born, Children, Writers, Readers, Procs, NChildren
  <1>2. UNCHANGED <<sem, ipc, parent, reaped, pending, count, addr>> /\ next' = next + 1
    BY DEF Fork
  <1>3. /\ pc' \in [Children -> States] /\ flag' \in [Procs -> BOOLEAN]
        /\ \A d \in Children : d # next => pc'[d] = pc[d]
        /\ \A d \in Procs : d # next => flag'[d] = flag[d]
        /\ pc'[next] = "loop"
    BY <1>0, <1>1 DEF Fork, States
  <1>4. next' \in 1 .. NChildren + 1
    BY <1>0 DEF Fork, TypeOK, NChildren
  <1>5. TypeOK'
    BY <1>0, <1>2, <1>3, <1>4 DEF TypeOK, States
  <1>6. Born'
    BY <1>0, <1>1, <1>2, <1>3 DEF Born, TypeOK
  <1>7. Roles'
    BY <1>0, <1>3 DEF Roles, Reading, Writing
  <1>8. Exclusion'
    BY <1>0, <1>1, <1>2, <1>3, ExclusionFrame DEF Reading, Writing
  <1>9. Transient'
    BY <1>0, <1>1, <1>2, <1>3 DEF Transient
  <1>10. TwoRounds'
    <2>1. \A w \in Writers : w \in Children /\ w \in Procs
      BY DEF Children, Procs
    <2>2. \A w \in Writers : count[w] = 2 => w # next
      BY <1>0, <1>1 DEF TwoRounds
    <2> QED BY <1>0, <1>2, <1>3, <2>1, <2>2 DEF TwoRounds
  <1> QED BY <1>5, <1>6, <1>7, <1>8, <1>9, <1>10 DEF RWInv

(* The parent's other steps and the delivery of its signal touch nothing    *)
(* the children share but the flag the parent itself reads.                 *)
LEMMA ParentStep ==
  ASSUME RWInv, Setup \/ ForkFails \/ Forked \/ Wait \/ CleanUp \/ DeliverMain
  PROVE  RWInv'
  <1> USE ReaderWriterAssumption
  <1>0. TypeOK /\ Born /\ Roles /\ Exclusion /\ Transient /\ TwoRounds
    BY DEF RWInv
  <1>1. UNCHANGED <<sem, next, pc, count, addr>>
    BY DEF Setup, Call, ForkFails, Forked, Wait, CleanUp, DeliverMain, parentVars
  <1>2. flag' \in [Procs -> BOOLEAN] /\ pending' \in SUBSET Procs /\ \A c \in Children : flag'[c] = flag[c]
    <2>1. \A c \in Children : c # Main /\ c \in Procs
      BY <1>0, Children1
    <2> QED BY <1>0, <2>1 DEF Setup, Call, ForkFails, Forked, Wait, CleanUp, DeliverMain, sigVars, TypeOK
  <1>3. ipc' \in SUBSET {"sem", "shm"}
    BY <1>0 DEF Setup, Call, ForkFails, Forked, Wait, CleanUp, DeliverMain, parentVars, TypeOK
  <1>4. parent' \in {"semget", "semctl", "shmget", "shmat", "fork", "wait", "clean", "exited"}
    BY <1>0 DEF Setup, Call, ForkFails, Forked, Wait, CleanUp, DeliverMain, parentVars, TypeOK
  <1>5. reaped' \in SUBSET Children
    BY <1>0 DEF Setup, Call, ForkFails, Forked, Wait, CleanUp, DeliverMain, parentVars, TypeOK
  <1>6. TypeOK'
    BY <1>0, <1>1, <1>2, <1>3, <1>4, <1>5 DEF TypeOK
  <1>7. Born' /\ Roles' /\ Transient'
    BY <1>0, <1>1 DEF Born, Roles, Transient
  <1>8. TwoRounds'
    <2>1. \A w \in Writers : w \in Children
      BY DEF Children
    <2> QED BY <1>0, <1>1, <1>2, <2>1 DEF TwoRounds
  <1>9. Exclusion'
    BY <1>0, <1>1, ExclusionFrame
  <1> QED BY <1>6, <1>7, <1>8, <1>9 DEF RWInv

(* Nobody works in the initial state and all counters are zero.             *)
LEMMA RWInitially == Init => RWInv
  <1> SUFFICES ASSUME Init PROVE RWInv
    OBVIOUS
  <1> USE ReaderWriterAssumption
  <1>1. /\ sem \in [0 .. 3 -> Nat] /\ sem[0] = 0 /\ sem[1] = 0 /\ sem[2] = 0 /\ sem[3] = 0
    BY DEF Init
  <1>2. TypeOK
    BY <1>1 DEF Init, TypeOK, NChildren
  <1>3. ActiveReaders = {} /\ ActiveWriters = {}
    BY DEF Init, ActiveReaders, ActiveWriters, Reading, Writing
  <1>4. Exclusion
    BY <1>1, <1>3, FS_EmptySet
       DEF Exclusion, CountersMatch, COUNT_ACTIVE_READERS, ACTIVE_WRITER, READ_COUNT, WRITE_COUNT
  <1>5. Born /\ Roles /\ Transient /\ TwoRounds
    BY DEF Init, Born, Roles, Transient, TwoRounds, Reading, Writing
  <1> QED BY <1>2, <1>4, <1>5 DEF RWInv

(* RWInv is inductive.                                                      *)
LEMMA RWInductive == ASSUME RWInv, [Next]_vars PROVE RWInv'
  <1>1. CASE UNCHANGED vars
    BY <1>1 DEF RWInv, TypeOK, Born, Roles, Exclusion, CountersMatch, Transient, TwoRounds,
                ActiveReaders, ActiveWriters, vars
  <1>2. CASE Parent
    BY <1>2, ForkStep, ParentStep DEF Parent
  <1>3. CASE DeliverMain
    BY <1>3, ParentStep
  <1>4. ASSUME NEW c \in Children, Child(c) \/ Deliver(c) PROVE RWInv'
    BY <1>4, QuietStep, EnterStep, LeaveStep DEF Child
  <1> QED BY <1>1, <1>2, <1>3, <1>4 DEF Next, Terminating

-----------------------------------------------------------------------------
(* For every number of writers, readers and letters: a writer works alone,  *)
(* readers never beside a writer, and the four semaphores count exactly     *)
(* those who work.                                                          *)
THEOREM WritersWorkAlone == Spec => [](Exclusion /\ TypeOK)
  <1>1. RWInv => Exclusion /\ TypeOK
    BY DEF RWInv
  <1> QED BY <1>1, RWInitially, RWInductive, PTL DEF Spec

(* As long as a reader is between its two semops the letter stays, and it   *)
(* is a letter.                                                             *)
THEOREM ReadersAreUndisturbed == Spec => ReadersSeeStableLetter
  <1>1. ASSUME RWInv, [Next]_vars
        PROVE  [ActiveReaders # {} => addr' = addr /\ addr # L + 1]_vars
    <2> SUFFICES ASSUME ActiveReaders # {}, Next PROVE addr' = addr /\ addr # L + 1
      BY <1>1
    <2>1. \A c \in Children : pc[c] \notin Writing
      BY <1>1 DEF RWInv, Exclusion, ActiveWriters
    <2>2. addr # L + 1
      BY <1>1, <2>1 DEF RWInv, Transient, Writing
    <2>3. addr' = addr
      BY <2>1 DEF Next, Parent, Setup, Call, Fork, ForkFails, Forked, Wait, CleanUp, DeliverMain,
                  Child, Test, Enter, Sleep, Read, Inc, Wrap, Kill, Leave, Deliver, Terminating, vars,
                  Writing
    <2> QED BY <2>2, <2>3
  <1> QED BY <1>1, RWInitially, RWInductive, PTL DEF Spec, ReadersSeeStableLetter

-----------------------------------------------------------------------------
(* The Windows program.                                                     *)

WActions == <<can_read, can_write, active_readers, tmp, cnt>>

(* The threads of the Windows program are numbered like the children.       *)
LEMMA WSets ==
  /\ W!Readers = Readers /\ W!Writers = Writers /\ W!Threads = Children
  /\ \A t \in Children : t \in Nat /\ (t \in Readers <=> t \notin Writers)
  BY ReaderWriterAssumption
     DEF W!Readers, W!Writers, W!Threads, Readers, Writers, Children

(* Holding, by role.                                                        *)
LEMMA WHolding ==
  ASSUME NEW t \in Children
  PROVE  /\ t \in W!Holders <=> \/ t \in Readers /\ wPc[t] \in W!ReadHold
                                \/ t \in Writers /\ wPc[t] \in W!WriteHold
         /\ t \in W!Holders' <=> \/ t \in Readers /\ wPc'[t] \in W!ReadHold
                                 \/ t \in Writers /\ wPc'[t] \in W!WriteHold
  BY WSets DEF W!Holders, W!Readers, W!Writers, Readers, Writers

(* A thread that is outside and stays outside, main() and the console       *)
(* change nothing that WInv is about.                                       *)
LEMMA WFrame ==
  ASSUME WInv, UNCHANGED WActions, wNext' \in Nat \ {0}, wNext' >= wNext,
         NEW t \in Children, wPc' \in [Children -> WStates],
         wPc[t] \in Outside, wPc'[t] \in Outside, t < wNext',
         \A d \in Children : d # t => wPc'[d] = wPc[d]
  PROVE  WInv'
  <1>0. WTypes /\ WRoles /\ WCount /\ WLast /\ W!OneToken
    BY DEF WInv
  <1>1. \A d \in Children : d \in W!Holders' <=> d \in W!Holders
    BY DEF W!Holders, W!Readers, W!Writers, W!ReadHold, W!WriteHold, Outside
  <1>2. W!Holders' = W!Holders
    BY DEF W!Holders, W!Readers, W!Writers, W!ReadHold, W!WriteHold, Outside,
           Children, Readers, Writers
  <1>3. WTypes'
    BY <1>0 DEF WTypes, WActions
  <1>4. WRoles'
    BY <1>0, WSets DEF WRoles, WTypes, Children
  <1>5. WCount'
    BY <1>0 DEF WCount, WActions, Counted, Outside, Children
  <1>6. WLast'
    <2>1. \A d \in W!Holders : wPc'[d] = wPc[d]
      BY DEF W!Holders, W!Readers, W!Writers, Readers, Writers, Children, Outside, W!ReadHold, W!WriteHold
    <2> QED BY <1>0, <1>2, <2>1 DEF WLast, WActions
  <1>7. W!OneToken'
    BY <1>0, <1>2 DEF W!OneToken, WActions
  <1> QED BY <1>3, <1>4, <1>5, <1>6, <1>7 DEF WInv

(* The holder of the token is alone, no event is set, and active_readers    *)
(* counts the holder or nobody.                                             *)
LEMMA WAlone ==
  ASSUME WInv, NEW t \in Children, t \in W!Holders
  PROVE  /\ ~ can_read /\ ~ can_write
         /\ \A d \in Children : d # t => wPc[d] \in Outside
         /\ active_readers = IF t \in Readers /\ wPc[t] \in Counted THEN 1 ELSE 0
         /\ cnt = WinRounds => t \in Writers /\ wPc[t] \in {"write", "end"}
  <1>0. WRoles /\ WCount /\ WLast /\ W!OneToken
    BY DEF WInv
  <1>1. ~ can_read /\ ~ can_write /\ \A d \in W!Holders : d = t
    BY <1>0 DEF W!OneToken
  <1>2. \A d \in Children : d # t => wPc[d] \in Outside
    <2> TAKE d \in Children
    <2> HAVE d # t
    <2>1. d \notin W!Holders
      BY <1>1
    <2> QED BY <1>0, <2>1, WHolding DEF WRoles, Children
  <1>3. active_readers = IF t \in Readers /\ wPc[t] \in Counted THEN 1 ELSE 0
    <2>1. (\E r \in Readers : wPc[r] \in Counted) <=> (t \in Readers /\ wPc[t] \in Counted)
      BY <1>2 DEF Outside, Counted, Children
    <2> QED BY <1>0, <2>1 DEF WCount
  <1> QED BY <1>0, <1>1, <1>2, <1>3 DEF WLast

(* While an event is set nobody holds the token.                            *)
LEMMA WFree ==
  ASSUME WInv, can_read \/ can_write
  PROVE  /\ ~ (can_read /\ can_write) /\ cnt # WinRounds
         /\ \A d \in Children : wPc[d] \in Outside
         /\ active_readers = 0
  <1>0. WRoles /\ WCount /\ WLast /\ W!OneToken
    BY DEF WInv
  <1>1. W!Holders = {} /\ ~ (can_read /\ can_write) /\ cnt # WinRounds
    BY <1>0 DEF W!OneToken, WLast
  <1>2. \A d \in Children : wPc[d] \in Outside
    <2> TAKE d \in Children
    <2> QED BY <1>0, <1>1, WHolding DEF WRoles, Children
  <1>3. active_readers = 0
    <2>1. ~ \E r \in Readers : wPc[r] \in Counted
      BY <1>2 DEF Outside, Counted, Children
    <2> QED BY <1>0, <2>1 DEF WCount
  <1> QED BY <1>1, <1>2, <1>3

(* The token with one thread, in one event, or lost after the last round:   *)
(* with everybody else outside that is WInv'.                               *)
LEMMA WOne ==
  ASSUME WTypes', WRoles', NEW t \in Children,
         \A d \in Children : d # t => wPc'[d] \in Outside,
         active_readers' = (IF t \in Readers /\ wPc'[t] \in Counted THEN 1 ELSE 0),
         t \in Readers => /\ wPc'[t] = "enter" => tmp'[t] = 0
                          /\ wPc'[t] = "store" => tmp'[t] = 1,
         ~ (can_read' /\ can_write'),
         can_read' \/ can_write' => wPc'[t] \in Outside /\ cnt' # WinRounds,
         ~ can_read' /\ ~ can_write' => wPc'[t] \notin Outside \/ cnt' = WinRounds,
         cnt' = WinRounds => wPc'[t] \in Outside \/ (t \in Writers /\ wPc'[t] \in {"write", "end"})
  PROVE  WInv'
  <1>1. \A d \in Children : d \in W!Holders' <=> d = t /\ wPc'[t] \notin Outside
    <2> TAKE d \in Children
    <2>1. \/ d \in Readers /\ wPc'[d] \in Outside \cup W!ReadHold
          \/ d \in Writers /\ wPc'[d] \in Outside \cup W!WriteHold
      BY DEF WRoles, Children
    <2>2. \A l \in Outside : l \notin W!ReadHold /\ l \notin W!WriteHold
      BY DEF Outside, W!ReadHold, W!WriteHold
    <2> QED BY <2>1, <2>2, WHolding, WSets
  <1>2. W!Holders' \subseteq Children
    BY WSets DEF W!Holders, W!Threads
  <1>3. W!OneToken'
    BY <1>1, <1>2 DEF W!OneToken
  <1>4. WLast'
    BY <1>1, <1>2 DEF WLast
  <1>5. WCount'
    <2>1. (\E r \in Readers : wPc'[r] \in Counted) <=> (t \in Readers /\ wPc'[t] \in Counted)
      BY DEF Outside, Counted, Children
    <2>2. \A r \in Readers : r # t => wPc'[r] # "enter" /\ wPc'[r] # "store"
      BY DEF Outside, Children
    <2> QED BY <2>1, <2>2 DEF WCount
  <1> QED BY <1>3, <1>4, <1>5 DEF WInv

(* Only thread t moves, to l; the facts every step of a thread needs.       *)
LEMMA WMoves ==
  ASSUME WInv, NEW t \in Children, NEW l \in WStates, wPc' = [wPc EXCEPT ![t] = l], wPc[t] # "none",
         wNext' = wNext,
         t \in Readers => l \in Outside \cup W!ReadHold,
         t \in Writers => l \in Outside \cup W!WriteHold
  PROVE  /\ wPc' \in [Children -> WStates] /\ wPc'[t] = l
         /\ \A d \in Children : d # t => wPc'[d] = wPc[d]
         /\ t < wNext /\ t \in Nat /\ wNext \in Nat \ {0}
         /\ WRoles'
  <1>0. WTypes /\ WRoles /\ wPc \in [Children -> WStates]
    BY DEF WInv, WTypes
  <1>1. /\ wPc' \in [Children -> WStates] /\ wPc'[t] = l
        /\ \A d \in Children : d # t => wPc'[d] = wPc[d]
    BY <1>0
  <1>2. t < wNext /\ t \in Nat /\ wNext \in Nat \ {0}
    BY <1>0, WSets DEF WRoles, WTypes
  <1>3. WRoles'
    BY <1>0, <1>1, <1>2 DEF WRoles, Children
  <1> QED BY <1>1, <1>2, <1>3

(* The steps of a thread that stays outside: a try that fails included.     *)
LEMMA WOutsideStep ==
  ASSUME WInv, NEW t \in Children,
         \/ W!Loop(t) \/ W!ReadQueue(t) \/ W!ReadTest(t) \/ W!WriteQueue(t) \/ W!WriteTest(t)
         \/ W!ReadTry(t) /\ ~ can_write
         \/ W!WriteTry(t) /\ ~ can_read
  PROVE  WInv'
  <1>0. WTypes /\ can_read \in BOOLEAN /\ can_write \in BOOLEAN /\ wPc \in [Children -> WStates]
    BY DEF WInv, WTypes
  <1>1. UNCHANGED WActions /\ wNext' = wNext
    BY <1>0 DEF W!Loop, W!ReadQueue, W!ReadTest, W!WriteQueue, W!WriteTest, W!ReadTry, W!WriteTry,
           W!queueVars, W!readerVars, W!dataVars, W!mainVars, WActions
  <1>2. /\ wPc[t] \in {"loop", "queue", "test", "try"}
        /\ \E l \in {"queue", "done", "test", "wait", "try"} : wPc' = [wPc EXCEPT ![t] = l]
    BY DEF W!Loop, W!ReadQueue, W!ReadTest, W!WriteQueue, W!WriteTest, W!ReadTry, W!WriteTry,
           W!At, W!Goto
  <1>3. PICK l \in {"queue", "done", "test", "wait", "try"} : wPc' = [wPc EXCEPT ![t] = l]
    BY <1>2
  <1>4. l \in Outside /\ l \in WStates
    BY DEF Outside, WStates
  <1>5. /\ wPc' \in [Children -> WStates] /\ wPc'[t] = l
        /\ \A d \in Children : d # t => wPc'[d] = wPc[d]
        /\ t < wNext /\ wNext \in Nat \ {0}
    BY <1>1, <1>2, <1>3, <1>4, WMoves
  <1>6. wNext' \in Nat \ {0} /\ wNext' >= wNext /\ t < wNext'
    BY <1>1, <1>5
  <1> QED BY <1>1, <1>2, <1>4, <1>5, <1>6, WFrame DEF Outside

(* A wait or a try that succeeds: the event was set, so nobody else is in.  *)
LEMMA WTakeStep ==
  ASSUME WInv, NEW t \in Children,
         \/ W!ReadWait(t) \/ W!WriteWait(t)
         \/ W!ReadTry(t) /\ can_write
         \/ W!WriteTry(t) /\ can_read
  PROVE  WInv'
  <1> DEFINE l == IF t \in Readers THEN "lock" ELSE "dequeue"
  <1>0. WTypes /\ can_read \in BOOLEAN /\ can_write \in BOOLEAN /\ wPc \in [Children -> WStates]
    BY DEF WInv, WTypes
  <1>1. /\ can_read \/ can_write
        /\ wPc[t] \in {"try", "wait"} /\ wPc' = [wPc EXCEPT ![t] = l]
        /\ UNCHANGED <<active_readers, tmp, cnt, wNext>>
    BY WSets DEF W!ReadTry, W!ReadWait, W!WriteTry, W!WriteWait, W!At, W!Goto,
           W!queueVars, W!readerVars, W!dataVars, W!mainVars
  <1>2. /\ ~ (can_read /\ can_write) /\ cnt # WinRounds
        /\ \A d \in Children : wPc[d] \in Outside
        /\ active_readers = 0
    BY <1>1, WFree
  <1>3. can_read' = FALSE /\ can_write' = FALSE
    BY <1>0, <1>2 DEF W!ReadTry, W!ReadWait, W!WriteTry, W!WriteWait
  <1>4. /\ wPc' \in [Children -> WStates] /\ wPc'[t] = l
        /\ \A d \in Children : d # t => wPc'[d] = wPc[d]
        /\ WRoles'
    <2>1. l \in WStates /\ (t \in Readers => l \in W!ReadHold) /\ (t \in Writers => l \in W!WriteHold)
      BY WSets DEF WStates, W!ReadHold, W!WriteHold
    <2> HIDE DEF l
    <2> QED BY <1>1, <2>1, WMoves
  <1>5. WTypes'
    BY <1>0, <1>1, <1>3, <1>4 DEF WTypes
  <1>6. \A d \in Children : d # t => wPc'[d] \in Outside
    BY <1>2, <1>4
  <1>7. active_readers' = (IF t \in Readers /\ wPc'[t] \in Counted THEN 1 ELSE 0)
    BY <1>1, <1>2, <1>4 DEF Counted
  <1>8. wPc'[t] \notin Outside /\ cnt' # WinRounds
    BY <1>1, <1>2, <1>4 DEF Outside
  <1> QED BY <1>3, <1>4, <1>5, <1>6, <1>7, <1>8, WOne

(* A reader with the token: the increment and the decrement of              *)
(* active_readers are exact because it is the only one who changes it.      *)
LEMMA WReaderStep ==
  ASSUME WInv, NEW t \in Readers,
         \/ W!ReadLock(t) \/ W!ReadEnter(t) \/ W!ReadDequeue(t) \/ W!ReadUnlock(t)
         \/ W!ReadPrint(t) \/ W!ReadLoad(t) \/ W!ReadStore(t)
  PROVE  WInv'
  <1> DEFINE l == CASE wPc[t] = "lock"    -> "enter"
                    [] wPc[t] = "enter"   -> "dequeue"
                    [] wPc[t] = "dequeue" -> "unlock"
                    [] wPc[t] = "unlock"  -> "print"
                    [] wPc[t] = "print"   -> "load"
                    [] wPc[t] = "load"    -> "store"
                    [] wPc[t] = "store"   -> "last"
  <1>0. /\ WTypes /\ wPc \in [Children -> WStates] /\ tmp \in [Children -> Int]
        /\ t \in Children /\ t \notin Writers
    BY WSets DEF WInv, WTypes, Children
  <1>1. /\ wPc[t] \in {"lock", "enter", "dequeue", "unlock", "print", "load", "store"}
        /\ wPc' = [wPc EXCEPT ![t] = l]
        /\ UNCHANGED <<can_read, can_write, cnt, wNext>>
    BY DEF W!ReadLock, W!ReadEnter, W!ReadDequeue, W!ReadUnlock, W!ReadPrint, W!ReadLoad, W!ReadStore,
           W!At, W!Goto, W!queueVars, W!readerVars, W!dataVars, W!mainVars
  <1>2. t \in W!Holders
    BY <1>0, <1>1, WHolding DEF W!ReadHold
  <1>3. /\ ~ can_read /\ ~ can_write
        /\ \A d \in Children : d # t => wPc[d] \in Outside
        /\ active_readers = IF wPc[t] \in Counted THEN 1 ELSE 0
        /\ cnt # WinRounds
    BY <1>0, <1>2, WAlone
  <1>4. /\ wPc' \in [Children -> WStates] /\ wPc'[t] = l
        /\ \A d \in Children : d # t => wPc'[d] = wPc[d]
        /\ WRoles'
    <2>1. l \in WStates /\ l \in W!ReadHold
      BY <1>1 DEF WStates, W!ReadHold
    <2> HIDE DEF l
    <2> QED BY <1>0, <1>1, <2>1, WMoves
  <1>5. /\ wPc[t] = "enter" => tmp[t] = 0
        /\ wPc[t] = "store" => tmp[t] = 1
    BY DEF WInv, WCount
  <1>6. active_readers' = (IF wPc'[t] \in Counted THEN 1 ELSE 0)
    <2>1. CASE W!ReadEnter(t)
      BY <2>1, <1>1, <1>4, <1>5 DEF W!ReadEnter, W!At, Counted
    <2>2. CASE W!ReadStore(t)
      BY <2>2, <1>1, <1>4, <1>5 DEF W!ReadStore, W!At, Counted
    <2>3. CASE ~ W!ReadEnter(t) /\ ~ W!ReadStore(t)
      <3>1. active_readers' = active_readers /\ wPc[t] \notin {"enter", "store"}
        BY <2>3 DEF W!ReadLock, W!ReadDequeue, W!ReadUnlock, W!ReadPrint, W!ReadLoad,
                    W!At, W!readerVars
      <3> QED BY <1>1, <1>3, <1>4, <3>1 DEF Counted
    <2> QED BY <2>1, <2>2, <2>3
  <1>7. /\ tmp' \in [Children -> Int]
        /\ wPc'[t] = "enter" => tmp'[t] = 0
        /\ wPc'[t] = "store" => tmp'[t] = 1
    <2>1. CASE W!ReadLock(t) \/ W!ReadLoad(t)
      <3>1. tmp' = [tmp EXCEPT ![t] = active_readers] /\ wPc[t] \in {"lock", "load"}
        BY <2>1 DEF W!ReadLock, W!ReadLoad, W!At
      <3> QED BY <1>0, <1>3, <1>4, <3>1 DEF Counted
    <2>2. CASE ~ W!ReadLock(t) /\ ~ W!ReadLoad(t)
      <3>1. tmp' = tmp /\ wPc[t] \notin {"lock", "load"}
        BY <2>2 DEF W!ReadEnter, W!ReadDequeue, W!ReadUnlock, W!ReadPrint, W!ReadStore,
                    W!At, W!readerVars
      <3> QED BY <1>0, <1>1, <1>4, <3>1
    <2> QED BY <2>1, <2>2
  <1>8. WTypes'
    BY <1>0, <1>1, <1>4, <1>7 DEF WTypes
  <1>9. \A d \in Children : d # t => wPc'[d] \in Outside
    BY <1>3, <1>4
  <1>10. wPc'[t] \notin Outside
    BY <1>1, <1>4 DEF Outside
  <1> QED BY <1>0, <1>1, <1>3, <1>4, <1>6, <1>7, <1>8, <1>9, <1>10, WOne

(* A writer with the token, up to stop_write.                               *)
LEMMA WWriterStep ==
  ASSUME WInv, NEW t \in Writers,
         \/ W!WriteDequeue(t) \/ W!WriteCount(t) \/ W!WriteSymbol(t) \/ W!WriteEnd(t) \/ W!WriteReset(t)
  PROVE  WInv'
  <1> DEFINE l == CASE wPc[t] = "dequeue" -> "count"
                    [] wPc[t] = "count"   -> "write"
                    [] wPc[t] = "write"   -> "end"
                    [] wPc[t] = "end"     -> (IF cnt < WinRounds THEN "reset" ELSE "loop")
                    [] wPc[t] = "reset"   -> "handoff"
  <1> USE WinAssumption
  <1>0. /\ WTypes /\ wPc \in [Children -> WStates] /\ cnt \in 0 .. WinRounds
        /\ t \in Children /\ t \notin Readers
    BY WSets DEF WInv, WTypes, Children
  <1>1. /\ wPc[t] \in {"dequeue", "count", "write", "end", "reset"}
        /\ wPc' = [wPc EXCEPT ![t] = l]
        /\ UNCHANGED <<can_read, active_readers, tmp, wNext>>
    BY DEF W!WriteDequeue, W!WriteCount, W!WriteSymbol, W!WriteEnd, W!WriteReset,
           W!At, W!Goto, W!queueVars, W!readerVars, W!dataVars, W!mainVars
  <1>2. t \in W!Holders
    BY <1>0, <1>1, WHolding DEF W!WriteHold
  <1>3. /\ ~ can_read /\ ~ can_write
        /\ \A d \in Children : d # t => wPc[d] \in Outside
        /\ active_readers = 0
        /\ cnt = WinRounds => wPc[t] \in {"write", "end"}
    BY <1>0, <1>2, WAlone
  <1>4. /\ wPc' \in [Children -> WStates] /\ wPc'[t] = l
        /\ \A d \in Children : d # t => wPc'[d] = wPc[d]
        /\ WRoles'
    <2>1. l \in WStates /\ l \in Outside \cup W!WriteHold
      BY <1>1 DEF WStates, W!WriteHold, Outside
    <2> HIDE DEF l
    <2> QED BY <1>0, <1>1, <2>1, WMoves
  <1>5. can_write' = FALSE
    <2>1. can_write = FALSE
      BY <1>0, <1>3 DEF WTypes
    <2> QED BY <2>1 DEF W!WriteDequeue, W!WriteCount, W!WriteSymbol, W!WriteEnd, W!WriteReset
  <1>6. /\ cnt' \in 0 .. WinRounds
        /\ cnt' = WinRounds => wPc'[t] \in {"write", "end", "loop"}
        /\ wPc'[t] \in Outside => cnt' = WinRounds
    <2>1. CASE W!WriteCount(t)
      BY <2>1, <1>0, <1>1, <1>3, <1>4 DEF W!WriteCount, W!At, Outside
    <2>2. CASE ~ W!WriteCount(t)
      <3>1. cnt' = cnt /\ wPc[t] # "count"
        BY <2>2 DEF W!WriteDequeue, W!WriteSymbol, W!WriteEnd, W!WriteReset, W!At, W!dataVars
      <3> QED BY <3>1, <1>0, <1>1, <1>3, <1>4 DEF Outside
    <2> QED BY <2>1, <2>2
  <1>7. WTypes'
    BY <1>0, <1>1, <1>4, <1>5, <1>6 DEF WTypes
  <1>8. \A d \in Children : d # t => wPc'[d] \in Outside
    BY <1>3, <1>4
  <1> QED BY <1>0, <1>1, <1>3, <1>4, <1>5, <1>6, <1>7, <1>8, WOne DEF Outside

(* stop_read and stop_write: the holder puts the token into one event.      *)
LEMMA WReleaseStep ==
  ASSUME WInv, NEW t \in Children,
         \/ t \in Readers /\ W!ReadLast(t)
         \/ t \in Writers /\ W!WriteHandoff(t)
  PROVE  WInv'
  <1>0. /\ WTypes /\ wPc \in [Children -> WStates]
        /\ can_read \in BOOLEAN /\ can_write \in BOOLEAN
    BY DEF WInv, WTypes
  <1>1. /\ \/ t \in Readers /\ wPc[t] = "last"
           \/ t \in Writers /\ wPc[t] = "handoff"
        /\ wPc' = [wPc EXCEPT ![t] = "loop"]
        /\ UNCHANGED <<active_readers, tmp, cnt, wNext>>
    BY DEF W!ReadLast, W!WriteHandoff, W!At, W!Goto, W!queueVars, W!readerVars, W!dataVars, W!mainVars
  <1>2. t \in W!Holders
    BY <1>1, WHolding DEF W!ReadHold, W!WriteHold
  <1>3. /\ ~ can_read /\ ~ can_write
        /\ \A d \in Children : d # t => wPc[d] \in Outside
        /\ active_readers = 0
        /\ cnt # WinRounds
    BY <1>1, <1>2, WAlone, WSets DEF Counted
  <1>4. /\ wPc' \in [Children -> WStates] /\ wPc'[t] = "loop"
        /\ \A d \in Children : d # t => wPc'[d] = wPc[d]
        /\ WRoles'
    <2>1. "loop" \in WStates /\ "loop" \in Outside
      BY DEF WStates, Outside
    <2> QED BY <1>1, <2>1, WMoves
  <1>5. /\ can_read' \in BOOLEAN /\ can_write' \in BOOLEAN
        /\ ~ (can_read' /\ can_write') /\ (can_read' \/ can_write')
    BY <1>0, <1>3 DEF W!ReadLast, W!WriteHandoff
  <1>6. WTypes'
    BY <1>0, <1>1, <1>4, <1>5 DEF WTypes
  <1>7. \A d \in Children : d # t => wPc'[d] \in Outside
    BY <1>3, <1>4
  <1> QED BY <1>1, <1>3, <1>4, <1>5, <1>6, <1>7, WOne DEF Outside, Counted

(* main() and the console: a new thread is outside, ExitProcess changes     *)
(* nothing the threads share.                                               *)
LEMMA WMainStep == ASSUME WInv, W!MainThread \/ W!Break PROVE WInv'
  <1> USE ReaderWriterAssumption
  <1>0. WTypes /\ WRoles /\ wPc \in [Children -> WStates] /\ wNext \in Nat \ {0}
    BY DEF WInv, WTypes
  <1>1. UNCHANGED WActions
    BY DEF W!MainThread, W!CreateObjects, W!CreateThread, W!CreateThreadFails, W!Finish, W!Break,
           W!threadVars, W!readerVars, WActions
  <1>2. CASE W!CreateThread
    <2>1. wNext \in Children /\ wNext' = wNext + 1 /\ wPc' = [wPc EXCEPT ![wNext] = "loop"]
      BY <1>0, <1>2 DEF W!CreateThread, W!NThreads, W!Goto, Children, Readers, Writers
    <2>2. wPc[wNext] = "none"
      BY <1>0, <2>1 DEF WRoles
    <2>3. wPc' \in [Children -> WStates] /\ wPc'[wNext] = "loop"
          /\ \A d \in Children : d # wNext => wPc'[d] = wPc[d]
      BY <1>0, <2>1 DEF WStates, Outside
    <2>4. wNext' \in Nat \ {0} /\ wNext' >= wNext /\ wNext < wNext'
      BY <1>0, <2>1
    <2> QED BY <1>1, <2>1, <2>2, <2>3, <2>4, WFrame DEF Outside
  <1>3. CASE ~ W!CreateThread
    <2>1. UNCHANGED <<wPc, wNext>>
      BY <1>3 DEF W!MainThread, W!CreateObjects, W!CreateThreadFails, W!Finish, W!Break
    <2> QED BY <1>1, <2>1 DEF WInv, WTypes, WRoles, WCount, WLast, W!OneToken, W!Holders, WActions
  <1> QED BY <1>2, <1>3

(* can_write starts signalled: the token is there.                          *)
LEMMA WInitially == W!Init => WInv
  <1> SUFFICES ASSUME W!Init PROVE WInv
    OBVIOUS
  <1> USE WinAssumption
  <1>1. /\ wPc \in [Children -> WStates] /\ tmp \in [Children -> Int]
        /\ \A d \in Children : wPc[d] = "none"
    BY WSets DEF W!Init, WStates, Outside
  <1>2. WTypes
    <2>1. can_read \in BOOLEAN /\ can_write \in BOOLEAN
      BY Zenon DEF W!Init
    <2>2. cnt = 0 /\ wNext = 1
      BY DEF W!Init
    <2> QED BY <1>1, <2>1, <2>2 DEF WTypes
  <1>3. WRoles
    BY <1>1 DEF WRoles, Outside, Children
  <1>4. WCount
    BY <1>1 DEF WCount, W!Init, Counted, Children
  <1>5. W!Holders = {}
    BY <1>1, WSets DEF W!Holders, W!ReadHold, W!WriteHold, Children
  <1>6. WLast /\ W!OneToken
    BY <1>5 DEF WLast, W!OneToken, W!Init
  <1> QED BY <1>2, <1>3, <1>4, <1>6 DEF WInv

(* WInv is inductive, whichever of the two programs runs.                   *)
LEMMA WInductive == ASSUME WInv, [BothNext]_bothVars PROVE WInv'
  <1>0. WRoles
    BY DEF WInv
  <1>1. CASE UNCHANGED winVars
    BY <1>1 DEF WInv, WTypes, WRoles, WCount, WLast, W!OneToken, W!Holders, winVars
  <1>2. CASE W!MainThread \/ W!Break
    BY <1>2, WMainStep
  <1>3. ASSUME NEW t \in W!Threads, W!Thread(t) PROVE WInv'
    <2>0. t \in Children
      BY WSets
    <2>1. CASE t \in Readers
      <3>1. /\ wPc[t] \in Outside \cup W!ReadHold /\ t \notin Writers
        BY <1>0, <2>0, <2>1, WSets DEF WRoles
      <3>2. wPc[t] \notin {"count", "write", "end", "reset", "handoff"}
        BY <3>1 DEF Outside, W!ReadHold
      <3>3. W!Loop(t) \/ W!Reader(t)
        BY <1>3, <3>1, <3>2, WSets
           DEF W!Thread, W!Writer, W!WriteQueue, W!WriteTest, W!WriteTry, W!WriteWait, W!WriteDequeue,
               W!WriteCount, W!WriteSymbol, W!WriteEnd, W!WriteReset, W!WriteHandoff, W!At
      <3>4. CASE W!Loop(t) \/ W!ReadQueue(t) \/ W!ReadTest(t) \/ W!ReadTry(t) \/ W!ReadWait(t)
        BY <3>4, <2>0, WOutsideStep, WTakeStep
      <3>5. CASE \/ W!ReadLock(t) \/ W!ReadEnter(t) \/ W!ReadDequeue(t) \/ W!ReadUnlock(t)
                 \/ W!ReadPrint(t) \/ W!ReadLoad(t) \/ W!ReadStore(t)
        BY <3>5, <2>1, WReaderStep
      <3>6. CASE W!ReadLast(t)
        BY <3>6, <2>0, <2>1, WReleaseStep
      <3> QED BY <3>3, <3>4, <3>5, <3>6 DEF W!Reader
    <2>2. CASE t \in Writers
      <3>1. /\ wPc[t] \in Outside \cup W!WriteHold /\ t \notin Readers
        BY <1>0, <2>0, <2>2, WSets DEF WRoles
      <3>2. wPc[t] \notin {"lock", "enter", "unlock", "print", "load", "store", "last"}
        BY <3>1 DEF Outside, W!WriteHold
      <3>3. W!Loop(t) \/ W!Writer(t)
        BY <1>3, <3>1, <3>2, WSets
           DEF W!Thread, W!Reader, W!ReadQueue, W!ReadTest, W!ReadTry, W!ReadWait, W!ReadLock,
               W!ReadEnter, W!ReadDequeue, W!ReadUnlock, W!ReadPrint, W!ReadLoad, W!ReadStore,
               W!ReadLast, W!At
      <3>4. CASE W!Loop(t) \/ W!WriteQueue(t) \/ W!WriteTest(t) \/ W!WriteTry(t) \/ W!WriteWait(t)
        BY <3>4, <2>0, WOutsideStep, WTakeStep
      <3>5. CASE \/ W!WriteDequeue(t) \/ W!WriteCount(t) \/ W!WriteSymbol(t) \/ W!WriteEnd(t)
                 \/ W!WriteReset(t)
        BY <3>5, <2>2, WWriterStep
      <3>6. CASE W!WriteHandoff(t)
        BY <3>6, <2>0, <2>2, WReleaseStep
      <3> QED BY <3>3, <3>4, <3>5, <3>6 DEF W!Writer
    <2> QED BY <2>0, <2>1, <2>2 DEF Children
  <1>4. CASE W!Terminating
    <2>1. UNCHANGED winVars
      BY <1>4 DEF W!Terminating, W!vars, W!queueVars, W!readerVars, W!dataVars, W!mainVars, winVars
    <2> QED BY <1>1, <2>1
  <1> QED BY <1>1, <1>2, <1>3, <1>4 DEF BothNext, W!Next, bothVars

(* At most one reader is ever counted, so the counter that stop_read        *)
(* changes without the mutex is the number of counted readers.              *)
LEMMA WExact == WInv => W!ActiveReadersExact
  <1> SUFFICES ASSUME WInv PROVE W!ActiveReadersExact
    OBVIOUS
  <1> DEFINE S == {r \in Readers : wPc[r] \in Counted}
  <1>0. WCount /\ W!OneToken
    BY DEF WInv
  <1>3. W!ActiveReadersExact <=> active_readers = Cardinality(S)
    BY WSets DEF W!ActiveReadersExact, W!Cardinality, Cardinality, Counted
  <1>1. CASE S = {}
    BY <1>0, <1>1, <1>3, FS_EmptySet DEF WCount
  <1>2. ASSUME NEW t \in S PROVE W!ActiveReadersExact
    <2>1. \A r \in S : r \in W!Holders
      BY WHolding DEF Counted, W!ReadHold, Children
    <2>2. S = {t}
      BY <1>0, <1>2, <2>1 DEF W!OneToken
    <2>3. Cardinality(S) = 1
      BY <2>2, FS_Singleton
    <2>4. active_readers = 1
      BY <1>0, <1>2 DEF WCount
    <2> QED BY <2>3, <2>4, <1>3
  <1> QED BY <1>1, <1>2

(* For every number of writers, readers, letters and rounds: one thread of  *)
(* the Windows program at a time has the token, it is lost only after the   *)
(* last round, and no update of active_readers gets lost.                   *)
THEOREM OneTokenAlways == BothSpec => []OneToken
  <1>1. BothInit => WInv
    BY WInitially DEF BothInit
  <1>2. WInv => OneToken
    BY WExact DEF OneToken, WInv
  <1> QED BY <1>1, <1>2, WInductive, PTL DEF BothSpec

(* The program of the two that is started keeps its promises beside the     *)
(* other one.                                                               *)
THEOREM BothKeepExclusion == BothSpec => []Exclusion /\ ReadersSeeStableLetter
  <1>1. BothInit => Init
    BY DEF BothInit
  <1>2. [BothNext]_bothVars => [Next]_vars
    BY DEF BothNext, bothVars
  <1>3. BothSpec => Spec
    BY <1>1, <1>2, PTL DEF BothSpec, Spec
  <1> QED BY <1>3, WritersWorkAlone, ReadersAreUndisturbed, PTL
=============================================================================
