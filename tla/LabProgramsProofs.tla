-------------------------- MODULE LabProgramsProofs ---------------------------
(***************************************************************************)
(* The programs of LabPrograms for every number of starts, signals,        *)
(* reboots, clients and connections, for every directory tree and every    *)
(* argument, for every list of messages and every alphabet: the daemon,    *)
(* the datagram servers, the calculator, the directory walk, the parents   *)
(* with their children, and the readers and writers of letters.            *)
(***************************************************************************)
EXTENDS LabPrograms, FiniteSetTheorems, SequenceTheorems, TLAPS

-----------------------------------------------------------------------------
(* The daemon.                                                              *)

DStates  == D!Ended \cup {"not_started"} \cup D!HupDefault \cup D!HupIgnored \cup D!AllBlocked
DThreads == {"none", "sigwait", "read", "close", "gone"}

DTypes == dPc \in [D!Procs -> DStates] /\ dThread \in [D!Procs -> DThreads]

(* O_EXCL: the process that created LOCKFILE is the only one that goes on   *)
(* to fcntl, and until the machine boots again no other creates the file.   *)
LockfileOnce ==
  /\ ~ dLockfile => dPassed = {} /\ \A p \in D!Procs : dPc[p] # "fcntl"
  /\ \A p \in D!Procs : dPc[p] = "fcntl" => dPassed = {}
  /\ \A p, q \in D!Procs : dPc[p] = "fcntl" /\ dPc[q] = "fcntl" => p = q
  /\ \A p, q \in dPassed : p = q

(* There is a thread only where every signal is blocked.                    *)
ThreadLate ==
  \A p \in D!Procs : dThread[p] # "none" => dPc[p] \in D!AllBlocked \cup {"exit", "KILL"}

DInv == DTypes /\ LockfileOnce /\ ThreadLate

(* No process has been started.                                             *)
LEMMA DInitially == D!Init => DInv
  BY DEF D!Init, DInv, DTypes, LockfileOnce, ThreadLate, DStates, DThreads

(* A step of process p, as far as DInv is concerned: it leaves the lock     *)
(* file and the others alone and does not arrive at fcntl.                  *)
LEMMA DFrame ==
  ASSUME DInv, NEW p \in D!Procs,
         UNCHANGED <<dLockfile, dPassed>>,
         dPc' \in [D!Procs -> DStates], dThread' \in [D!Procs -> DThreads],
         \A q \in D!Procs : q # p => dPc'[q] = dPc[q] /\ dThread'[q] = dThread[q],
         dPc'[p] = "fcntl" => dPc[p] = "fcntl",
         dThread'[p] # "none" => dPc'[p] \in D!AllBlocked \cup {"exit", "KILL"}
  PROVE  DInv'
  <1>1. DTypes'
    BY DEF DTypes
  <1>2. LockfileOnce'
    BY DEF DInv, LockfileOnce
  <1>3. ThreadLate'
    BY DEF DInv, ThreadLate
  <1> QED BY <1>1, <1>2, <1>3 DEF DInv

(* The steps of main() beside the two of already_running().                 *)
LEMMA DMainStep ==
  ASSUME DInv, NEW p \in D!Procs,
         D!Start(p) \/ D!Daemonize(p) \/ D!CallFails(p) \/ D!SetSignals(p) \/ D!CreateThread(p)
  PROVE  DInv'
  <1>0. /\ dPc \in [D!Procs -> DStates] /\ dThread \in [D!Procs -> DThreads]
        /\ dThread[p] # "none" => dPc[p] \in D!AllBlocked \cup {"exit", "KILL"}
    BY DEF DInv, DTypes, ThreadLate
  <1>1. UNCHANGED <<dLockfile, dPassed>>
    BY DEF D!Start, D!Daemonize, D!CallFails, D!SetSignals, D!CreateThread, D!files
  <1>2. /\ dPc' \in [D!Procs -> DStates]
        /\ \A q \in D!Procs : q # p => dPc'[q] = dPc[q]
        /\ dPc'[p] # "fcntl"
    BY <1>0 DEF D!Start, D!Daemonize, D!CallFails, D!SetSignals, D!CreateThread, D!Goto, D!End,
           DStates, D!Ended, D!HupDefault, D!HupIgnored, D!AllBlocked
  <1>3. /\ dThread' \in [D!Procs -> DThreads]
        /\ \A q \in D!Procs : q # p => dThread'[q] = dThread[q]
    BY <1>0 DEF D!Start, D!Daemonize, D!CallFails, D!SetSignals, D!CreateThread, DThreads
  <1>4. dThread'[p] # "none" => dPc'[p] \in D!AllBlocked \cup {"exit", "KILL"}
    BY <1>0 DEF D!Start, D!Daemonize, D!CallFails, D!SetSignals, D!CreateThread, D!Goto, D!End,
           D!AllBlocked
  <1> QED BY <1>1, <1>2, <1>3, <1>4, DFrame

(* open(O_EXCL): the file was not there, so nobody has passed or can.       *)
LEMMA DOpenStep == ASSUME DInv, NEW p \in D!Procs, D!OpenLockFile(p) PROVE DInv'
  <1>0. /\ dPc \in [D!Procs -> DStates] /\ dThread \in [D!Procs -> DThreads]
        /\ LockfileOnce /\ ThreadLate
    BY DEF DInv, DTypes
  <1>1. /\ dPc' \in [D!Procs -> DStates] /\ dPc[p] = "open"
        /\ \A q \in D!Procs : q # p => dPc'[q] = dPc[q]
        /\ dPc'[p] = IF dLockfile THEN "exit" ELSE "fcntl"
        /\ dThread' = dThread /\ dPassed' = dPassed /\ dLockfile' = TRUE
    BY <1>0 DEF D!OpenLockFile, D!Goto, D!End, DStates, D!Ended, D!HupDefault, D!HupIgnored,
           D!AllBlocked
  <1>2. DTypes'
    BY <1>0, <1>1 DEF DTypes
  <1>3. LockfileOnce'
    BY <1>0, <1>1 DEF LockfileOnce
  <1>4. ThreadLate'
    BY <1>0, <1>1 DEF ThreadLate, D!AllBlocked
  <1> QED BY <1>2, <1>3, <1>4 DEF DInv

(* fcntl: the one that created the file passes, or exits.                   *)
LEMMA DSetLockStep == ASSUME DInv, NEW p \in D!Procs, D!SetLock(p) PROVE DInv'
  <1>0. /\ dPc \in [D!Procs -> DStates] /\ dThread \in [D!Procs -> DThreads]
        /\ LockfileOnce /\ ThreadLate
    BY DEF DInv, DTypes
  <1>1. /\ dPc' \in [D!Procs -> DStates] /\ dPc[p] = "fcntl"
        /\ \A q \in D!Procs : q # p => dPc'[q] = dPc[q]
        /\ dPc'[p] \in {"exit", "sigdfl"}
        /\ dThread' = dThread /\ dLockfile' = dLockfile
        /\ dPassed' = dPassed \/ dPassed' = dPassed \cup {p}
    BY <1>0 DEF D!SetLock, D!Goto, D!End, DStates, D!Ended, D!HupDefault, D!HupIgnored, D!AllBlocked
  <1>2. DTypes'
    BY <1>0, <1>1 DEF DTypes
  <1>3. dPassed = {} /\ dLockfile /\ \A q \in D!Procs : dPc[q] = "fcntl" => q = p
    BY <1>0, <1>1 DEF LockfileOnce
  <1>4. LockfileOnce'
    BY <1>1, <1>3 DEF LockfileOnce
  <1>5. ThreadLate'
    BY <1>0, <1>1 DEF ThreadLate, D!AllBlocked
  <1> QED BY <1>2, <1>4, <1>5 DEF DInv

(* The thread, and what ends a process from outside.  A signal ends it only *)
(* where not all signals are blocked, and there it has no thread.           *)
LEMMA DOtherStep ==
  ASSUME DInv, NEW p \in D!Procs,
         \/ D!Sigwait(p) \/ D!Reread(p) \/ D!RereadEnd(p) \/ D!SigwaitFails(p) \/ D!Kill(p)
         \/ \E s \in D!Signals : D!Signal(p, s)
  PROVE  DInv'
  <1>0. /\ dPc \in [D!Procs -> DStates] /\ dThread \in [D!Procs -> DThreads]
        /\ dThread[p] # "none" => dPc[p] \in D!AllBlocked \cup {"exit", "KILL"}
    BY DEF DInv, DTypes, ThreadLate
  <1>1. UNCHANGED <<dLockfile, dPassed>>
    BY DEF D!Sigwait, D!Reread, D!RereadEnd, D!SigwaitFails, D!Kill, D!Signal, D!files
  <1>2. CASE D!Sigwait(p) \/ D!Reread(p) \/ D!RereadEnd(p)
    <2>1. dPc' = dPc /\ dThread[p] # "none"
      BY <1>2 DEF D!Sigwait, D!Reread, D!RereadEnd, D!ThreadAt
    <2>2. /\ dThread' \in [D!Procs -> DThreads]
          /\ \A q \in D!Procs : q # p => dThread'[q] = dThread[q]
      BY <1>0, <1>2 DEF D!Sigwait, D!Reread, D!RereadEnd, DThreads
    <2> QED BY <1>0, <1>1, <2>1, <2>2, DFrame
  <1>3. CASE D!SigwaitFails(p) \/ D!Kill(p)
    <2>1. /\ dThread' = dThread
          /\ \E e \in {"exit", "KILL"} : dPc' = [dPc EXCEPT ![p] = e]
      BY <1>3 DEF D!SigwaitFails, D!Kill, D!End
    <2>2. /\ dPc' \in [D!Procs -> DStates] /\ dPc'[p] \in {"exit", "KILL"}
          /\ \A q \in D!Procs : q # p => dPc'[q] = dPc[q]
      BY <1>0, <2>1 DEF DStates, D!Ended
    <2> QED BY <1>0, <1>1, <2>1, <2>2, DFrame
  <1>4. ASSUME NEW s \in D!Signals, D!Signal(p, s) PROVE DInv'
    <2>1. dThread' = dThread /\ dPc[p] \notin {"exit", "KILL"}
      BY <1>4 DEF D!Signal, D!Live, D!Ended
    <2>2. \/ dPc' = dPc
          \/ dPc[p] \notin D!AllBlocked /\ dPc' = [dPc EXCEPT ![p] = s]
      BY <1>4 DEF D!Signal, D!End
    <2>3. CASE dPc' = dPc
      BY <1>0, <1>1, <2>1, <2>3, DFrame
    <2>4. CASE dPc[p] \notin D!AllBlocked /\ dPc' = [dPc EXCEPT ![p] = s]
      <3>1. dThread'[p] = "none"
        BY <1>0, <2>1, <2>4
      <3>2. /\ dPc' \in [D!Procs -> DStates] /\ dPc'[p] # "fcntl"
            /\ \A q \in D!Procs : q # p => dPc'[q] = dPc[q]
        BY <1>0, <2>4 DEF DStates, D!Ended, D!Signals
      <3> QED BY <1>0, <1>1, <2>1, <3>1, <3>2, DFrame
    <2> QED BY <2>2, <2>3, <2>4
  <1> QED BY <1>2, <1>3, <1>4

(* A reboot ends every process and empties /var/run.                        *)
LEMMA DRebootStep == ASSUME DInv, D!Reboot PROVE DInv'
  <1>0. /\ dPc \in [D!Procs -> DStates] /\ dThread \in [D!Procs -> DThreads] /\ ThreadLate
    BY DEF DInv, DTypes
  <1>1. /\ dPc' \in [D!Procs -> DStates] /\ dThread' = dThread
        /\ dPassed' = {} /\ dLockfile' = FALSE
        /\ \A p \in D!Procs : /\ dPc'[p] = "KILL" \/ dPc'[p] = dPc[p]
                              /\ dPc'[p] # "fcntl"
    BY <1>0 DEF D!Reboot, D!Live, DStates, D!Ended, D!Signals
  <1>2. ThreadLate'
    BY <1>0, <1>1 DEF ThreadLate
  <1> QED BY <1>0, <1>1, <1>2 DEF DInv, DTypes, LockfileOnce

(* DInv is inductive.                                                       *)
LEMMA DInductive == ASSUME DInv, [Next]_vars PROVE DInv'
  <1>1. CASE UNCHANGED dVars
    BY <1>1 DEF DInv, DTypes, LockfileOnce, ThreadLate, dVars
  <1>2. CASE D!Next
    <2>1. CASE D!EditConfig
      BY <2>1 DEF DInv, DTypes, LockfileOnce, ThreadLate, D!EditConfig
    <2> QED BY <1>2, <2>1, DMainStep, DOpenStep, DSetLockStep, DOtherStep, DRebootStep
            DEF D!Next, D!World, D!Main, D!Thread
  <1> QED BY <1>1, <1>2 DEF Next, vars

-----------------------------------------------------------------------------
(* For every number of starts, signals and reboots: already_running() lets  *)
(* one process pass between two boots.                                      *)
THEOREM DaemonOncePerBoot == Spec => []OncePerBoot
  <1>1. DInv => OncePerBoot
    <2> SUFFICES ASSUME DInv PROVE Cardinality(dPassed) <= 1
      BY DEF OncePerBoot, D!OncePerBoot, D!Cardinality, Cardinality
    <2>1. CASE dPassed = {}
      BY <2>1, FS_EmptySet
    <2>2. ASSUME NEW p \in dPassed PROVE Cardinality(dPassed) <= 1
      <3>1. dPassed = {p}
        BY <2>2 DEF DInv, LockfileOnce
      <3>2. Cardinality({p}) = 1
        BY FS_Singleton
      <3> QED BY <3>1, <3>2
    <2> QED BY <2>1, <2>2
  <1>2. Init => DInv
    BY DInitially DEF Init
  <1> QED BY <1>1, <1>2, DInductive, PTL DEF Spec

(* For every number of starts, signals and reboots: no signal that can be   *)
(* blocked ends a daemon that has its thread.                               *)
THEOREM DaemonOutlivesSignals == Spec => []ServiceOutlivesSignals
  <1>1. DInv => ServiceOutlivesSignals
    BY DEF DInv, ThreadLate, ServiceOutlivesSignals, D!ServiceOutlivesSignals, D!AllBlocked, D!Signals
  <1>2. Init => DInv
    BY DInitially DEF Init
  <1> QED BY <1>1, <1>2, DInductive, PTL DEF Spec

-----------------------------------------------------------------------------
(* The datagram servers.                                                    *)

gProg == IF program \in DatagramPrograms THEN program ELSE "alarm"
Named == {"bind", "killed"} \cup {IF gProg = "alarm" THEN "recvfrom" ELSE "handler"}

(* Every way a server can end either unlinks SOCK_NAME or is one of those   *)
(* that NameFreedAtEnd names.                                               *)
LEMMA GEnd ==
  ASSUME NEW why, NEW unlinked, G!End(why, unlinked), program' = program,
         "server.soc" \in unlinked \/ why \in Named
  PROVE  NameFreedAtEnd'
  <1>1. gSrv' = "ended" /\ gHow' = why /\ gFiles' = gFiles \ unlinked
    BY DEF G!End
  <1>2. Named' = Named
    BY DEF Named, gProg
  <1>3. "server.soc" \in gFiles' => gHow' \in Named'
    BY <1>1, <1>2
  <1> QED BY <1>3 DEF NameFreedAtEnd, G!NameFreedAtEnd, Named, gProg

(* NameFreedAtEnd is inductive by itself.                                   *)
LEMMA GInductive == ASSUME NameFreedAtEnd, [Next]_vars PROVE NameFreedAtEnd'
  <1>0. NameFreedAtEnd <=> (gSrv = "ended" /\ "server.soc" \in gFiles => gHow \in Named)
    BY DEF NameFreedAtEnd, G!NameFreedAtEnd, Named, gProg
  <1>1. program' = program
    BY DEF Next, InDaemon, InStreams, InDatagrams, InFiles, InCalculator, InTree, vars
  <1>2. Named' = Named /\ gProg' = gProg
    BY <1>1 DEF Named, gProg
  <1>3. (NameFreedAtEnd)' <=> (gSrv' = "ended" /\ "server.soc" \in gFiles' => gHow' \in Named)
    BY <1>2 DEF NameFreedAtEnd, G!NameFreedAtEnd, Named, gProg
  <1>4. CASE UNCHANGED <<gSrv, gHow, gFiles>> \/ gSrv' # "ended"
    BY <1>0, <1>3, <1>4
  <1>5. CASE \E why \in {"bind", "killed"} : G!End(why, {})
    BY <1>1, <1>5, GEnd DEF Named
  <1>6. CASE \E why \in {"flag", "sendto"} : G!End(why, {"server.soc"})
    BY <1>1, <1>6, GEnd
  <1>7. CASE gProg = "echo" /\ G!End("handler", {})
    BY <1>1, <1>7, GEnd DEF Named
  <1>8. CASE G!RecvError
    <2>1. G!End("recvfrom", IF gProg = "echo" THEN {"server.soc"} ELSE {})
      BY <1>8 DEF G!RecvError, gProg
    <2>2. CASE gProg = "echo"
      BY <1>1, <2>1, <2>2, GEnd
    <2>3. CASE gProg # "echo"
      <3>1. gProg = "alarm"
        BY <2>3 DEF gProg, DatagramPrograms
      <3> QED BY <1>1, <2>1, <2>3, <3>1, GEnd DEF Named
    <2> QED BY <2>2, <2>3
  <1>9. CASE G!Next
    <2>1. CASE G!Start \/ G!Sigalrm \/ G!Sigint
      BY <2>1, <1>4, <1>5, <1>8 DEF G!Start, G!Sigalrm, G!Sigint, G!Interrupt
    <2>2. CASE G!Bind \/ G!Handler \/ G!While
      BY <2>2, <1>4, <1>5, <1>6, <1>7 DEF G!Bind, G!Handler, G!While, gProg
    <2>3. CASE G!Recv \/ G!RecvSleeps \/ G!RecvFails \/ G!Answer
      BY <2>3, <1>4, <1>6, <1>8 DEF G!Recv, G!RecvSleeps, G!RecvFails, G!Answer
    <2>4. ASSUME NEW c \in Clients, G!ClientKilled(c) \/ G!Client(c) PROVE NameFreedAtEnd'
      BY <2>4, <1>4 DEF G!ClientKilled, G!Client, G!Send, G!Receive, G!server
    <2> QED BY <1>9, <2>1, <2>2, <2>3, <2>4 DEF G!Next, G!World, G!Server
  <1> QED BY <1>4, <1>9 DEF Next, vars, gVars

(* For every number of clients, starts and signals: a server that ended has *)
(* freed SOCK_NAME, unless it ended in one of the named ways.               *)
THEOREM NameIsFreed == Spec => []NameFreedAtEnd
  <1>1. Init => NameFreedAtEnd
    BY DEF Init, G!Init, NameFreedAtEnd, G!NameFreedAtEnd
  <1> QED BY <1>1, GInductive, PTL DEF Spec

-----------------------------------------------------------------------------
(* The calculator.                                                          *)

KTypes ==
  /\ kOpened \in 0 .. NConns
  /\ kXprt \in [K!Conns -> {"none", "open", "eof", "gone"}]
  /\ kCall \in [K!Conns -> Nat] /\ kData \in [K!Conns -> Nat] /\ kRes \in [K!Conns -> Nat]
  /\ kReply \in [K!Conns -> Nat]
  /\ kWorker \in [K!Conns -> {"none", "compute", "send", "freeargs", "done"}]
  /\ kCl \in [Users -> {"test", "create", "call", "print", "exit0", "exit1"}]
  /\ kConn \in [Users -> 0 .. NConns]
  /\ kResult \in [Users -> Nat]

(* A call, the data of its thread and the thread's result carry the name of *)
(* their connection, as long as they are there.                             *)
KThreads ==
  \A n \in K!Conns : /\ kCall[n] \in {K!None, n}
                     /\ kWorker[n] = "compute" => kData[n] = n
                     /\ kWorker[n] = "send" => kRes[n] = n

(* While no thread has outlived its connection, an answer is on the         *)
(* connection of its own call.                                              *)
KReplies == ~ kLate => \A n \in K!Conns : kReply[n] \in {K!None, n}

KClients == \A c \in Users : kCl[c] \in {"call", "print"} => kConn[c] \in K!Conns

KInv == KTypes /\ kLate \in BOOLEAN /\ KThreads /\ KReplies /\ KClients /\ K!OwnResult

(* The bound on connections is a number.                                    *)
LEMMA KBound == NConns \in Nat /\ K!Conns = 1 .. NConns /\ K!None = 0
  BY LabAssumption DEF K!Conns, K!None

(* No client has called.                                                    *)
LEMMA KInitially == K!Init => KInv
  <1> SUFFICES ASSUME K!Init PROVE KInv
    OBVIOUS
  <1> USE KBound
  <1>1. kLate \in BOOLEAN /\ kOpened \in 0 .. NConns
    <2>1. kLate \in BOOLEAN
      BY Zenon DEF K!Init
    <2>2. kOpened = 0
      BY DEF K!Init
    <2> QED BY <2>1, <2>2
  <1>2. /\ kXprt = [n \in K!Conns |-> "none"] /\ kCall = [n \in K!Conns |-> 0]
        /\ kData = [n \in K!Conns |-> 0] /\ kWorker = [n \in K!Conns |-> "none"]
        /\ kRes = [n \in K!Conns |-> 0] /\ kReply = [n \in K!Conns |-> 0]
        /\ kCl = [c \in Users |-> "test"] /\ kConn = [c \in Users |-> 0]
        /\ kResult = [c \in Users |-> 0]
    BY DEF K!Init
  <1>3. KTypes
    BY <1>1, <1>2 DEF KTypes
  <1>4. KThreads /\ KReplies /\ KClients /\ K!OwnResult
    BY <1>2 DEF KThreads, KReplies, KClients, K!OwnResult
  <1> QED BY <1>1, <1>3, <1>4 DEF KInv

(* A client: it waits on its own connection, and what it takes from there   *)
(* is what was computed for it.                                             *)
LEMMA KClientStep == ASSUME KInv, NEW c \in Users, K!Client(c) \/ K!Sigint(c) PROVE KInv'
  <1> USE DEF K!None
  <1>0. KTypes /\ kLate \in BOOLEAN /\ KThreads /\ KReplies /\ KClients /\ K!OwnResult
    BY DEF KInv
  <1>1. CASE K!Test(c) \/ K!Sigint(c)
    <2>1. UNCHANGED <<kOpened, kXprt, kCall, kData, kRes, kReply, kWorker, kConn, kResult, kLate>>
      BY <1>1 DEF K!Test, K!Sigint
    <2>2. /\ kCl' \in [Users -> {"test", "create", "call", "print", "exit0", "exit1"}]
          /\ \A d \in Users : kCl'[d] \in {"call", "print"} => kCl[d] = kCl'[d]
      BY <1>0, <1>1 DEF K!Test, K!Sigint, K!Goto, KTypes
    <2> QED BY <1>0, <2>1, <2>2 DEF KInv, KTypes, KThreads, KReplies, KClients, K!OwnResult
  <1>2. CASE K!Call(c)
    <2> DEFINE n == kOpened + 1
    <2>1. /\ n \in K!Conns /\ n \in 0 .. NConns /\ n \in Nat /\ kOpened' = n
          /\ kConn' = [kConn EXCEPT ![c] = n]
          /\ kXprt' = [kXprt EXCEPT ![n] = "open"]
          /\ kCall' = [kCall EXCEPT ![n] = n]
          /\ kCl' = [kCl EXCEPT ![c] = "call"]
          /\ UNCHANGED <<kData, kRes, kReply, kWorker, kResult, kLate>>
      BY <1>0, <1>2, KBound DEF K!Call, K!Goto, KTypes
    <2> HIDE DEF n
    <2>2. KTypes'
      BY <1>0, <2>1 DEF KTypes
    <2>3. KThreads' /\ KReplies'
      BY <1>0, <2>1 DEF KThreads, KReplies, KTypes
    <2>4. KClients' /\ K!OwnResult'
      BY <1>0, <2>1 DEF KClients, K!OwnResult, KTypes
    <2> QED BY <1>0, <2>1, <2>2, <2>3, <2>4 DEF KInv
  <1>3. CASE K!Returns(c)
    <2> DEFINE n == kConn[c]
    <2>1. /\ n \in K!Conns /\ kReply[n] # 0
          /\ kCl' = [kCl EXCEPT ![c] = "print"]
          /\ kResult' = [kResult EXCEPT ![c] = kReply[n]]
          /\ kReply' = [kReply EXCEPT ![n] = 0]
          /\ UNCHANGED <<kOpened, kXprt, kCall, kData, kRes, kWorker, kConn, kLate>>
      BY <1>0, <1>3 DEF K!Returns, K!Goto, KClients
    <2>2. ~ kLate => kReply[n] = n
      BY <1>0, <2>1 DEF KReplies
    <2>3. KTypes'
      BY <1>0, <2>1 DEF KTypes
    <2>4. KThreads' /\ KReplies' /\ KClients'
      BY <1>0, <2>1 DEF KThreads, KReplies, KClients, KTypes
    <2>5. K!OwnResult'
      BY <1>0, <2>1, <2>2 DEF K!OwnResult, KTypes
    <2> QED BY <1>0, <2>1, <2>3, <2>4, <2>5 DEF KInv
  <1>4. CASE K!Fails(c) \/ K!Destroy(c)
    <2>1. /\ UNCHANGED <<kOpened, kCall, kData, kRes, kReply, kWorker, kLate>>
          /\ kXprt' = kXprt \/ (kConn[c] # 0 /\ kXprt' = [kXprt EXCEPT ![kConn[c]] = "eof"])
          /\ kCl' = [kCl EXCEPT ![c] = "exit1"] \/ kCl' = [kCl EXCEPT ![c] = "test"]
          /\ kConn' = kConn \/ kConn' = [kConn EXCEPT ![c] = 0]
          /\ kResult' = kResult \/ kResult' = [kResult EXCEPT ![c] = 0]
      BY <1>4 DEF K!Fails, K!Destroy, K!Goto, K!Close
    <2>2. KTypes'
      <3>1. 0 \in 0 .. NConns /\ \A k \in 0 .. NConns : k # 0 => k \in K!Conns
        BY KBound
      <3>2. kXprt' \in [K!Conns -> {"none", "open", "eof", "gone"}]
        BY <1>0, <2>1, <3>1 DEF KTypes
      <3>3. kCl' \in [Users -> {"test", "create", "call", "print", "exit0", "exit1"}]
        BY <1>0, <2>1 DEF KTypes
      <3>4. kConn' \in [Users -> 0 .. NConns] /\ kResult' \in [Users -> Nat]
        BY <1>0, <2>1, <3>1 DEF KTypes
      <3> QED BY <1>0, <2>1, <3>2, <3>3, <3>4 DEF KTypes
    <2>3. KThreads' /\ KReplies'
      BY <1>0, <2>1 DEF KThreads, KReplies
    <2>4. \A d \in Users : d # c => /\ kCl'[d] = kCl[d] /\ kConn'[d] = kConn[d]
                                    /\ kResult'[d] = kResult[d]
      BY <1>0, <2>1 DEF KTypes
    <2>5. kCl'[c] \in {"exit1", "test"}
      BY <1>0, <2>1 DEF KTypes
    <2>6. KClients' /\ K!OwnResult'
      BY <1>0, <2>1, <2>4, <2>5 DEF KClients, K!OwnResult
    <2> QED BY <1>0, <2>1, <2>2, <2>3, <2>6 DEF KInv
  <1> QED BY <1>1, <1>2, <1>3, <1>4 DEF K!Client

(* The server: a thread works on the data of its own connection, and as     *)
(* long as that is open its reply goes there.                               *)
LEMMA KServerStep ==
  ASSUME KInv, NEW n \in K!Conns, K!Dispatch(n) \/ K!Hangup(n) \/ K!Worker(n)
  PROVE  KInv'
  <1> USE DEF K!Cell, K!None
  <1>0. KTypes /\ kLate \in BOOLEAN /\ KThreads /\ KReplies /\ KClients /\ K!OwnResult
    BY DEF KInv
  <1>1. UNCHANGED <<kOpened, kCl, kConn, kResult>>
    BY DEF K!Dispatch, K!Hangup, K!Worker, K!Compute, K!Send, K!FreeArgs, K!clientVars
  <1>2. KClients'
    BY <1>0, <1>1 DEF KClients
  <1>3. /\ kLate' \in BOOLEAN
        /\ kLate => kLate'
    <2>1. \/ kLate' = kLate
          \/ kLate' = (kLate \/ kXprt[n] = "gone")
      BY DEF K!Dispatch, K!Hangup, K!Worker, K!Compute, K!Send, K!FreeArgs
    <2> QED BY <1>0, <2>1, Zenon
  <1>4. K!OwnResult'
    BY <1>0, <1>1, <1>3 DEF K!OwnResult
  <1>5. CASE K!Dispatch(n)
    <2>1. /\ kCall[n] = n
          /\ kCall' = [kCall EXCEPT ![n] = 0]
          /\ \/ UNCHANGED <<kData, kWorker>>
             \/ kData' = [kData EXCEPT ![n] = n] /\ kWorker' = [kWorker EXCEPT ![n] = "compute"]
          /\ UNCHANGED <<kXprt, kRes, kReply, kLate>>
      BY <1>0, <1>5, Zenon DEF K!Dispatch, KThreads
    <2>2. KTypes'
      BY <1>0, <1>1, <2>1 DEF KTypes
    <2>3. KThreads' /\ KReplies'
      BY <1>0, <2>1 DEF KThreads, KReplies, KTypes
    <2> QED BY <1>2, <1>3, <1>4, <2>2, <2>3 DEF KInv
  <1>6. CASE K!Hangup(n)
    <2>1. kXprt' = [kXprt EXCEPT ![n] = "gone"] /\ UNCHANGED <<kCall, kData, kWorker, kRes, kReply, kLate>>
      BY <1>6 DEF K!Hangup
    <2>2. KTypes' /\ KThreads' /\ KReplies'
      BY <1>0, <1>1, <2>1 DEF KTypes, KThreads, KReplies
    <2> QED BY <1>2, <1>3, <1>4, <2>2 DEF KInv
  <1>7. CASE K!Compute(n)
    <2>1. /\ kRes' = [kRes EXCEPT ![n] = n]
          /\ \E w \in {"send", "freeargs"} : kWorker' = [kWorker EXCEPT ![n] = w]
          /\ UNCHANGED <<kXprt, kCall, kData, kReply, kLate>>
      BY <1>0, <1>7, Zenon DEF K!Compute, KThreads
    <2>2. KTypes'
      <3>1. n \in Nat
        BY KBound
      <3>2. kWorker' \in [K!Conns -> {"none", "compute", "send", "freeargs", "done"}]
        BY <1>0, <2>1 DEF KTypes
      <3>3. kRes' \in [K!Conns -> Nat]
        BY <1>0, <2>1, <3>1 DEF KTypes
      <3> QED BY <1>0, <1>1, <2>1, <3>2, <3>3 DEF KTypes
    <2>3. KThreads' /\ KReplies'
      BY <1>0, <2>1 DEF KTypes, KThreads, KReplies
    <2> QED BY <1>2, <1>3, <1>4, <2>2, <2>3 DEF KInv
  <1>8. CASE K!Send(n)
    <2>1. /\ kRes[n] = n
          /\ kWorker' = [kWorker EXCEPT ![n] = "freeargs"]
          /\ UNCHANGED <<kXprt, kCall, kData, kRes>>
          /\ kReply' = kReply \/ \E m \in K!Reached(n) : kReply' = [kReply EXCEPT ![m] = n]
      BY <1>0, <1>8, Zenon DEF K!Send, KThreads
    <2>2. /\ K!Reached(n) \subseteq K!Conns
          /\ kXprt[n] # "gone" => K!Reached(n) = {n}
      <3>1. n \in 1 .. NConns /\ kOpened \in 0 .. NConns /\ NConns \in Nat
        BY <1>0, KBound DEF KTypes
      <3>2. (n + 1 .. kOpened) \subseteq K!Conns
        BY <3>1, KBound
      <3> QED BY <3>2 DEF K!Reached
    <2>3. kXprt[n] = "gone" => kLate'
      BY <1>8, Zenon DEF K!Send
    <2>4. KTypes'
      BY <1>0, <1>1, <1>3, <2>1, <2>2 DEF KTypes
    <2>5. KThreads'
      BY <1>0, <2>1 DEF KThreads, KTypes
    <2>6. KReplies'
      <3> SUFFICES ASSUME ~ kLate', NEW m \in K!Conns PROVE kReply'[m] \in {0, m}
        BY DEF KReplies
      <3>1. K!Reached(n) = {n} /\ \A k \in K!Conns : kReply[k] \in {0, k}
        BY <1>0, <1>3, <2>2, <2>3 DEF KReplies
      <3> QED BY <1>0, <2>1, <3>1 DEF KTypes
    <2> QED BY <1>2, <1>3, <1>4, <2>4, <2>5, <2>6 DEF KInv
  <1>9. CASE K!FreeArgs(n)
    <2>1. /\ kWorker' = [kWorker EXCEPT ![n] = "done"]
          /\ kData' = [kData EXCEPT ![n] = 0] /\ kRes' = [kRes EXCEPT ![n] = 0]
          /\ UNCHANGED <<kXprt, kCall, kReply>>
      BY <1>9 DEF K!FreeArgs
    <2>2. KTypes'
      BY <1>0, <1>1, <1>3, <2>1 DEF KTypes
    <2>3. KThreads' /\ KReplies'
      BY <1>0, <1>3, <2>1 DEF KThreads, KReplies, KTypes
    <2> QED BY <1>2, <1>3, <1>4, <2>2, <2>3 DEF KInv
  <1> QED BY <1>5, <1>6, <1>7, <1>8, <1>9 DEF K!Worker

(* For every number of clients and connections: a client prints the result  *)
(* of its own call as long as no thread has outlived its connection.  (The  *)
(* other half of OwnResultsAndStop is a liveness property.)                 *)
THEOREM OwnResultsAlways == Spec => []K!OwnResult
  <1>1. Init => KInv
    BY KInitially DEF Init
  <1>2. ASSUME KInv, [Next]_vars PROVE KInv'
    <2>1. CASE UNCHANGED kVars
      BY <1>2, <2>1 DEF KInv, KTypes, KThreads, KReplies, KClients, K!OwnResult, kVars
    <2>2. CASE K!Next
      BY <1>2, <2>2, KClientStep, KServerStep DEF K!Next
    <2> QED BY <1>2, <2>1, <2>2 DEF Next, vars
  <1>3. KInv => K!OwnResult
    BY DEF KInv
  <1> QED BY <1>1, <1>2, <1>3, PTL DEF Spec

-----------------------------------------------------------------------------
(* The directory walk.  First the tree.                                     *)

(* In any set of nodes one is the root or has its parent outside.           *)
LEMMA TreeInduction ==
  ASSUME NEW B, B \subseteq T!Nodes, B # {}
  PROVE  \E m \in B : m = Root \/ ParentOf[m] \notin B
  <1> DEFINE Size(m) == Cardinality(Above[m])
             Sizes == {n \in Nat : \E m \in B : Size(m) = n}
  <1>1. \A m \in T!Nodes : IsFiniteSet(Above[m]) /\ Size(m) \in Nat
    BY TreeAssumption, FS_Subset, FS_CardinalityType DEF T!Nodes
  <1>2. \A m \in T!Nodes \ {Root} : ParentOf[m] \in T!Nodes /\ Size(m) = Size(ParentOf[m]) + 1
    <2>1. SUFFICES ASSUME NEW m \in T!Nodes \ {Root}
                   PROVE  ParentOf[m] \in T!Nodes /\ Size(m) = Size(ParentOf[m]) + 1
      OBVIOUS
    <2>2. /\ ParentOf[m] \in T!Nodes /\ m \notin Above[ParentOf[m]]
          /\ Above[m] = Above[ParentOf[m]] \cup {m}
      BY TreeAssumption DEF T!Nodes
    <2> QED BY <1>1, <2>2, FS_AddElement, Zenon
  <1>3. Sizes # {} /\ Sizes \subseteq Nat
    BY <1>1
  <1>4. PICK s \in Sizes : \A r \in Sizes : ~ (<<r, s>> \in OpToRel(<, Nat))
    BY <1>3, WFMin, NatLessThanWellFounded, Zenon
  <1>5. PICK m \in B : Size(m) = s
    OBVIOUS
  <1> HIDE DEF Size
  <1>6. SUFFICES ASSUME m # Root, ParentOf[m] \in B PROVE FALSE
    BY <1>5
  <1>7. Size(ParentOf[m]) \in Sizes /\ Size(ParentOf[m]) < s /\ s \in Nat
    BY <1>1, <1>2, <1>5, <1>6
  <1> QED BY <1>4, <1>7, Zenon DEF OpToRel

(* What Above says of a node.                                               *)
LEMMA AboveFacts ==
  ASSUME NEW m \in T!Nodes
  PROVE  /\ m \in Above[m] /\ Above[m] \subseteq T!Nodes /\ IsFiniteSet(Above[m])
         /\ \A a \in Above[m] : a # m => m # Root /\ a \in Above[ParentOf[m]]
         /\ m # Root => Above[m] = {m} \cup Above[ParentOf[m]] /\ m \notin Above[ParentOf[m]]
         /\ ParentOf[m] \in T!Nodes
  <1>1. Above[m] \subseteq T!Nodes /\ IsFiniteSet(Above[m])
    BY TreeAssumption, FS_Subset DEF T!Nodes
  <1> QED BY <1>1, TreeAssumption, SMTT(30) DEF T!Nodes

(* What is above a node above m is above m.                                 *)
LEMMA AboveTransitive ==
  ASSUME NEW m \in T!Nodes, NEW a \in Above[m] PROVE Above[a] \subseteq Above[m]
  <1> DEFINE B == {x \in T!Nodes : \E b \in Above[x] : ~ (Above[b] \subseteq Above[x])}
  <1>1. SUFFICES ASSUME B # {} PROVE FALSE
    OBVIOUS
  <1>2. PICK x \in B : x = Root \/ ParentOf[x] \notin B
    BY <1>1, TreeInduction, Zenon
  <1>3. PICK b \in Above[x] : ~ (Above[b] \subseteq Above[x])
    OBVIOUS
  <1>4. x # Root /\ b \in Above[ParentOf[x]] /\ ParentOf[x] \in T!Nodes
        /\ Above[ParentOf[x]] \subseteq Above[x]
    BY <1>3, AboveFacts
  <1> QED BY <1>2, <1>3, <1>4

(* Two nodes are above each other only if they are one.                     *)
LEMMA AboveAntisymmetric ==
  ASSUME NEW m \in T!Nodes, NEW a \in Above[m], m \in Above[a] PROVE a = m
  <1>1. SUFFICES ASSUME a # m PROVE FALSE
    OBVIOUS
  <1>2. m # Root /\ a \in Above[ParentOf[m]] /\ ParentOf[m] \in T!Nodes /\ m \notin Above[ParentOf[m]]
    BY <1>1, AboveFacts
  <1> QED BY <1>2, AboveTransitive

(* From a node above m an entry leads towards m.                            *)
LEMMA EntryTowards ==
  ASSUME NEW m \in T!Nodes, NEW a \in Above[m], a # m
  PROVE  \E c \in T!Entries(a) : c \in Above[m]
  <1> DEFINE B == {x \in T!Nodes : /\ a \in Above[x] /\ a # x
                                   /\ \A c \in T!Entries(a) : c \notin Above[x]}
  <1>1. SUFFICES ASSUME B # {} PROVE FALSE
    OBVIOUS
  <1>2. PICK x \in B : x = Root \/ ParentOf[x] \notin B
    BY <1>1, TreeInduction, Zenon
  <1>3. x # Root /\ a \in Above[ParentOf[x]] /\ ParentOf[x] \in T!Nodes /\ x \in Above[x]
        /\ Above[ParentOf[x]] \subseteq Above[x]
    BY AboveFacts
  <1>4. ParentOf[x] # a
    BY <1>3 DEF T!Entries
  <1> QED BY <1>2, <1>3, <1>4

(* What an entry of a directory has above it, and on its way from the top.  *)
LEMMA EntryFacts ==
  ASSUME NEW d \in T!Nodes, NEW c \in T!Entries(d)
  PROVE  /\ c \in T!Nodes /\ c # Root /\ ParentOf[c] = d /\ c # d
         /\ Above[c] = {c} \cup Above[d] /\ c \notin Above[d] /\ d \in Above[c]
  BY AboveFacts DEF T!Entries

(* The way from the top is empty at the top, and an entry's is one longer.  *)
LEMMA WayFacts ==
  ASSUME NEW top \in T!Nodes, NEW m \in T!Nodes, top \in Above[m]
  PROVE  /\ T!Way(top, top) = {} /\ Cardinality(T!Way(top, top)) = 0
         /\ IsFiniteSet(T!Way(top, m)) /\ Cardinality(T!Way(top, m)) \in Nat
         /\ m # top => Cardinality(T!Way(top, m)) > 0
         /\ \A c \in T!Entries(m) :
              /\ top \in Above[c] /\ T!Way(top, c) = T!Way(top, m) \cup {m}
              /\ Cardinality(T!Way(top, c)) = Cardinality(T!Way(top, m)) + 1
  <1>1. T!Way(top, top) = {}
    BY AboveAntisymmetric, AboveFacts DEF T!Way
  <1>2. IsFiniteSet(T!Way(top, m))
    <2>1. T!Way(top, m) \subseteq Above[m]
      BY DEF T!Way
    <2> QED BY <2>1, AboveFacts, FS_Subset
  <1>3. Cardinality(T!Way(top, m)) \in Nat /\ Cardinality({}) = 0
    BY <1>2, FS_CardinalityType, FS_EmptySet
  <1>4. m # top => Cardinality(T!Way(top, m)) > 0
    <2>1. m # top => T!Way(top, m) # {}
      BY AboveFacts DEF T!Way
    <2> QED BY <2>1, <1>2, <1>3, FS_EmptySet
  <1>5. ASSUME NEW c \in T!Entries(m)
        PROVE  /\ top \in Above[c] /\ T!Way(top, c) = T!Way(top, m) \cup {m}
               /\ Cardinality(T!Way(top, c)) = Cardinality(T!Way(top, m)) + 1
    <2>1. top \in Above[c] /\ T!Way(top, c) = T!Way(top, m) \cup {m}
      BY EntryFacts, AboveFacts DEF T!Way
    <2>2. m \notin T!Way(top, m)
      BY DEF T!Way
    <2> QED BY <1>2, <2>1, <2>2, FS_AddElement, Zenon
  <1> QED BY <1>1, <1>2, <1>3, <1>4, <1>5

-----------------------------------------------------------------------------
(* What a path names.                                                       *)

(* A nonempty set of numbers has a least one.                               *)
LEMMA LeastOf ==
  ASSUME NEW B, B \subseteq Nat, B # {}
  PROVE  \E k \in B : \A r \in B : k <= r
  <1>1. PICK k \in B : \A r \in B : ~ (<<r, k>> \in OpToRel(<, Nat))
    BY WFMin, NatLessThanWellFounded, Zenon
  <1>2. ASSUME NEW r \in B PROVE k <= r
    <2>1. r \in Nat /\ k \in Nat /\ ~ (<<r, k>> \in OpToRel(<, Nat))
      BY <1>1, Zenon
    <2> QED BY <2>1 DEF OpToRel
  <1> QED BY <1>2

(* Two functions that start alike and go on alike are equal.                *)
LEMMA SameCourse ==
  ASSUME NEW n \in Nat, NEW b, NEW c, b[0] = c[0],
         \A k \in 1 .. n : b[k - 1] = c[k - 1] => b[k] = c[k]
  PROVE  b[n] = c[n]
  <1> DEFINE B == {k \in 0 .. n : b[k] # c[k]}
  <1>1. SUFFICES ASSUME B # {} PROVE FALSE
    OBVIOUS
  <1>2. PICK k \in B : \A r \in B : k <= r
    <2>1. B \subseteq Nat
      OBVIOUS
    <2> QED BY <1>1, <2>1, LeastOf, Zenon
  <1>3. k \in 1 .. n /\ k - 1 \in 0 .. n /\ ~ (k <= k - 1)
    OBVIOUS
  <1>4. k - 1 \in B
    BY <1>3
  <1> QED BY <1>2, <1>3, <1>4

(* Where a path begins.                                                     *)
Begin(p, d) == IF p.absolute THEN Root ELSE d

(* c is what the names of p lead to, one after the other.                   *)
Course(c, p, d) ==
  c = [k \in 0 .. Len(p.steps) |-> IF k = 0 THEN Begin(p, d) ELSE T!Step(c[k - 1], p.steps[k])]

(* Every path has its course: the recursive function of Named, unfolded.    *)
LEMMA CourseExists ==
  ASSUME NEW p, p.steps \in Seq(STRING), NEW d
  PROVE  \E c : Course(c, p, d)
  <1> DEFINE Partial(f, n) == f = [k \in 0 .. n |-> IF k = 0 THEN Begin(p, d)
                                                ELSE T!Step(f[k - 1], p.steps[k])]
             B == {n \in Nat : ~ \E f : Partial(f, n)}
  <1>1. SUFFICES ASSUME B # {} PROVE FALSE
    BY LenProperties DEF Course
  <1>2. PICK n \in B : \A r \in B : n <= r
    BY <1>1, LeastOf, Zenon
  <1>3. n # 0
    <2> DEFINE f == [k \in 0 .. 0 |-> Begin(p, d)]
    <2>1. Partial(f, 0)
      OBVIOUS
    <2> QED BY <2>1, Zenon
  <1>4. PICK f : Partial(f, n - 1)
    <2>1. n - 1 \in Nat /\ ~ (n <= n - 1)
      BY <1>3
    <2>2. n - 1 \notin B
      BY <1>2, <2>1, Zenon
    <2> QED BY <2>1, <2>2
  <1> DEFINE g == [k \in 0 .. n |-> IF k < n THEN f[k] ELSE T!Step(f[n - 1], p.steps[n])]
  <1>5. Partial(g, n)
    <2>1. g[0] = Begin(p, d)
      BY <1>3, <1>4
    <2>2. ASSUME NEW k \in 1 .. n PROVE g[k] = T!Step(g[k - 1], p.steps[k])
      BY <1>3, <1>4
    <2>3. g = [k \in 0 .. n |-> g[k]]
      OBVIOUS
    <2> HIDE DEF g
    <2>4. \A k \in 0 .. n : g[k] = IF k = 0 THEN Begin(p, d) ELSE T!Step(g[k - 1], p.steps[k])
      BY <2>1, <2>2
    <2> DEFINE h == [k \in 0 .. n |-> IF k = 0 THEN Begin(p, d) ELSE T!Step(g[k - 1], p.steps[k])]
    <2>5. g = h
      BY <2>3, <2>4, Zenon
    <2> QED BY <2>5
  <1> QED BY <1>5, Zenon

(* The definition of Named, as an equation.                                 *)
LEMMA NamedCourse ==
  ASSUME NEW p, p.steps \in Seq(STRING), NEW d
  PROVE  \E c : Course(c, p, d) /\ T!Named(p, d) = c[Len(p.steps)]
  <1> DEFINE c == CHOOSE c : Course(c, p, d)
  <1>1. Course(c, p, d)
    BY CourseExists
  <1>2. T!Named(p, d) = c[Len(p.steps)]
    BY DEF T!Named, Course, Begin
  <1> QED BY <1>1, <1>2, Zenon

(* The name of an entry leads from its directory to it.                     *)
LEMMA StepToEntry ==
  ASSUME NEW d \in T!Nodes, tKind[d] = "dir", NEW e \in T!Entries(d)
  PROVE  T!Step(d, e) = e
  <1>1. e # "." /\ e # ".." /\ d # "none"
    BY TreeAssumption DEF T!Entries, T!Nodes
  <1>2. T!Kind(d) \in {"dir", "dnr"}
    BY <1>1 DEF T!Kind, T!None
  <1> QED BY <1>1, <1>2 DEF T!Step

(* A single name but "." and ".." leads nowhere or to an entry.             *)
LEMMA StepOfName ==
  ASSUME NEW d, NEW s, s \notin {".", ".."}
  PROVE  T!Step(d, s) = "none" \/ T!Step(d, s) \in T!Entries(d)
  BY DEF T!Step, T!None

(* A step leads to a node or nowhere.                                       *)
LEMMA StepType ==
  ASSUME NEW d \in T!Nodes \cup {"none"}, NEW s PROVE T!Step(d, s) \in T!Nodes \cup {"none"}
  <1>1. T!Kind("none") \notin {"dir", "dnr"}
    BY DEF T!Kind, T!None
  <1>2. d # "none" => ParentOf[d] \in T!Nodes
    BY AboveFacts
  <1>3. T!Entries(d) \subseteq T!Nodes
    BY DEF T!Entries
  <1> QED BY <1>1, <1>2, <1>3 DEF T!Step, T!None

(* Named goes through its names: one more name is one more step.            *)
LEMMA NamedAppend ==
  ASSUME NEW p, NEW q, NEW d, NEW e, p.steps \in Seq(STRING), e \in STRING,
         q.absolute = p.absolute, q.steps = Append(p.steps, e)
  PROVE  T!Named(q, d) = T!Step(T!Named(p, d), e)
  <1> DEFINE n == Len(p.steps)
  <1>1. /\ n \in Nat /\ q.steps \in Seq(STRING) /\ Len(q.steps) = n + 1 /\ q.steps[n + 1] = e
        /\ \A k \in 1 .. n : q.steps[k] = p.steps[k]
        /\ Begin(q, d) = Begin(p, d)
    BY DEF Begin
  <1>2. PICK b : Course(b, p, d) /\ T!Named(p, d) = b[n]
    BY NamedCourse
  <1>3. PICK c : Course(c, q, d) /\ T!Named(q, d) = c[n + 1]
    BY <1>1, NamedCourse, Zenon
  <1> HIDE DEF n
  <1>4. b[n] = c[n]
    <2>1. /\ b[0] = Begin(p, d)
          /\ \A k \in 1 .. n : b[k] = T!Step(b[k - 1], p.steps[k])
      BY <1>1, <1>2 DEF Course, n, Begin
    <2>2. /\ c[0] = Begin(p, d)
          /\ \A k \in 1 .. n : c[k] = T!Step(c[k - 1], p.steps[k])
      BY <1>1, <1>3 DEF Course
    <2>3. \A k \in 1 .. n : b[k - 1] = c[k - 1] => b[k] = c[k]
      BY <2>1, <2>2
    <2> QED BY <1>1, <2>1, <2>2, <2>3, SameCourse
  <1>5. c[n + 1] = T!Step(c[n], e)
    BY <1>1, <1>3 DEF Course
  <1> QED BY <1>2, <1>3, <1>4, <1>5

(* A single name is a single step.                                          *)
LEMMA NamedOne ==
  ASSUME NEW p, NEW d, p.steps \in Seq(STRING), Len(p.steps) = 1
  PROVE  T!Named(p, d) = T!Step(Begin(p, d), p.steps[1])
  <1>1. PICK c : Course(c, p, d) /\ T!Named(p, d) = c[1]
    BY NamedCourse, Zenon
  <1> QED BY <1>1 DEF Course

(* So does a path.                                                          *)
LEMMA NamedType ==
  ASSUME NEW p, NEW d \in T!Nodes, p.steps \in Seq(STRING)
  PROVE  T!Named(p, d) \in T!Nodes \cup {"none"}
  <1> DEFINE n == Len(p.steps)
  <1>1. PICK c : Course(c, p, d) /\ T!Named(p, d) = c[n]
    BY NamedCourse
  <1>2. n \in Nat
    OBVIOUS
  <1>3. c[0] \in T!Nodes
    BY <1>1, <1>2, TreeAssumption DEF Course, Begin, T!Nodes
  <1>4. \A k \in 1 .. n : c[k] = T!Step(c[k - 1], p.steps[k])
    BY <1>1 DEF Course
  <1> HIDE DEF n
  <1> DEFINE B == {k \in 0 .. n : c[k] \notin T!Nodes \cup {"none"}}
  <1>5. SUFFICES ASSUME B # {} PROVE FALSE
    BY <1>1, <1>2
  <1>6. PICK k \in B : \A r \in B : k <= r
    <2>1. B \subseteq Nat
      BY <1>2
    <2> QED BY <1>5, <2>1, LeastOf, Zenon
  <1>7. k \in 1 .. n /\ k - 1 \in 0 .. n /\ ~ (k <= k - 1)
    BY <1>2, <1>3
  <1>8. c[k - 1] \in T!Nodes \cup {"none"}
    BY <1>6, <1>7
  <1> QED BY <1>4, <1>7, <1>8, StepType

(* What is named does not change with the working directory if the path is  *)
(* absolute, nor as long as no kind changes.                                *)
LEMMA NamedAbsolute ==
  ASSUME NEW p, NEW d, NEW e, p.absolute PROVE T!Named(p, d) = T!Named(p, e)
  BY DEF T!Named

(* A step depends on nothing but the kinds of the nodes.                    *)
LEMMA StepSame ==
  ASSUME tKind' = tKind, NEW d, NEW s PROVE T!Step(d, s)' = T!Step(d, s)
  BY DEF T!Step, T!Kind, T!Entries, T!Nodes

(* What NamedCourse says in this state, to be said of the next one too.     *)
NamedLaw == \A p, d : p.steps \in Seq(STRING) =>
                \E c : Course(c, p, d) /\ T!Named(p, d) = c[Len(p.steps)]

(* It holds in every state.                                                 *)
LEMMA NamedLawHolds == NamedLaw
  BY NamedCourse DEF NamedLaw

(* What a path names depends on nothing but the kinds of the nodes.         *)
LEMMA NamedSame ==
  ASSUME tKind' = tKind, NEW p, NEW d, p.steps \in Seq(STRING)
  PROVE  T!Named(p, d)' = T!Named(p, d)
  <1> DEFINE n == Len(p.steps)
  <1>1. PICK b : Course(b, p, d) /\ T!Named(p, d) = b[n]
    BY NamedCourse
  <1>2. NamedLaw'
    BY NamedLawHolds, PTL
  <1>3. PICK c : Course(c, p, d)' /\ T!Named(p, d)' = c[n]
    BY <1>2 DEF NamedLaw
  <1>0. n \in Nat
    OBVIOUS
  <1> HIDE DEF n
  <1>4. /\ b[0] = Begin(p, d) /\ c[0] = Begin(p, d)
        /\ \A k \in 1 .. n : b[k] = T!Step(b[k - 1], p.steps[k])
        /\ \A k \in 1 .. n : c[k] = T!Step(c[k - 1], p.steps[k])'
    <2>1. b = [k \in 0 .. n |-> IF k = 0 THEN Begin(p, d) ELSE T!Step(b[k - 1], p.steps[k])]
      BY <1>1, Zenon DEF Course, n
    <2>2. c = [k \in 0 .. n |-> IF k = 0 THEN Begin(p, d) ELSE T!Step(c[k - 1], p.steps[k])']
      BY <1>3, StepSame, Zenon DEF Course, n, Begin
    <2>3. /\ b[0] = Begin(p, d)
          /\ \A k \in 1 .. n : b[k] = T!Step(b[k - 1], p.steps[k])
      BY <2>1, <1>0
    <2>4. /\ c[0] = Begin(p, d)
          /\ \A k \in 1 .. n : c[k] = T!Step(c[k - 1], p.steps[k])'
      BY <2>2, <1>0
    <2> QED BY <2>3, <2>4
  <1>5. \A k \in 1 .. n : b[k - 1] = c[k - 1] => b[k] = c[k]
    BY <1>4, StepSame
  <1> QED BY <1>0, <1>1, <1>3, <1>4, <1>5, SameCourse

-----------------------------------------------------------------------------
(* The walk.                                                                *)

(* What argv[1] named at first, and the last of a sequence.                 *)
TTop == T!Named(tArgv, Home)
TLast(s) == s[Len(s)]

(* The node the walk is called for, the nodes it has still to be called     *)
(* for, and those reported: shown, and no longer below a pending one.       *)
TCur == IF tStack = <<>> THEN TTop ELSE TLast(tPath.steps)
TPending == {e \in T!Nodes : \/ \E k \in DOMAIN tStack : e \in tStack[k].todo
                             \/ tPc = "call" /\ e = TCur}
Seen(top, P) == {m \in T!Shown(top) : Above[m] \cap P = {}}
TSeen == Seen(TTop, TPending)
Apart(P) == \A e, f \in P : e \in Above[f] => e = f

(* Types, as far as the proof needs them.                                   *)
TTypes ==
  /\ tKind \in [T!Nodes -> {"file", "dir", "dnr", "nox"}]
  /\ \A m \in T!Nodes : tKind[m] = "file" <=> m \in Files
  /\ tWalk \in 1 .. 3 /\ tPc \in {"start", "call", "loop", "end", "exit", "failed"}
  /\ tReport = [w \in 1 .. 3 |-> tReport[w]]
  /\ tPc # "start" => tArgv \in Arguments

(* Nothing has been walked before the program is started.                   *)
TStart == tPc = "start" => /\ tWalk = 1 /\ tStack = <<>> /\ tLevel = 0 /\ tCwd = Home
                           /\ tReport[1] = <<>>

(* The walks that are over, and those to come.                              *)
TDone(w) == T!IsInjective(tReport[w]) /\ T!ToSet(tReport[w]) = T!Expected
TPast ==
  /\ \A w \in 1 .. tWalk - 1 : w = 1 \/ T!Homing => TDone(w)
  /\ \A w \in tWalk + 1 .. 3 : tReport[w] = <<>>
  /\ tWalk > 1 /\ TTop # "none" => \A m \in T!Shown(TTop) : tKind[m] # "nox"

(* The walk that goes on, if the property is about it.                      *)
TActive == tPc \in {"call", "loop", "end", "exit"} /\ (tWalk = 1 \/ T!Homing)

(* The argument is found again: it is absolute, or the program is at home.  *)
AtHome == tArgv.absolute \/ tCwd = Home
THome ==
  /\ tStack = <<>> /\ tPc = "call" => AtHome /\ tPath = tArgv
  /\ tStack = <<>> /\ T!Homing => AtHome
  /\ tWalk = 2 => AtHome

(* argv[1] names nothing.                                                   *)
TMissing ==
  /\ tStack = <<>> /\ tLevel = 0
  /\ \/ tPc = "call" /\ tReport[tWalk] = <<>>
     \/ tPc \in {"end", "exit"} /\ tReport[tWalk] = << <<TLast(tArgv.steps), "NS", 0>> >>

(* The open directories lead down from the top.                             *)
TLevel(k) ==
  /\ tStack[k].dir \in T!Shown(TTop) /\ tKind[tStack[k].dir] = "dir"
  /\ Cardinality(T!Way(TTop, tStack[k].dir)) = k - 1
  /\ tStack[k].todo \subseteq T!Entries(tStack[k].dir)
  /\ IF k = 1 THEN tStack[k].dir = TTop ELSE tStack[k].dir \in T!Entries(tStack[k - 1].dir)

(* What is kept of an open directory, and of all of them.                   *)
Frames == [dir : T!Nodes, todo : SUBSET T!Nodes, n : Nat]
TShape ==
  /\ tStack \in Seq(Frames) /\ tLevel = Len(tStack)
  /\ tPc = "loop" => tStack # <<>>
  /\ tPc \in {"end", "exit"} => tStack = <<>>
  /\ \A k \in 1 .. Len(tStack) : TLevel(k)
  /\ tPc = "call" /\ tStack # <<>> =>
       TCur \in T!Entries(TLast(tStack).dir) \ TLast(tStack).todo

(* Where the working directory and the buffer are.                          *)
Cut(n) == [absolute |-> tPath.absolute, steps |-> SubSeq(tPath.steps, 1, n)]
TWhere ==
  tStack # <<>> =>
    /\ tWalk # 2 => /\ tCwd = TLast(tStack).dir
                    /\ tPc = "call" => tPath = [absolute |-> FALSE, steps |-> <<TCur>>]
    /\ tWalk = 2 =>
         /\ tPath \in [absolute : BOOLEAN, steps : Seq(STRING)]
         /\ tPath.absolute = tArgv.absolute
         /\ \A k \in 1 .. Len(tStack) :
              /\ tStack[k].n <= Len(tPath.steps)
              /\ \A j \in 1 .. k : tStack[j].n <= tStack[k].n
              /\ T!Named(Cut(tStack[k].n), tCwd) = tStack[k].dir
         /\ tPc = "call" => Len(tPath.steps) = TLast(tStack).n + 1

(* The types myfunc is called with when argv[1] names something.            *)
Labels == {"F", "D", "DNR"}

(* Every shown node is reported or at or below exactly one pending node.    *)
TReports ==
  /\ TPending \subseteq T!Shown(TTop)
  /\ Apart(TPending)
  /\ \A m \in TSeen : tKind[m] # "nox"
  /\ tReport[tWalk] \in Seq(STRING \X Labels \X Nat)
  /\ T!IsInjective(tReport[tWalk])
  /\ T!ToSet(tReport[tWalk]) = UNION {T!Lines(TTop, TLast(tArgv.steps), m) : m \in TSeen}

(* The walk that goes on, and the inductive invariant.                      *)
TWalking == THome /\ IF TTop = "none" THEN TMissing
                      ELSE TTop \in T!Nodes /\ TShape /\ TWhere /\ TReports
TInv == TTypes /\ TStart /\ TPast /\ (TActive => TWalking)

-----------------------------------------------------------------------------
(* Sequences without repetition.                                            *)
LEMMA AddOne ==
  ASSUME NEW A, NEW s \in Seq(A), NEW x \in A, T!IsInjective(s), x \notin T!ToSet(s)
  PROVE  /\ s \o <<x>> \in Seq(A) /\ T!IsInjective(s \o <<x>>)
         /\ T!ToSet(s \o <<x>>) = T!ToSet(s) \cup {x}
  <1> DEFINE r == s \o <<x>>
  <1>1. /\ r \in Seq(A) /\ Len(r) = Len(s) + 1 /\ Len(s) \in Nat /\ DOMAIN s = 1 .. Len(s)
        /\ DOMAIN r = 1 .. Len(s) + 1 /\ r[Len(s) + 1] = x
        /\ \A k \in 1 .. Len(s) : r[k] = s[k]
    OBVIOUS
  <1> HIDE DEF r
  <1>2. \A k \in DOMAIN s : s[k] # x
    BY DEF T!ToSet
  <1>3. T!IsInjective(r)
    BY <1>1, <1>2 DEF T!IsInjective
  <1>4. T!ToSet(r) = T!ToSet(s) \cup {x}
    BY <1>1 DEF T!ToSet
  <1> QED BY <1>1, <1>3, <1>4 DEF r

(* The same for two.                                                        *)
LEMMA AddTwo ==
  ASSUME NEW A, NEW s \in Seq(A), NEW x \in A, NEW y \in A, T!IsInjective(s), x # y,
         x \notin T!ToSet(s), y \notin T!ToSet(s)
  PROVE  /\ s \o <<x, y>> \in Seq(A) /\ T!IsInjective(s \o <<x, y>>)
         /\ T!ToSet(s \o <<x, y>>) = T!ToSet(s) \cup {x, y}
  <1> DEFINE r == s \o <<x, y>>
             n == Len(s)
  <1>1. /\ r \in Seq(A) /\ n \in Nat /\ DOMAIN s = 1 .. n
        /\ DOMAIN r = 1 .. n + 2 /\ r[n + 1] = x /\ r[n + 2] = y
        /\ \A k \in 1 .. n : r[k] = s[k]
    <2>1. <<x, y>> \in Seq(A) /\ Len(<<x, y>>) = 2
      OBVIOUS
    <2>2. r \in Seq(A) /\ Len(r) = n + 2 /\ n \in Nat
      BY <2>1, ConcatProperties
    <2>3. \A k \in 1 .. n + 2 : r[k] = IF k <= n THEN s[k] ELSE <<x, y>>[k - n]
      BY <2>1, ConcatProperties
    <2> HIDE DEF r
    <2>4. r[n + 1] = <<x, y>>[1] /\ r[n + 2] = <<x, y>>[2]
      BY <2>2, <2>3
    <2> QED BY <2>2, <2>3, <2>4
  <1> HIDE DEF r, n
  <1>2. \A k \in DOMAIN s : s[k] # x /\ s[k] # y
    BY DEF T!ToSet
  <1>3. T!IsInjective(r)
    BY <1>1, <1>2 DEF T!IsInjective
  <1>4. T!ToSet(r) = T!ToSet(s) \cup {x, y}
    BY <1>1 DEF T!ToSet
  <1> QED BY <1>1, <1>3, <1>4 DEF r

(* What becomes pending when c is visited.                                  *)
Opened(c) == IF tKind[c] = "dnr" THEN {} ELSE T!Entries(c)

(* The node c is visited: it is reported, and its entries are pending       *)
(* unless it cannot be read.                                                *)
LEMMA Visit ==
  ASSUME NEW top \in T!Nodes, NEW P, P \subseteq T!Shown(top), NEW c \in P, Apart(P),
         NEW Q, Q = (P \ {c}) \cup Opened(c)
  PROVE  /\ Q \subseteq T!Shown(top) /\ Apart(Q)
         /\ Seen(top, Q) = Seen(top, P) \cup {c} /\ c \notin Seen(top, P)
  <1>0. /\ c \in T!Nodes /\ c \in Above[c] /\ top \in Above[c] /\ T!Shown(top) \subseteq T!Nodes
        /\ \A m \in T!Shown(top) : top \in Above[m]
        /\ \A a \in T!Way(top, c) : tKind[a] # "dnr"
    BY AboveFacts DEF T!Shown
  <1>1. \A e \in T!Entries(c) : /\ e \in T!Nodes /\ c \in Above[e] /\ Above[e] = {e} \cup Above[c]
                                /\ e \notin Above[c]
    BY <1>0, EntryFacts
  <1> USE DEF Opened, Apart
  <1>2. Q \subseteq T!Shown(top)
    <2>1. ASSUME NEW e \in T!Entries(c), tKind[c] # "dnr" PROVE e \in T!Shown(top)
      <3>1. top \in Above[e] /\ T!Way(top, e) = T!Way(top, c) \cup {c}
        BY <1>0, WayFacts
      <3> QED BY <1>0, <1>1, <2>1, <3>1 DEF T!Shown
    <2> QED BY <2>1
  <1>3. \A e, f \in Q : e \in Above[f] => e = f
    <2>1. SUFFICES ASSUME NEW e \in Q, NEW f \in Q, e \in Above[f] PROVE e = f
      OBVIOUS
    <2>2. f \in T!Nodes /\ e \in T!Nodes
      BY <1>0, <1>2
    <2>3. CASE e \in P /\ e # c /\ f \in P
      BY <2>1, <2>3
    <2>4. CASE e \in P /\ e # c /\ f \in T!Entries(c)
      BY <1>1, <2>1, <2>4
    <2>5. CASE e \in T!Entries(c) /\ f \in P /\ f # c
      <3>1. c \in Above[f]
        BY <1>1, <2>1, <2>2, <2>5, AboveTransitive
      <3> QED BY <2>5, <3>1
    <2>6. CASE e \in T!Entries(c) /\ f \in T!Entries(c)
      BY <1>1, <2>1, <2>6
    <2> QED BY <2>3, <2>4, <2>5, <2>6
  <1>4. c \in Seen(top, Q)
    <2>1. ASSUME NEW e \in Q, e \in Above[c] PROVE FALSE
      BY <1>1, <2>1
    <2> QED BY <2>1 DEF Seen
  <1>5. Seen(top, P) \subseteq Seen(top, Q)
    <2>1. SUFFICES ASSUME NEW m \in Seen(top, P), NEW e \in T!Entries(c), e \in Above[m] PROVE FALSE
      BY DEF Seen
    <2>2. m \in T!Nodes /\ c \notin Above[m]
      BY <1>0 DEF Seen
    <2>3. c \in Above[m]
      BY <1>1, <2>1, <2>2, AboveTransitive
    <2> QED BY <2>2, <2>3
  <1>6. ASSUME NEW m \in Seen(top, Q), m # c PROVE m \in Seen(top, P)
    <2>1. m \in T!Shown(top) /\ m \in T!Nodes /\ Above[m] \cap Q = {}
      BY <1>0 DEF Seen
    <2>2. SUFFICES ASSUME c \in Above[m] PROVE FALSE
      BY <2>1 DEF Seen
    <2>3. PICK e \in T!Entries(c) : e \in Above[m]
      BY <1>6, <2>1, <2>2, EntryTowards
    <2>4. tKind[c] # "dnr"
      BY <1>0, <1>6, <2>1, <2>2 DEF T!Shown, T!Way
    <2> QED BY <2>1, <2>3, <2>4
  <1>7. c \notin Seen(top, P)
    BY <1>0 DEF Seen
  <1> QED BY <1>2, <1>3, <1>4, <1>5, <1>6, <1>7, Zenon

(* The instance has a Cardinality of its own.                               *)
LEMMA LineOf ==
  ASSUME NEW top, NEW last, NEW m
  PROVE  T!Lines(top, last, m) =
           {<<IF m = top THEN last ELSE m, t, Cardinality(T!Way(top, m))>> : t \in T!Types(m)}
  <1>1. \A x : T!Cardinality(x) = Cardinality(x)
    BY Zenon DEF T!Cardinality, Cardinality
  <1> QED BY <1>1 DEF T!Lines

(* No two nodes have a line in common.                                      *)
LEMMA LinesDiffer ==
  ASSUME NEW top \in T!Nodes, NEW last, NEW M \in SUBSET T!Shown(top),
         NEW c \in T!Shown(top), c \notin M, NEW x \in T!Lines(top, last, c)
  PROVE  x \notin UNION {T!Lines(top, last, m) : m \in M}
  <1>1. SUFFICES ASSUME NEW m \in M, x \in T!Lines(top, last, m) PROVE FALSE
    OBVIOUS
  <1>2. m \in T!Nodes /\ c \in T!Nodes /\ top \in Above[m] /\ top \in Above[c] /\ m # c
    BY DEF T!Shown
  <1>3. Cardinality(T!Way(top, m)) = Cardinality(T!Way(top, c))
    BY <1>1, LineOf
  <1>4. m # top /\ c # top
    <2>1. /\ Cardinality(T!Way(top, top)) = 0
          /\ m # top => Cardinality(T!Way(top, m)) > 0
          /\ c # top => Cardinality(T!Way(top, c)) > 0
      BY <1>2, WayFacts
    <2> QED BY <1>2, <1>3, <2>1
  <1> QED BY <1>1, <1>2, <1>4, LineOf

-----------------------------------------------------------------------------
(* argv[1].                                                                 *)
LEMMA ArgvFacts ==
  ASSUME tArgv \in Arguments
  PROVE  /\ tArgv.steps \in Seq(STRING) /\ Len(tArgv.steps) \in Nat \ {0}
         /\ tArgv.absolute \in BOOLEAN /\ TLast(tArgv.steps) \in STRING
         /\ TTop \in T!Nodes \cup {"none"}
         /\ AtHome => T!Named(tArgv, tCwd) = TTop
  <1>1. /\ tArgv.steps \in Seq(STRING) /\ tArgv.steps # <<>>
        /\ tArgv.absolute \in BOOLEAN /\ Home \in T!Nodes
    BY TreeAssumption, Zenon DEF T!Nodes
  <1>2. Len(tArgv.steps) \in Nat \ {0} /\ TLast(tArgv.steps) \in STRING
    BY <1>1 DEF TLast
  <1>3. TTop \in T!Nodes \cup {"none"}
    BY <1>1, NamedType DEF TTop
  <1>4. AtHome => T!Named(tArgv, tCwd) = TTop
    BY NamedAbsolute DEF AtHome, TTop
  <1> QED BY <1>1, <1>2, <1>3, <1>4

(* What argv[1] names, and what is shown of it, stays.                      *)
LEMMA SameTree ==
  ASSUME tArgv \in Arguments, UNCHANGED <<tKind, tArgv>>
  PROVE  /\ TTop' = TTop /\ \A x : T!Shown(x)' = T!Shown(x)
         /\ \A x, y, z : T!Lines(x, y, z)' = T!Lines(x, y, z)
         /\ \A x, y : Seen(x, y)' = Seen(x, y)
         /\ T!Homing' = T!Homing /\ T!Expected' = T!Expected
  <1>1. TTop' = TTop
    <2>1. T!Named(tArgv, Home)' = T!Named(tArgv, Home)
      <3>1. PICK q : q = tArgv
        OBVIOUS
      <3>2. T!Named(q, Home)' = T!Named(q, Home)
        BY <3>1, ArgvFacts, NamedSame
      <3>3. T!Named(tArgv, Home)' = T!Named(q, Home)'
        BY <3>1
      <3> QED BY <3>1, <3>2, <3>3
    <2> QED BY <2>1 DEF TTop
  <1>2. \A x : T!Shown(x)' = T!Shown(x)
    BY DEF T!Shown, T!Way, T!Nodes
  <1>3. \A x, y, z : T!Lines(x, y, z)' = T!Lines(x, y, z)
    BY DEF T!Lines, T!Way, T!Types
  <1>4. \A x, y : Seen(x, y)' = Seen(x, y)
    BY <1>2 DEF Seen
  <1>5. T!Homing' = T!Homing
    BY DEF T!Homing
  <1>6. T!Expected' = T!Expected
    BY <1>1, <1>2, <1>3, Zenon DEF T!Expected, TTop, T!Last
  <1> QED BY <1>1, <1>2, <1>3, <1>4, <1>5, <1>6

(* What is kept of one of the open directories.                             *)
LEMMA FrameType ==
  ASSUME tStack \in Seq(Frames), NEW k \in 1 .. Len(tStack)
  PROVE  tStack[k] \in Frames /\ tStack[k].n \in Nat /\ tStack[k].dir \in T!Nodes
  <1>1. tStack[k] \in Frames
    BY ElementOfSeq
  <1> QED BY <1>1 DEF Frames

(* A call, at any level and in each walk: the path names the node that is   *)
(* next, and what is reported is the node's line.                           *)
LEMMA CallFacts ==
  ASSUME TTypes, TWalking, tPc = "call", TTop # "none"
  PROVE  /\ T!Target = TCur /\ TCur \in T!Shown(TTop) /\ TCur \in T!Nodes /\ TCur \in TPending
         /\ \A t : T!Entry(t) = <<IF TCur = TTop THEN TLast(tArgv.steps) ELSE TCur, t,
                                  Cardinality(T!Way(TTop, TCur))>>
         /\ Cardinality(T!Way(TTop, TCur)) = Len(tStack)
         /\ \A k \in 1 .. Len(tStack) : TCur \notin tStack[k].todo
  <1>0. /\ tArgv \in Arguments /\ THome /\ TTop \in T!Nodes /\ TShape /\ TWhere
        /\ TPending \subseteq T!Shown(TTop) /\ T!Shown(TTop) \subseteq T!Nodes
    BY DEF TTypes, TWalking, TReports, T!Shown
  <1>1. TCur \in T!Nodes => TCur \in TPending
    BY DEF TPending
  <1>2. CASE tStack = <<>>
    <2>1. TCur = TTop /\ tPath = tArgv /\ AtHome /\ tLevel = 0
      BY <1>0, <1>2 DEF TCur, THome, TShape
    <2>2. T!Target = TCur
      BY <1>0, <2>1, ArgvFacts DEF T!Target
    <2>3. TTop \in Above[TTop] /\ Cardinality(T!Way(TTop, TTop)) = 0
      BY <1>0, AboveFacts, WayFacts
    <2>4. \A t : T!Entry(t) = <<TLast(tArgv.steps), t, 0>>
      BY <2>1 DEF T!Entry, T!Last, TLast
    <2> QED BY <1>0, <1>1, <1>2, <2>1, <2>2, <2>3, <2>4
  <1>3. CASE tStack # <<>>
    <2> DEFINE n == Len(tStack)
               d == tStack[n].dir
    <2>1. /\ n \in Nat \ {0} /\ tLevel = n /\ \A k \in 1 .. n : TLevel(k)
          /\ TCur \in T!Entries(d) \ tStack[n].todo /\ TCur = TLast(tPath.steps)
      BY <1>0, <1>3 DEF TShape, TLast, TCur
    <2>2. \A k \in 1 .. n : /\ tStack[k].dir \in T!Shown(TTop) /\ tKind[tStack[k].dir] = "dir"
                            /\ Cardinality(T!Way(TTop, tStack[k].dir)) = k - 1
                            /\ tStack[k].todo \subseteq T!Entries(tStack[k].dir)
      BY <2>1 DEF TLevel
    <2>3. /\ d \in T!Shown(TTop) /\ tKind[d] = "dir" /\ Cardinality(T!Way(TTop, d)) = n - 1
          /\ d \in T!Nodes /\ TTop \in Above[d]
      BY <2>1, <2>2 DEF T!Shown
    <2> HIDE DEF d
    <2>4. TCur \in T!Nodes /\ Cardinality(T!Way(TTop, TCur)) = n /\ TCur # TTop
      <3>1. TCur \in T!Nodes
        BY <2>1, <2>3, EntryFacts
      <3>2. Cardinality(T!Way(TTop, TCur)) = Cardinality(T!Way(TTop, d)) + 1
            /\ Cardinality(T!Way(TTop, TTop)) = 0
        BY <1>0, <2>1, <2>3, WayFacts
      <3> QED BY <2>1, <2>3, <3>1, <3>2
    <2>5. T!Target = TCur
      <3>1. T!Step(d, TCur) = TCur
        BY <2>1, <2>3, StepToEntry
      <3>2. TCur \in STRING
        BY <2>4, TreeAssumption DEF T!Nodes
      <3>3. CASE tWalk # 2
        <4>1. tCwd = d /\ tPath = [absolute |-> FALSE, steps |-> <<TCur>>]
          BY <1>0, <1>3, <3>3 DEF TWhere, TLast, d
        <4>2. /\ tPath.steps \in Seq(STRING) /\ Len(tPath.steps) = 1
              /\ tPath.steps[1] = TCur /\ Begin(tPath, tCwd) = d
          BY <4>1, <3>2 DEF Begin
        <4> QED BY <3>1, <4>2, NamedOne DEF T!Target
      <3>4. CASE tWalk = 2
        <4> DEFINE c == tStack[n].n
                   p == Cut(c)
        <4>1. /\ tPath.steps \in Seq(STRING) /\ Len(tPath.steps) = c + 1 /\ c \in Nat
              /\ T!Named(p, tCwd) = d
          <5>2. c \in Nat
            BY <1>0, <2>1, FrameType DEF TShape
          <5>3. /\ tPath \in [absolute : BOOLEAN, steps : Seq(STRING)]
                /\ T!Named(Cut(tStack[n].n), tCwd) = tStack[n].dir
                /\ Len(tPath.steps) = tStack[n].n + 1
            BY <1>0, <1>3, <2>1, <3>4 DEF TWhere, TLast
          <5> QED BY <5>2, <5>3 DEF d
        <4>2. /\ p.steps \in Seq(STRING) /\ p.absolute = tPath.absolute
              /\ tPath.steps = Append(p.steps, TCur)
          <5> HIDE DEF c
          <5>1. /\ p.steps = SubSeq(tPath.steps, 1, c) /\ p.absolute = tPath.absolute
                /\ tPath.steps[c + 1] = TCur
            BY <2>1, <4>1 DEF Cut, TLast
          <5> HIDE DEF p
          <5>2. /\ p.steps \in Seq(STRING) /\ Len(p.steps) = c
                /\ \A k \in 1 .. c : p.steps[k] = tPath.steps[k]
            BY <4>1, <5>1
          <5> QED BY <3>2, <4>1, <5>1, <5>2
        <4> HIDE DEF p
        <4> QED BY <3>1, <3>2, <4>1, <4>2, NamedAppend DEF T!Target
      <3> QED BY <3>3, <3>4
    <2>6. \A t : T!Entry(t) = <<TCur, t, n>>
      BY <2>1 DEF T!Entry, T!Last, TLast
    <2>7. \A k \in 1 .. n : TCur \notin tStack[k].todo
      <3>1. SUFFICES ASSUME NEW k \in 1 .. n, TCur \in tStack[k].todo PROVE FALSE
        OBVIOUS
      <3>2. tStack[k].dir = d
        BY <2>1, <2>2, <3>1 DEF T!Entries
      <3> QED BY <2>1, <2>2, <2>3, <3>1, <3>2
    <2> QED BY <1>0, <1>1, <2>4, <2>5, <2>6, <2>7
  <1> QED BY <1>2, <1>3

(* The lines of the node that is called are new.                            *)
LEMMA ReportOne ==
  ASSUME TTypes, TWalking, tPc = "call", TTop # "none", NEW t \in Labels, T!Types(TCur) = {t},
         NEW r, r = tReport[tWalk] \o <<T!Entry(t)>>
  PROVE  /\ r \in Seq(STRING \X Labels \X Nat) /\ T!IsInjective(r)
         /\ T!ToSet(r) = T!ToSet(tReport[tWalk]) \cup T!Lines(TTop, TLast(tArgv.steps), TCur)
  <1> DEFINE A == STRING \X Labels \X Nat
             s == tReport[tWalk]
             L == T!Lines(TTop, TLast(tArgv.steps), TCur)
  <1>1. /\ tArgv \in Arguments /\ TTop \in T!Nodes /\ TReports
    BY DEF TTypes, TWalking
  <1>2. s \in Seq(A) /\ T!IsInjective(s)
        /\ T!ToSet(s) = UNION {T!Lines(TTop, TLast(tArgv.steps), m) : m \in TSeen}
    BY <1>1 DEF TReports
  <1>3. L = {T!Entry(t)}
    BY CallFacts, LineOf, Zenon
  <1>4. T!Entry(t) \in A
    <2>1. /\ TCur \in STRING /\ TLast(tArgv.steps) \in STRING
          /\ Cardinality(T!Way(TTop, TCur)) \in Nat
      BY <1>1, CallFacts, ArgvFacts, WayFacts, TreeAssumption DEF T!Nodes, T!Shown
    <2> QED BY <2>1, CallFacts
  <1>5. T!Entry(t) \notin T!ToSet(s)
    <2>1. TCur \notin TSeen /\ TSeen \subseteq T!Shown(TTop) /\ TCur \in T!Shown(TTop)
      BY CallFacts, AboveFacts DEF TSeen, Seen
    <2>2. PICK x : x = T!Entry(t)
      OBVIOUS
    <2>3. x \in T!Lines(TTop, TLast(tArgv.steps), TCur)
      BY <1>3, <2>2
    <2>4. x \notin T!ToSet(s)
      BY <1>1, <1>2, <2>1, <2>3, LinesDiffer
    <2> QED BY <2>2, <2>4
  <1> HIDE DEF s, A, L
  <1>6. /\ s \o <<T!Entry(t)>> \in Seq(A) /\ T!IsInjective(s \o <<T!Entry(t)>>)
        /\ T!ToSet(s \o <<T!Entry(t)>>) = T!ToSet(s) \cup {T!Entry(t)}
    BY <1>2, <1>4, <1>5, AddOne
  <1> QED BY <1>3, <1>6 DEF s, A, L

(* The two lines of a directory that cannot be read are new.                *)
LEMMA ReportTwo ==
  ASSUME TTypes, TWalking, tPc = "call", TTop # "none",
         NEW t \in Labels, NEW u \in Labels, t # u, T!Types(TCur) = {t, u},
         NEW r, r = tReport[tWalk] \o <<T!Entry(t), T!Entry(u)>>
  PROVE  /\ r \in Seq(STRING \X Labels \X Nat) /\ T!IsInjective(r)
         /\ T!ToSet(r) = T!ToSet(tReport[tWalk]) \cup T!Lines(TTop, TLast(tArgv.steps), TCur)
  <1> DEFINE A == STRING \X Labels \X Nat
             s == tReport[tWalk]
             L == T!Lines(TTop, TLast(tArgv.steps), TCur)
             x == T!Entry(t)
             y == T!Entry(u)
  <1>1. /\ tArgv \in Arguments /\ TTop \in T!Nodes /\ TReports
    BY DEF TTypes, TWalking
  <1>2. s \in Seq(A) /\ T!IsInjective(s)
        /\ T!ToSet(s) = UNION {T!Lines(TTop, TLast(tArgv.steps), m) : m \in TSeen}
    BY <1>1 DEF TReports
  <1>3. L = {x, y} /\ x # y
    <2> DEFINE name == IF TCur = TTop THEN TLast(tArgv.steps) ELSE TCur
               far == Cardinality(T!Way(TTop, TCur))
    <2>1. x = <<name, t, far>> /\ y = <<name, u, far>>
      BY CallFacts
    <2>2. L = {<<name, z, far>> : z \in {t, u}}
      BY LineOf
    <2> HIDE DEF name, far, x, y, L
    <2> QED BY <2>1, <2>2
  <1>4. x \in A /\ y \in A
    <2>1. /\ TCur \in STRING /\ TLast(tArgv.steps) \in STRING
          /\ Cardinality(T!Way(TTop, TCur)) \in Nat
      BY <1>1, CallFacts, ArgvFacts, WayFacts, TreeAssumption DEF T!Nodes, T!Shown
    <2> QED BY <2>1, CallFacts
  <1>5. x \notin T!ToSet(s) /\ y \notin T!ToSet(s)
    <2>1. TCur \notin TSeen /\ TSeen \subseteq T!Shown(TTop) /\ TCur \in T!Shown(TTop)
      BY CallFacts, AboveFacts DEF TSeen, Seen
    <2>2. x \in T!Lines(TTop, TLast(tArgv.steps), TCur) /\ y \in T!Lines(TTop, TLast(tArgv.steps), TCur)
      BY <1>3
    <2> HIDE DEF x, y
    <2>3. x \notin T!ToSet(s)
      BY <1>1, <1>2, <2>1, <2>2, LinesDiffer
    <2>4. y \notin T!ToSet(s)
      BY <1>1, <1>2, <2>1, <2>2, LinesDiffer
    <2> QED BY <2>3, <2>4
  <1> HIDE DEF s, A, L, x, y
  <1>6. /\ s \o <<x, y>> \in Seq(A) /\ T!IsInjective(s \o <<x, y>>)
        /\ T!ToSet(s \o <<x, y>>) = T!ToSet(s) \cup {x, y}
    BY <1>2, <1>3, <1>4, <1>5, AddTwo, SMTT(30)
  <1> QED BY <1>3, <1>6, Zenon DEF s, A, L, x, y

(* TReports after a call.                                                   *)
LEMMA VisitStep ==
  ASSUME TTypes, TWalking, tPc = "call", TTop # "none", UNCHANGED <<tKind, tArgv, tWalk>>,
         tKind[TCur] # "nox",
         TPending' = (TPending \ {TCur}) \cup Opened(TCur),
         tReport'[tWalk] \in Seq(STRING \X Labels \X Nat), T!IsInjective(tReport'[tWalk]),
         T!ToSet(tReport'[tWalk]) =
           T!ToSet(tReport[tWalk]) \cup T!Lines(TTop, TLast(tArgv.steps), TCur)
  PROVE  TReports'
  <1>0. /\ tArgv \in Arguments /\ TTop \in T!Nodes /\ TReports
    BY DEF TTypes, TWalking
  <1>1. PICK Q : Q = TPending'
    BY Zenon
  <1>2. /\ TPending \subseteq T!Shown(TTop) /\ Apart(TPending)
        /\ TCur \in TPending
    BY <1>0, CallFacts DEF TReports
  <1>3. /\ Q \subseteq T!Shown(TTop) /\ Apart(Q)
        /\ Seen(TTop, Q) = TSeen \cup {TCur}
    <2>1. Q = (TPending \ {TCur}) \cup Opened(TCur)
      BY <1>1
    <2> QED BY <1>0, <1>2, <2>1, Visit DEF TSeen
  <1>4. TSeen' = TSeen \cup {TCur}
    BY <1>0, <1>1, <1>3, SameTree, Zenon DEF TSeen
  <1>5. \A m \in TSeen' : tKind'[m] # "nox"
    BY <1>0, <1>4 DEF TReports
  <1>6. TPending' \subseteq T!Shown(TTop)' /\ Apart(TPending')
    BY <1>0, <1>1, <1>3, SameTree
  <1>7. T!ToSet(tReport'[tWalk]) =
          UNION {T!Lines(TTop, TLast(tArgv.steps), m) : m \in TSeen \cup {TCur}}
    BY <1>0 DEF TReports
  <1>8. T!ToSet(tReport'[tWalk]) = UNION {T!Lines(TTop, TLast(tArgv.steps), m)' : m \in TSeen'}
    BY <1>0, <1>4, <1>7, SameTree
  <1> QED BY <1>5, <1>6, <1>8 DEF TReports

-----------------------------------------------------------------------------
(* The steps of a walk leave the tree and the other walks alone.            *)
LEMMA OtherWalks ==
  ASSUME TTypes, TPast, tPc # "start", UNCHANGED <<tKind, tArgv, tWalk>>,
         tPc' \in {"call", "loop", "end", "exit", "failed"},
         tReport' = [w \in 1 .. 3 |-> tReport'[w]],
         \A w \in 1 .. 3 : w # tWalk => tReport'[w] = tReport[w]
  PROVE  TTypes' /\ TStart' /\ TPast'
  <1>1. tArgv \in Arguments /\ tWalk \in 1 .. 3
    BY DEF TTypes
  <1>2. TTypes'
    BY DEF TTypes
  <1>3. TStart'
    BY DEF TStart
  <1>4. ASSUME NEW w \in 1 .. 3, w # tWalk PROVE TDone(w)' = TDone(w)
    BY <1>1, <1>4, SameTree DEF TDone
  <1>5. TPast'
    <2>1. \A w \in 1 .. tWalk - 1 : w = 1 \/ T!Homing' => TDone(w)'
      BY <1>1, <1>4, SameTree DEF TPast
    <2>2. \A w \in tWalk + 1 .. 3 : tReport'[w] = <<>>
      BY <1>1 DEF TPast
    <2>3. tWalk > 1 /\ TTop' # "none" => \A m \in T!Shown(TTop)' : tKind'[m] # "nox"
      BY <1>1, SameTree DEF TPast
    <2> QED BY <2>1, <2>2, <2>3 DEF TPast
  <1> QED BY <1>2, <1>3, <1>5

(* What a part of the buffer names stays, as long as the part does.         *)
LEMMA NamedKept ==
  ASSUME UNCHANGED <<tKind, tCwd>>, NEW n, Cut(n)' = Cut(n), Cut(n).steps \in Seq(STRING)
  PROVE  T!Named(Cut(n), tCwd)' = T!Named(Cut(n), tCwd)
  <1>1. PICK p, d : p = Cut(n) /\ d = tCwd
    OBVIOUS
  <1>2. T!Named(p, d)' = T!Named(p, d)
    BY <1>1, NamedSame
  <1>3. T!Named(Cut(n), tCwd)' = T!Named(p, d)'
    BY <1>1
  <1> QED BY <1>1, <1>2, <1>3

(* Buffers that agree up to a point have the same part up to there.         *)
LEMMA SameCut ==
  ASSUME NEW s \in Seq(STRING), NEW u \in Seq(STRING), NEW i \in Nat, i <= Len(s), i <= Len(u),
         \A x \in 1 .. i : u[x] = s[x]
  PROVE  SubSeq(u, 1, i) = SubSeq(s, 1, i) /\ SubSeq(s, 1, i) \in Seq(STRING)
  OBVIOUS

(* TReports where nothing is reported and nothing else becomes pending.     *)
LEMMA SameReports ==
  ASSUME TReports, tArgv \in Arguments, UNCHANGED <<tKind, tArgv, tWalk, tReport>>,
         TPending' = TPending
  PROVE  TReports'
  <1>1. TSeen' = TSeen /\ T!Shown(TTop)' = T!Shown(TTop)
    BY SameTree DEF TSeen
  <1>2. UNION {T!Lines(TTop, TLast(tArgv.steps), m)' : m \in TSeen'}
          = UNION {T!Lines(TTop, TLast(tArgv.steps), m) : m \in TSeen}
    BY <1>1, SameTree
  <1> QED BY <1>1, <1>2 DEF TReports

(* A call returns: the buffer, the working directory and the open           *)
(* directories are as before.                                               *)
LEMMA ReturnKeeps ==
  ASSUME TTypes, TWalking, TTop # "none", tPc = "call",
         UNCHANGED <<tKind, tArgv, tWalk, tPath, tCwd, tStack, tLevel>>,
         tPc' = IF tStack = <<>> THEN "end" ELSE "loop"
  PROVE  THome' /\ TTop' # "none" /\ TTop' \in T!Nodes /\ TShape' /\ TWhere'
         /\ TPending' = TPending \ {TCur}
  <1>0. tArgv \in Arguments /\ TTop \in T!Nodes /\ THome /\ TShape /\ TWhere /\ TTop' = TTop
    BY SameTree DEF TTypes, TWalking
  <1>1. THome'
    BY <1>0, SameTree DEF THome, AtHome
  <1>2. TShape'
    <2>1. \A k \in 1 .. Len(tStack) : TLevel(k)'
      BY <1>0, SameTree DEF TShape, TLevel
    <2>2. tStack' \in Seq(Frames)' /\ tLevel' = Len(tStack')
      BY <1>0 DEF TShape, Frames
    <2>3. tPc' # "call" /\ (tPc' = "loop" => tStack # <<>>) /\ (tPc' \in {"end", "exit"} => tStack = <<>>)
      OBVIOUS
    <2> QED BY <2>1, <2>2, <2>3 DEF TShape
  <1>3. TWhere'
    <2>1. CASE tStack = <<>>
      BY <2>1 DEF TWhere
    <2>2. CASE tStack # <<>> /\ tWalk # 2
      BY <1>0, <2>2 DEF TWhere
    <2>3. CASE tStack # <<>> /\ tWalk = 2
      <3>1. /\ tPath \in [absolute : BOOLEAN, steps : Seq(STRING)]
            /\ tPath.absolute = tArgv.absolute
        BY <1>0, <2>3 DEF TWhere
      <3>2. ASSUME NEW k \in 1 .. Len(tStack)
            PROVE  /\ tStack[k].n <= Len(tPath.steps)
                   /\ \A j \in 1 .. k : tStack[j].n <= tStack[k].n
                   /\ (T!Named(Cut(tStack[k].n), tCwd) = tStack[k].dir)'
        <4>1. /\ tStack[k].n <= Len(tPath.steps)
              /\ \A j \in 1 .. k : tStack[j].n <= tStack[k].n
              /\ T!Named(Cut(tStack[k].n), tCwd) = tStack[k].dir
              /\ tStack[k].n \in Nat
          BY <1>0, <2>3, <3>2, FrameType DEF TWhere, TShape
        <4>2. PICK n \in Nat : n = tStack[k].n
          BY <4>1
        <4>3. Cut(n)' = Cut(n) /\ Cut(n).steps \in Seq(STRING)
          BY <3>1, <4>1, <4>2 DEF Cut
        <4>4. T!Named(Cut(n), tCwd)' = T!Named(Cut(n), tCwd)
          BY <4>3, NamedKept
        <4> QED BY <4>1, <4>2, <4>4
      <3> QED BY <2>3, <3>1, <3>2 DEF TWhere
    <2> QED BY <2>1, <2>2, <2>3
  <1>4. TPending' = TPending \ {TCur}
    <2>1. \A k \in 1 .. Len(tStack) : TCur \notin tStack[k].todo
      BY CallFacts
    <2>2. DOMAIN tStack = 1 .. Len(tStack)
      BY <1>0 DEF TShape
    <2> QED BY <2>1, <2>2 DEF TPending, T!Nodes
  <1> QED BY <1>0, <1>1, <1>2, <1>3, <1>4

(* A report is put behind the others of its walk.                           *)
LEMMA ReportsFacts ==
  ASSUME TTypes, NEW types, T!Reports(types)
  PROVE  /\ tReport' = [w \in 1 .. 3 |-> tReport'[w]]
         /\ \A w \in 1 .. 3 : w # tWalk => tReport'[w] = tReport[w]
         /\ tReport'[tWalk] = tReport[tWalk] \o types
  <1>1. tWalk \in 1 .. 3 /\ tReport = [w \in 1 .. 3 |-> tReport[w]]
    BY DEF TTypes
  <1> QED BY <1>1, Zenon DEF T!Reports

(* argv[1] names nothing: so the call finds.                                *)
LEMMA MissingCall ==
  ASSUME TTypes, TWalking, TTop = "none", tPc = "call"
  PROVE  /\ T!Target = "none" /\ T!Kind(T!Target) = "missing" /\ tStack = <<>> /\ tLevel = 0
         /\ tReport[tWalk] = <<>> /\ tPath = tArgv
  <1>1. /\ tArgv \in Arguments /\ tStack = <<>> /\ tLevel = 0 /\ tReport[tWalk] = <<>> /\ THome
    BY DEF TTypes, TWalking, TMissing
  <1>2. T!Target = "none" /\ tPath = tArgv
    BY <1>1, ArgvFacts DEF THome, T!Target
  <1> QED BY <1>1, <1>2 DEF T!Kind, T!None

(* A directory that is a parent is no file.                                 *)
LEMMA FilesHaveNoEntries ==
  ASSUME NEW m \in Files PROVE T!Entries(m) = {}
  BY TreeAssumption DEF T!Entries, T!Nodes

(* lstat fails, or finds no directory: one line, and the call returns.      *)
LEMMA TNoDirectory == ASSUME TInv, T!NoDirectory PROVE TInv'
  <1>0. /\ TTypes /\ TPast /\ tPc = "call" /\ T!Kind(T!Target) \in {"missing", "file"}
        /\ UNCHANGED <<tKind, tArgv, tWalk, tPath, tCwd, tStack, tLevel>>
        /\ tPc' = IF tStack = <<>> THEN "end" ELSE "loop"
        /\ T!Reports(<<T!Entry(IF T!Target = "none" THEN "NS" ELSE "F")>>)
    BY DEF TInv, T!NoDirectory, T!Return, T!None
  <1>1. TTypes' /\ TStart' /\ TPast'
    <2>1. tPc' \in {"call", "loop", "end", "exit", "failed"}
      BY <1>0
    <2> QED BY <1>0, <2>1, ReportsFacts, OtherWalks
  <1>2. SUFFICES ASSUME TActive' PROVE TWalking'
    BY <1>1 DEF TInv
  <1>3. TWalking /\ tArgv \in Arguments
    BY <1>0, <1>2, SameTree DEF TInv, TActive, TTypes
  <1>4. CASE TTop = "none"
    <2>1. /\ T!Target = "none" /\ tStack = <<>> /\ tLevel = 0 /\ tReport[tWalk] = <<>>
          /\ tPath = tArgv
      BY <1>0, <1>3, <1>4, MissingCall
    <2>2. T!Entry("NS") = <<TLast(tArgv.steps), "NS", 0>>
      BY <2>1 DEF T!Entry, T!Last, TLast
    <2>3. tReport'[tWalk] = <<T!Entry("NS")>>
      BY <1>0, <2>1, ReportsFacts
    <2>4. TMissing' /\ THome' /\ TTop' = "none"
      BY <1>0, <1>3, <1>4, <2>1, <2>2, <2>3, SameTree DEF TMissing, TLast, THome, AtHome, TWalking
    <2> QED BY <2>4 DEF TWalking
  <1>5. CASE TTop # "none"
    <2>1. T!Target = TCur /\ TCur \in T!Nodes /\ TCur # "none"
      BY <1>0, <1>3, <1>5, CallFacts, TreeAssumption DEF T!Nodes
    <2>2. tKind[TCur] = "file" /\ TCur \in Files
      BY <1>0, <2>1 DEF T!Kind, T!None, TTypes
    <2>3. T!Types(TCur) = {"F"} /\ Opened(TCur) = {}
      BY <2>2, FilesHaveNoEntries DEF T!Types, Opened
    <2>4. PICK r : r = tReport'[tWalk]
      OBVIOUS
    <2>5. r = tReport[tWalk] \o <<T!Entry("F")>>
      BY <1>0, <2>1, <2>4, ReportsFacts, Zenon
    <2>6. /\ r \in Seq(STRING \X Labels \X Nat) /\ T!IsInjective(r)
          /\ T!ToSet(r) = T!ToSet(tReport[tWalk]) \cup T!Lines(TTop, TLast(tArgv.steps), TCur)
      <3>1. "F" \in Labels
        BY DEF Labels
      <3> QED BY <1>0, <1>3, <1>5, <2>3, <2>5, <3>1, ReportOne, Zenon
    <2>7. THome' /\ TTop' # "none" /\ TTop' \in T!Nodes /\ TShape' /\ TWhere'
          /\ TPending' = (TPending \ {TCur}) \cup Opened(TCur)
      BY <1>0, <1>3, <1>5, <2>3, ReturnKeeps
    <2>8. TReports'
      BY <1>0, <1>3, <1>5, <2>2, <2>4, <2>6, <2>7, VisitStep
    <2> QED BY <2>7, <2>8 DEF TWalking, T!Nodes
  <1> QED BY <1>4, <1>5

(* opendir fails: two lines, and the call returns.                          *)
LEMMA TUnreadable == ASSUME TInv, T!Unreadable PROVE TInv'
  <1>0. /\ TTypes /\ TPast /\ tPc = "call" /\ T!Kind(T!Target) = "dnr"
        /\ UNCHANGED <<tKind, tArgv, tWalk, tPath, tCwd, tStack, tLevel>>
        /\ tPc' = IF tStack = <<>> THEN "end" ELSE "loop"
        /\ T!Reports(<<T!Entry("D"), T!Entry("DNR")>>)
    BY DEF TInv, T!Unreadable, T!Return
  <1>1. TTypes' /\ TStart' /\ TPast'
    <2>1. tPc' \in {"call", "loop", "end", "exit", "failed"}
      BY <1>0
    <2> QED BY <1>0, <2>1, ReportsFacts, OtherWalks
  <1>2. SUFFICES ASSUME TActive' PROVE TWalking'
    BY <1>1 DEF TInv
  <1>3. TWalking /\ tArgv \in Arguments /\ TTop # "none"
    BY <1>0, <1>2, SameTree, MissingCall DEF TInv, TActive, TTypes
  <1>4. T!Target = TCur /\ TCur \in T!Nodes /\ TCur # "none"
    BY <1>0, <1>3, CallFacts, TreeAssumption DEF T!Nodes
  <1>5. tKind[TCur] = "dnr"
    BY <1>0, <1>4 DEF T!Kind, T!None
  <1>6. T!Types(TCur) = {"D", "DNR"} /\ Opened(TCur) = {}
    BY <1>5 DEF T!Types, Opened
  <1>7. PICK r : r = tReport'[tWalk]
    OBVIOUS
  <1>8. r = tReport[tWalk] \o <<T!Entry("D"), T!Entry("DNR")>>
    BY <1>0, <1>7, ReportsFacts, Zenon
  <1>9. /\ r \in Seq(STRING \X Labels \X Nat) /\ T!IsInjective(r)
        /\ T!ToSet(r) = T!ToSet(tReport[tWalk]) \cup T!Lines(TTop, TLast(tArgv.steps), TCur)
    <2>1. "D" \in Labels /\ "DNR" \in Labels /\ "D" # "DNR"
      BY DEF Labels
    <2> QED BY <1>0, <1>3, <1>6, <1>8, <2>1, ReportTwo, Zenon
  <1>10. THome' /\ TTop' # "none" /\ TTop' \in T!Nodes /\ TShape' /\ TWhere'
         /\ TPending' = (TPending \ {TCur}) \cup Opened(TCur)
    BY <1>0, <1>3, <1>6, ReturnKeeps
  <1>11. TReports'
    BY <1>0, <1>3, <1>5, <1>7, <1>9, <1>10, VisitStep
  <1> QED BY <1>10, <1>11 DEF TWalking, T!Nodes

-----------------------------------------------------------------------------
(* A walk begins: everything is below the one pending node.                 *)
LEMMA NewWalk ==
  TTop \in T!Nodes /\ tStack = <<>> /\ tLevel = 0 /\ tPc = "call" /\ tReport[tWalk] = <<>>
    => TShape /\ TWhere /\ TReports
  <1>1. SUFFICES ASSUME TTop \in T!Nodes, tStack = <<>>, tLevel = 0, tPc = "call",
                        tReport[tWalk] = <<>>
                 PROVE  TShape /\ TWhere /\ TReports
    OBVIOUS
  <1>2. TShape /\ TWhere
    BY <1>1 DEF TShape, TWhere
  <1>3. TPending = {TTop}
    BY <1>1 DEF TPending, TCur
  <1>4. TTop \in T!Shown(TTop) /\ Apart({TTop})
    BY <1>1, AboveFacts, WayFacts DEF T!Shown, Apart
  <1>5. TSeen = {}
    BY <1>3 DEF TSeen, Seen, T!Shown
  <1>6. /\ tReport[tWalk] \in Seq(STRING \X Labels \X Nat) /\ T!IsInjective(tReport[tWalk])
        /\ T!ToSet(tReport[tWalk]) = {}
    BY <1>1 DEF T!IsInjective, T!ToSet
  <1> QED BY <1>2, <1>3, <1>4, <1>5, <1>6 DEF TReports

(* argv[1] names a node or nothing.                                         *)
LEMMA TopLaw == tArgv \in Arguments => TTop \in T!Nodes \cup {"none"}
  BY ArgvFacts

(* The program is started.                                                  *)
LEMMA TStarts == ASSUME TInv, T!Start PROVE TInv'
  <1>0. /\ TTypes /\ TPast /\ tWalk = 1 /\ tStack = <<>> /\ tLevel = 0 /\ tCwd = Home
        /\ tReport[1] = <<>>
    BY DEF TInv, TStart, T!Start
  <1>1. /\ tPc' = "call" /\ tArgv' \in Arguments /\ tPath' = tArgv'
        /\ UNCHANGED <<tWalk, tCwd, tStack, tLevel, tReport>>
    BY DEF T!Start
  <1>2. TTypes'
    <2>1. PICK k \in Kinds : tKind' = [tKind EXCEPT ![Special] = k]
      BY Zenon DEF T!Start
    <2>2. k \in {"dir", "dnr", "nox"} /\ Special \in T!Nodes /\ Special \notin Files
      BY TreeAssumption DEF T!Nodes
    <2> QED BY <1>0, <1>1, <2>1, <2>2 DEF TTypes, T!Nodes
  <1>3. TStart' /\ TPast'
    BY <1>0, <1>1 DEF TStart, TPast
  <1>4. (TTop \in T!Nodes \cup {"none"})'
    <2>1. (tArgv \in Arguments => TTop \in T!Nodes \cup {"none"})'
      BY TopLaw, PTL
    <2> QED BY <1>1, <2>1
  <1>5. (TTop \in T!Nodes => TShape /\ TWhere /\ TReports)'
    <2>1. (TTop \in T!Nodes /\ tStack = <<>> /\ tLevel = 0 /\ tPc = "call" /\ tReport[tWalk] = <<>>
             => TShape /\ TWhere /\ TReports)'
      BY NewWalk, PTL
    <2> QED BY <1>0, <1>1, <2>1
  <1>6. THome' /\ TMissing'
    BY <1>0, <1>1 DEF THome, AtHome, TMissing
  <1> QED BY <1>2, <1>3, <1>4, <1>5, <1>6 DEF TInv, TWalking

(* A walk ends: everything that is shown has been reported.                 *)
LEMMA WalkEnds ==
  ASSUME TTypes, TWalking, tPc \in {"end", "exit"}
  PROVE  /\ TDone(tWalk) /\ tStack = <<>> /\ tLevel = 0
         /\ TTop # "none" => \A m \in T!Shown(TTop) : tKind[m] # "nox"
  <1>1. CASE TTop = "none"
    <2>1. /\ tStack = <<>> /\ tLevel = 0
          /\ tReport[tWalk] = << <<TLast(tArgv.steps), "NS", 0>> >>
      BY <1>1 DEF TWalking, TMissing
    <2>2. T!Expected = {<<TLast(tArgv.steps), "NS", 0>>}
      BY <1>1 DEF T!Expected, TTop, T!None, T!Last, TLast
    <2>3. TDone(tWalk)
      BY <2>1, <2>2 DEF TDone, T!IsInjective, T!ToSet
    <2> QED BY <1>1, <2>1, <2>3
  <1>2. CASE TTop # "none"
    <2>1. TShape /\ TReports
      BY <1>2 DEF TWalking
    <2>2. tStack = <<>> /\ tLevel = 0
      BY <2>1 DEF TShape
    <2>3. TPending = {}
      BY <2>2 DEF TPending
    <2>4. TSeen = T!Shown(TTop)
      BY <2>3 DEF TSeen, Seen
    <2>5. T!Expected = UNION {T!Lines(TTop, TLast(tArgv.steps), m) : m \in T!Shown(TTop)}
      BY <1>2 DEF T!Expected, TTop, T!None, T!Last, TLast
    <2> QED BY <2>1, <2>2, <2>4, <2>5 DEF TReports, TDone
  <1> QED BY <1>1, <1>2

(* One walk is over and the next begins: at home, if it matters.            *)
LEMMA TNextWalk == ASSUME TInv, T!NextWalk PROVE TInv'
  <1>0. /\ TTypes /\ TPast /\ tPc = "end" /\ tArgv \in Arguments /\ tWalk \in 1 .. 3
        /\ UNCHANGED <<tKind, tArgv, tCwd, tStack, tLevel, tReport>>
    BY DEF TInv, TTypes, T!NextWalk
  <1>1. CASE tWalk = 3
    <2>1. tPc' = "exit" /\ UNCHANGED <<tWalk, tPath>>
      BY <1>1 DEF T!NextWalk
    <2>2. TTypes' /\ TStart' /\ TPast'
      <3>1. tReport' = [w \in 1 .. 3 |-> tReport'[w]]
        BY <1>0 DEF TTypes
      <3> QED BY <1>0, <2>1, <3>1, OtherWalks
    <2>3. ASSUME TActive' PROVE TWalking'
      <3>1. TWalking
        BY <1>0, <2>1, <2>3, SameTree DEF TInv, TActive
      <3>2. THome' /\ TTop' = TTop
        BY <1>0, <2>1, <3>1, SameTree DEF TWalking, THome, AtHome
      <3>3. CASE TTop = "none"
        BY <1>0, <2>1, <3>1, <3>2, <3>3 DEF TWalking, TMissing, TLast
      <3>4. CASE TTop # "none"
        <4>1. TTop \in T!Nodes /\ TShape /\ TWhere /\ TReports /\ tStack = <<>>
          BY <1>0, <3>1, <3>4, WalkEnds DEF TWalking
        <4>2. TShape' /\ TWhere'
          BY <1>0, <2>1, <4>1 DEF TShape, TWhere, Frames
        <4>3. TPending' = TPending
          BY <1>0, <2>1 DEF TPending
        <4>6. TReports'
          BY <1>0, <2>1, <4>1, <4>3, SameReports
        <4> QED BY <3>2, <3>4, <4>1, <4>2, <4>6 DEF TWalking
      <3> QED BY <3>3, <3>4
    <2> QED BY <2>2, <2>3 DEF TInv
  <1>2. CASE tWalk # 3
    <2>1. tPc' = "call" /\ tWalk' = tWalk + 1 /\ tPath' = tArgv
      BY <1>2 DEF T!NextWalk
    <2>2. TTypes' /\ TStart'
      BY <1>0, <1>2, <2>1 DEF TTypes, TStart
    <2>3. tWalk = 1 \/ T!Homing => /\ TDone(tWalk) /\ tStack = <<>> /\ tLevel = 0 /\ THome
                                   /\ TTop # "none" => \A m \in T!Shown(TTop) : tKind[m] # "nox"
      BY <1>0, WalkEnds DEF TInv, TActive, TWalking
    <2>4. \A w \in 1 .. 3 : TDone(w)' = TDone(w)
      BY <1>0, SameTree DEF TDone
    <2>5. TPast'
      <3>1. \A w \in 1 .. tWalk' - 1 : w = 1 \/ T!Homing' => TDone(w)'
        BY <1>0, <1>2, <2>1, <2>3, <2>4, SameTree DEF TPast
      <3>2. \A w \in tWalk' + 1 .. 3 : tReport'[w] = <<>>
        BY <1>0, <1>2, <2>1 DEF TPast
      <3>3. TTop' # "none" => \A m \in T!Shown(TTop)' : tKind'[m] # "nox"
        BY <1>0, <2>3, SameTree DEF TPast
      <3> QED BY <3>1, <3>2, <3>3 DEF TPast
    <2>6. ASSUME TActive' PROVE TWalking'
      <3>1. T!Homing
        BY <1>0, <2>1, <2>6, SameTree DEF TActive
      <3>2. tStack = <<>> /\ tLevel = 0 /\ AtHome /\ tReport'[tWalk'] = <<>>
        BY <1>0, <1>2, <2>1, <2>3, <3>1 DEF THome, TPast
      <3>3. THome' /\ TMissing'
        BY <1>0, <2>1, <3>2 DEF THome, AtHome, TMissing
      <3>4. (TTop \in T!Nodes \cup {"none"})'
        BY <1>0, ArgvFacts, SameTree DEF T!Nodes
      <3>5. (TTop \in T!Nodes => TShape /\ TWhere /\ TReports)'
        <4>1. (TTop \in T!Nodes /\ tStack = <<>> /\ tLevel = 0 /\ tPc = "call" /\ tReport[tWalk] = <<>>
                 => TShape /\ TWhere /\ TReports)'
          BY NewWalk, PTL
        <4> QED BY <1>0, <2>1, <3>2, <4>1
      <3> QED BY <3>3, <3>4, <3>5 DEF TWalking
    <2> QED BY <2>2, <2>5, <2>6 DEF TInv
  <1> QED BY <1>1, <1>2

-----------------------------------------------------------------------------
(* A directory is opened: one line, and its entries become pending.         *)
LEMMA TDescend == ASSUME TInv, T!Descend PROVE TInv'
  <1>0. /\ TTypes /\ TPast /\ tPc = "call" /\ T!Kind(T!Target) \in {"dir", "nox"}
        /\ UNCHANGED <<tKind, tArgv, tWalk, tPath>> /\ T!Reports(<<T!Entry("D")>>)
        /\ tPc' \in {"loop", "failed"} /\ tArgv \in Arguments /\ tWalk \in 1 .. 3
    BY DEF TInv, TTypes, T!Descend
  <1>1. TTypes' /\ TStart' /\ TPast'
    <2>1. tPc' \in {"call", "loop", "end", "exit", "failed"}
      BY <1>0
    <2> QED BY <1>0, <2>1, ReportsFacts, OtherWalks
  <1>2. SUFFICES ASSUME TActive' PROVE TWalking'
    BY <1>1 DEF TInv
  <1>3. TWalking /\ TTop # "none" /\ tPc' = "loop"
    BY <1>0, <1>2, SameTree, MissingCall DEF TInv, TActive
  <1>4. /\ T!Target = TCur /\ TCur \in T!Nodes /\ TCur # "none" /\ TCur \in T!Shown(TTop)
        /\ TTop \in T!Nodes /\ TShape /\ TWhere /\ THome
    BY <1>0, <1>3, CallFacts, TreeAssumption DEF T!Nodes, TWalking
  <1>5. /\ tLevel' = tLevel + 1 /\ tCwd' = IF tWalk # 2 THEN TCur ELSE tCwd
        /\ tStack' = Append(tStack, [dir |-> TCur, todo |-> T!Entries(TCur), n |-> Len(tPath.steps)])
    BY <1>0, <1>3, <1>4 DEF T!Descend, T!Variant
  <1>6. tKind[TCur] = "dir"
    <2>1. tKind[TCur] \in {"dir", "nox"}
      BY <1>0, <1>4 DEF T!Kind, T!None
    <2>2. CASE tWalk = 2
      BY <1>3, <1>4, <1>0, <2>1, <2>2 DEF TPast
    <2>3. CASE tWalk # 2
      BY <1>3, <1>4, <1>0, <2>1, <2>3 DEF T!Descend, T!Variant
    <2> QED BY <2>2, <2>3
  <1>72. PICK n \in Nat : n = Len(tStack)
    BY <1>4 DEF TShape
  <1> DEFINE c == [dir |-> TCur, todo |-> T!Entries(TCur), n |-> Len(tPath.steps)]
  <1>7. /\ tPath.steps \in Seq(STRING)
        /\ tWalk = 2 => /\ tPath \in [absolute : BOOLEAN, steps : Seq(STRING)]
                        /\ tPath.absolute = tArgv.absolute
    <2>1. CASE tStack = <<>>
      <3>1. tPath = tArgv
        BY <1>0, <1>4, <2>1 DEF THome
      <3>2. tArgv \in [absolute : BOOLEAN, steps : Seq(STRING) \ {<<>>}]
        BY <1>0, TreeAssumption
      <3> QED BY <3>1, <3>2
    <2>2. CASE tStack # <<>> /\ tWalk = 2
      BY <1>4, <2>2 DEF TWhere
    <2>3. CASE tStack # <<>> /\ tWalk # 2
      <3>1. tPath.steps = <<TCur>> /\ TCur \in STRING
        BY <1>0, <1>4, <2>3, TreeAssumption DEF TWhere, T!Nodes
      <3>2. <<TCur>> \in Seq(STRING)
        BY <3>1
      <3> QED BY <2>3, <3>1, <3>2
    <2> QED BY <2>1, <2>2, <2>3
  <1>8. /\ n \in Nat /\ tStack \in Seq(Frames) /\ tLevel = n /\ c \in Frames
        /\ tStack' \in Seq(Frames) /\ Len(tStack') = n + 1 /\ tStack'[n + 1] = c
        /\ \A k \in 1 .. n : tStack'[k] = tStack[k]
    <2>1. tStack \in Seq(Frames) /\ tLevel = n
      BY <1>4, <1>72 DEF TShape
    <2>2. c \in Frames
      BY <1>4, <1>7 DEF Frames, T!Entries
    <2>3. tStack' = Append(tStack, c)
      BY <1>5
    <2> HIDE DEF c
    <2> QED BY <1>72, <2>1, <2>2, <2>3
  <1>9. TShape'
    <2>1. \A k \in 1 .. n : TLevel(k)'
      <3>1. \A k \in 1 .. n : TLevel(k)
        BY <1>4, <1>72 DEF TShape
      <3>2. ASSUME NEW k \in 1 .. n PROVE TLevel(k)'
        <4>1. tStack'[k] = tStack[k] /\ (k # 1 => tStack'[k - 1] = tStack[k - 1]) /\ TLevel(k)
          BY <1>8, <3>1, <3>2
        <4> QED BY <1>0, <4>1, SameTree DEF TLevel, T!Way, T!Entries, T!Nodes
      <3> QED BY <3>2
    <2>2. TLevel(n + 1)'
      <3>1. Cardinality(T!Way(TTop, TCur)) = n
        BY <1>0, <1>3, <1>72, CallFacts
      <3>2. n = 0 => TCur = TTop
        <4>1. tStack \in Seq(Frames) /\ n = Len(tStack)
          BY <1>8, <1>72
        <4>2. n = 0 => tStack = <<>>
          BY <4>1, EmptySeq, Zenon
        <4> QED BY <4>2 DEF TCur
      <3>3. n # 0 => TCur \in T!Entries(tStack'[n].dir)
        BY <1>0, <1>4, <1>8, <1>72 DEF TShape, TLast
      <3> HIDE DEF c
      <3>4. tStack'[n + 1].dir = TCur /\ tStack'[n + 1].todo = T!Entries(TCur) /\ (n + 1) - 1 = n
        BY <1>8 DEF c
      <3>5. TCur \in T!Shown(TTop)' /\ TTop' = TTop
        BY <1>0, <1>4, SameTree
      <3> QED BY <1>0, <1>6, <1>8, <3>1, <3>2, <3>3, <3>4, <3>5 DEF TLevel, T!Way, T!Entries, T!Nodes
    <2>3. \A k \in 1 .. n + 1 : TLevel(k)'
      BY <1>8, <2>1, <2>2
    <2>4. tStack' # <<>> /\ tLevel' = Len(tStack') /\ tStack' \in Seq(Frames)'
      <3>1. Frames' = Frames
        BY Zenon DEF Frames, T!Nodes
      <3>2. n \in Nat /\ tLevel = n /\ Len(tStack') = n + 1 /\ tStack' \in Seq(Frames)
        BY <1>8
      <3>3. Len(tStack') # 0
        BY <3>2
      <3>4. tStack' # <<>>
        BY <3>3
      <3>5. tLevel' = n + 1
        BY <1>5, <3>2
      <3> QED BY <3>1, <3>2, <3>4, <3>5, Zenon
    <2> QED BY <1>3, <1>8, <2>3, <2>4 DEF TShape
  <1>10. TWhere'
    <2>1. CASE tWalk # 2
      BY <1>0, <1>3, <1>5, <1>8, <2>1 DEF TWhere, TLast
    <2>2. CASE tWalk = 2
      <3>1. ASSUME NEW k \in 1 .. n
            PROVE  /\ tStack'[k].n <= Len(tPath.steps)
                   /\ \A j \in 1 .. k : tStack'[j].n <= tStack'[k].n
                   /\ (T!Named(Cut(tStack[k].n), tCwd) = tStack[k].dir)'
        <4>1. /\ tStack[k].n <= Len(tPath.steps)
              /\ \A j \in 1 .. k : tStack[j].n <= tStack[k].n
              /\ T!Named(Cut(tStack[k].n), tCwd) = tStack[k].dir
              /\ tStack[k].n \in Nat /\ tStack'[k] = tStack[k]
              /\ \A j \in 1 .. k : tStack'[j] = tStack[j]
          BY <1>4, <1>8, <2>2, <3>1, <1>72, FrameType DEF TWhere, TShape
        <4>2. PICK i \in Nat : i = tStack[k].n
          BY <4>1
        <4>3. Cut(i)' = Cut(i) /\ Cut(i).steps \in Seq(STRING)
          BY <1>0, <1>7, <4>1, <4>2 DEF Cut
        <4>4. T!Named(Cut(i), tCwd)' = T!Named(Cut(i), tCwd)
          BY <1>0, <1>5, <2>2, <4>3, NamedKept
        <4> QED BY <4>1, <4>2, <4>4
      <3>2. /\ tStack'[n + 1].n = Len(tPath.steps) /\ tStack'[n + 1].dir = TCur
            /\ (T!Named(Cut(tStack[n + 1].n), tCwd) = tStack[n + 1].dir)'
        <4>1. tStack'[n + 1].n = Len(tPath.steps) /\ tStack'[n + 1].dir = TCur
          BY <1>8
        <4>2. PICK i \in Nat : i = Len(tPath.steps)
          BY <1>7
        <4>3. Cut(i) = tPath /\ Cut(i)' = Cut(i)
          BY <1>0, <1>7, <2>2, <4>2 DEF Cut
        <4>4. T!Named(Cut(i), tCwd)' = T!Named(Cut(i), tCwd)
          BY <1>0, <1>5, <1>7, <2>2, <4>3, NamedKept
        <4>5. T!Named(Cut(i), tCwd) = TCur
          BY <1>4, <4>3 DEF T!Target
        <4> QED BY <4>1, <4>2, <4>4, <4>5
      <3>3. ASSUME NEW k \in 1 .. n + 1
            PROVE  /\ tStack'[k].n <= Len(tPath'.steps)
                   /\ \A j \in 1 .. k : tStack'[j].n <= tStack'[k].n
                   /\ (T!Named(Cut(tStack[k].n), tCwd) = tStack[k].dir)'
        <4>1. Len(tPath.steps) \in Nat /\ \A j \in 1 .. n : tStack'[j].n <= Len(tPath.steps)
          BY <1>7, <3>1
        <4>2. CASE k = n + 1
          <5>1. \A j \in 1 .. k : j \in 1 .. n \/ j = k
            BY <1>8, <4>2
          <5> QED BY <1>0, <3>2, <4>1, <4>2, <5>1
        <4>3. CASE k # n + 1
          BY <1>0, <1>8, <3>1, <4>3
        <4> QED BY <4>2, <4>3
      <3> QED BY <1>0, <1>3, <1>7, <1>8, <2>2, <3>3 DEF TWhere
    <2> QED BY <2>1, <2>2
  <1>11. THome' /\ TTop' = TTop
    BY <1>0, <1>3, <1>4, <1>5, <1>8, SameTree DEF THome, AtHome
  <1>12. TPending' = (TPending \ {TCur}) \cup Opened(TCur)
    <2>1. Opened(TCur) = T!Entries(TCur) /\ T!Entries(TCur) \subseteq T!Nodes
      BY <1>6 DEF Opened, T!Entries
    <2>2. \A k \in 1 .. n : TCur \notin tStack[k].todo
      BY <1>0, <1>3, <1>72, CallFacts
    <2>3. DOMAIN tStack' = 1 .. n + 1 /\ DOMAIN tStack = 1 .. n /\ tStack'[n + 1].todo = T!Entries(TCur)
      BY <1>8, <1>72
    <2>4. TCur \notin T!Entries(TCur)
      BY <1>4, EntryFacts
    <2>5. ASSUME NEW e \in T!Nodes
          PROVE  (\E k \in DOMAIN tStack' : e \in tStack'[k].todo)
                   <=> (\E k \in DOMAIN tStack : e \in tStack[k].todo) \/ e \in T!Entries(TCur)
      BY <1>8, <2>3
    <2> QED BY <1>0, <1>3, <2>1, <2>2, <2>3, <2>4, <2>5 DEF TPending, T!Nodes
  <1>13. TReports'
    <2>1. T!Types(TCur) = {"D"}
      BY <1>6 DEF T!Types
    <2>2. PICK r : r = tReport'[tWalk]
      OBVIOUS
    <2>3. r = tReport[tWalk] \o <<T!Entry("D")>>
      BY <1>0, <2>2, ReportsFacts, Zenon
    <2>4. /\ r \in Seq(STRING \X Labels \X Nat) /\ T!IsInjective(r)
          /\ T!ToSet(r) = T!ToSet(tReport[tWalk]) \cup T!Lines(TTop, TLast(tArgv.steps), TCur)
      <3>1. "D" \in Labels
        BY DEF Labels
      <3> QED BY <1>0, <1>3, <2>1, <2>3, <3>1, ReportOne, Zenon
    <2> QED BY <1>0, <1>3, <1>6, <1>12, <2>2, <2>4, VisitStep
  <1> QED BY <1>3, <1>4, <1>9, <1>10, <1>11, <1>13 DEF TWalking, T!Nodes

-----------------------------------------------------------------------------
(* readdir: the entry that is taken out is the one that is called for.      *)
LEMMA TReaddir == ASSUME TInv, T!Readdir PROVE TInv'
  <1>0. /\ TTypes /\ TPast /\ tPc = "loop" /\ tPc' = "call"
        /\ UNCHANGED <<tKind, tArgv, tWalk, tCwd, tLevel, tReport>>
        /\ tArgv \in Arguments /\ tWalk \in 1 .. 3
    BY DEF TInv, TTypes, T!Readdir
  <1>1. TTypes' /\ TStart' /\ TPast'
    <2>1. tReport' = [w \in 1 .. 3 |-> tReport'[w]]
      BY <1>0 DEF TTypes
    <2> QED BY <1>0, <2>1, OtherWalks
  <1>2. SUFFICES ASSUME TActive' PROVE TWalking'
    BY <1>1 DEF TInv
  <1>3. TWalking /\ TTop # "none"
    BY <1>0, <1>2, SameTree DEF TInv, TActive, TWalking, TMissing
  <1>4. /\ TTop \in T!Nodes /\ TShape /\ TWhere /\ THome /\ TReports /\ tStack # <<>>
        /\ tStack \in Seq(Frames)
    BY <1>0, <1>3 DEF TWalking, TShape
  <1>5. PICK n \in Nat \ {0} : n = Len(tStack)
    BY <1>4, EmptySeq
  <1>6. PICK e \in tStack[n].todo :
          /\ tStack' = [tStack EXCEPT ![n].todo = @ \ {e}]
          /\ tPath' = IF tWalk # 2 THEN [absolute |-> FALSE, steps |-> <<e>>]
                      ELSE [tPath EXCEPT !.steps = Append(SubSeq(@, 1, tStack[n].n), e)]
    BY <1>0, <1>5, Zenon DEF T!Readdir, T!Top, T!Last, T!Variant
  <1>7. /\ tStack' \in Seq(Frames) /\ Len(tStack') = n /\ tStack' # <<>>
        /\ tStack'[n].dir = tStack[n].dir /\ tStack'[n].n = tStack[n].n
        /\ tStack'[n].todo = tStack[n].todo \ {e}
        /\ \A k \in 1 .. n : k # n => tStack'[k] = tStack[k]
    <2>1. tStack[n] \in Frames
      BY <1>4, <1>5, FrameType
    <2>2. PICK f : f = [tStack[n] EXCEPT !.todo = @ \ {e}]
      BY Zenon
    <2>21. f \in Frames /\ f.dir = tStack[n].dir /\ f.n = tStack[n].n /\ f.todo = tStack[n].todo \ {e}
      BY <2>1, <2>2 DEF Frames
    <2>3. tStack' = [tStack EXCEPT ![n] = f]
      BY <1>6, <2>2
    <2>4. tStack' \in Seq(Frames) /\ Len(tStack') = n /\ tStack'[n] = f
          /\ \A k \in 1 .. n : k # n => tStack'[k] = tStack[k]
      BY <1>4, <1>5, <2>21, <2>3
    <2> QED BY <1>5, <2>21, <2>4
  <1>8. \A k \in 1 .. n : /\ tStack[k].n \in Nat /\ tStack'[k].n = tStack[k].n
                          /\ tStack'[k].dir = tStack[k].dir
                          /\ tStack'[k].todo \subseteq tStack[k].todo
    BY <1>4, <1>5, <1>7, FrameType
  <1>9. \A k \in 1 .. n : TLevel(k)
    BY <1>4, <1>5 DEF TShape
  <1>10. e \in T!Entries(tStack[n].dir) /\ e \in T!Nodes /\ e \in STRING
    <2>1. e \in T!Entries(tStack[n].dir)
      BY <1>5, <1>6, <1>9 DEF TLevel
    <2> QED BY <2>1, TreeAssumption DEF T!Entries, T!Nodes
  <1>11. tWalk = 2 =>
           /\ tPath \in [absolute : BOOLEAN, steps : Seq(STRING)]
           /\ tPath' \in [absolute : BOOLEAN, steps : Seq(STRING)]
           /\ tPath'.absolute = tPath.absolute /\ tPath.absolute = tArgv.absolute
           /\ Len(tPath'.steps) = tStack[n].n + 1 /\ tPath'.steps[tStack[n].n + 1] = e
           /\ tStack[n].n <= Len(tPath.steps)
           /\ \A k \in 1 .. tStack[n].n : tPath'.steps[k] = tPath.steps[k]
    <2>1. SUFFICES ASSUME tWalk = 2 PROVE <1>11!2
      OBVIOUS
    <2>2. /\ tPath \in [absolute : BOOLEAN, steps : Seq(STRING)] /\ tPath.absolute = tArgv.absolute
          /\ tStack[n].n <= Len(tPath.steps) /\ tStack[n].n \in Nat
      BY <1>4, <1>5, <1>8, <2>1 DEF TWhere
    <2>3. tPath' = [tPath EXCEPT !.steps = Append(SubSeq(@, 1, tStack[n].n), e)]
      BY <1>6, <2>1
    <2>4. PICK s : s = SubSeq(tPath.steps, 1, tStack[n].n)
      BY Zenon
    <2>41. s \in Seq(STRING)
      BY <2>2, <2>4
    <2>5. Len(s) = tStack[n].n /\ \A k \in 1 .. tStack[n].n : s[k] = tPath.steps[k]
      BY <2>2, <2>4
    <2>6. tPath'.steps = Append(s, e) /\ tPath'.absolute = tPath.absolute
          /\ tPath' = [absolute |-> tPath.absolute, steps |-> Append(s, e)]
      BY <2>2, <2>3, <2>4, Zenon
    <2>7. Append(s, e) \in Seq(STRING)
      BY <1>10, <2>41
    <2> QED BY <2>2, <2>41, <2>5, <2>6, <2>7, <1>10
  <1>12. TCur' = e
    <2>1. CASE tWalk # 2
      <3>1. tPath'.steps = <<e>>
        BY <1>6, <2>1
      <3> QED BY <1>7, <3>1 DEF TCur, TLast
    <2>2. CASE tWalk = 2
      BY <1>7, <1>11, <2>2 DEF TCur, TLast
    <2> QED BY <2>1, <2>2
  <1>13. THome' /\ TTop' = TTop
    BY <1>0, <1>4, <1>7, SameTree DEF THome, AtHome
  <1>14. TShape'
    <2>1. ASSUME NEW k \in 1 .. n PROVE TLevel(k)'
      <3>1. TLevel(k) /\ tStack'[k].dir = tStack[k].dir /\ tStack'[k].todo \subseteq tStack[k].todo
            /\ (k # 1 => tStack'[k - 1].dir = tStack[k - 1].dir)
        BY <1>8, <1>9, <2>1
      <3> QED BY <1>0, <1>13, <3>1, SameTree DEF TLevel, T!Way, T!Entries, T!Nodes
    <2>2. TCur' \in T!Entries(TLast(tStack').dir) \ TLast(tStack').todo
      BY <1>7, <1>10, <1>12 DEF TLast
    <2>3. tStack' \in Seq(Frames)' /\ tLevel' = Len(tStack')
      BY <1>0, <1>4, <1>5, <1>7 DEF TShape, Frames
    <2>4. T!Entries(TLast(tStack').dir) = T!Entries(TLast(tStack).dir)'
      BY DEF T!Entries, T!Nodes, TLast
    <2>5. \A k \in 1 .. Len(tStack') : TLevel(k)'
      BY <1>7, <2>1
    <2> QED BY <1>0, <2>2, <2>3, <2>4, <2>5 DEF TShape
  <1>15. TWhere'
    <2>1. CASE tWalk # 2
      BY <1>0, <1>4, <1>5, <1>6, <1>7, <1>12, <2>1, Zenon DEF TWhere, TLast
    <2>2. CASE tWalk = 2
      <3>1. ASSUME NEW k \in 1 .. n
            PROVE  /\ tStack'[k].n <= Len(tPath'.steps)
                   /\ \A j \in 1 .. k : tStack'[j].n <= tStack'[k].n
                   /\ (T!Named(Cut(tStack[k].n), tCwd) = tStack[k].dir)'
        <4>1. /\ \A j \in 1 .. k : tStack[j].n <= tStack[k].n
              /\ \A j \in 1 .. n : tStack[j].n <= tStack[n].n
              /\ T!Named(Cut(tStack[k].n), tCwd) = tStack[k].dir
              /\ tStack[k].n \in Nat
          BY <1>4, <1>5, <1>8, <2>2, <3>1 DEF TWhere
        <4>2. /\ tStack'[k].n <= Len(tPath'.steps)
              /\ \A j \in 1 .. k : tStack'[j].n <= tStack'[k].n
          <5>1. /\ tStack[k].n <= tStack[n].n /\ tStack[n].n \in Nat
                /\ tStack'[k].n = tStack[k].n
                /\ \A j \in 1 .. k : tStack'[j].n = tStack[j].n
            BY <1>8, <4>1
          <5> QED BY <1>11, <2>2, <4>1, <5>1
        <4>3. PICK i \in Nat : i = tStack[k].n
          BY <4>1
        <4>4. i <= tStack[n].n /\ tStack[n].n \in Nat
          BY <1>8, <4>1, <4>3
        <4>5. Cut(i)' = Cut(i) /\ Cut(i).steps \in Seq(STRING)
          <5>1. SubSeq(tPath'.steps, 1, i) = SubSeq(tPath.steps, 1, i)
                /\ SubSeq(tPath.steps, 1, i) \in Seq(STRING)
            <6>1. /\ tPath.steps \in Seq(STRING) /\ tPath'.steps \in Seq(STRING)
                  /\ i <= Len(tPath.steps) /\ i <= Len(tPath'.steps)
                  /\ \A x \in 1 .. i : tPath'.steps[x] = tPath.steps[x]
              <7>1. /\ tPath.steps \in Seq(STRING) /\ tPath'.steps \in Seq(STRING)
                    /\ Len(tPath'.steps) = tStack[n].n + 1 /\ tStack[n].n <= Len(tPath.steps)
                    /\ \A x \in 1 .. tStack[n].n : tPath'.steps[x] = tPath.steps[x]
                BY <1>11, <2>2
              <7>2. PICK m \in Nat : m = tStack[n].n /\ i <= m
                BY <4>4
              <7>3. PICK p \in Nat, q \in Nat : p = Len(tPath.steps) /\ q = Len(tPath'.steps)
                BY <7>1
              <7>4. q = m + 1 /\ m <= p
                BY <7>1, <7>2, <7>3, Zenon
              <7>5. i <= p /\ i <= q /\ 1 .. i \subseteq 1 .. m
                BY <4>3, <7>2, <7>4
              <7>6. \A x \in 1 .. m : tPath'.steps[x] = tPath.steps[x]
                BY <7>1, <7>2, Zenon
              <7> QED BY <7>1, <7>3, <7>5, <7>6, Zenon
            <6> QED BY <6>1, SameCut, Zenon
          <5> QED BY <1>11, <2>2, <5>1 DEF Cut
        <4>6. T!Named(Cut(i), tCwd)' = T!Named(Cut(i), tCwd)
          BY <1>0, <4>5, NamedKept
        <4> QED BY <1>8, <4>1, <4>2, <4>3, <4>6
      <3> QED BY <1>0, <1>7, <1>11, <2>2, <3>1 DEF TWhere, TLast
    <2> QED BY <2>1, <2>2
  <1>16. TPending' = TPending
    <2>1. DOMAIN tStack' = 1 .. n /\ DOMAIN tStack = 1 .. n
      BY <1>4, <1>5, <1>7
    <2>2. ASSUME NEW x \in T!Nodes
          PROVE  (\E k \in 1 .. n : x \in tStack'[k].todo) \/ x = e
                   <=> \E k \in 1 .. n : x \in tStack[k].todo
      <3>1. \A k \in 1 .. n : x \in tStack[k].todo => x \in tStack'[k].todo \/ x = e
        BY <1>5, <1>7
      <3>2. \A k \in 1 .. n : x \in tStack'[k].todo => x \in tStack[k].todo
        BY <1>8
      <3>3. n \in 1 .. n /\ e \in tStack[n].todo
        BY <1>5, <1>6
      <3> QED BY <3>1, <3>2, <3>3
    <2> QED BY <1>0, <1>12, <2>1, <2>2 DEF TPending, T!Nodes
  <1>17. TReports'
    BY <1>0, <1>4, <1>16, SameReports
  <1> QED BY <1>3, <1>4, <1>13, <1>14, <1>15, <1>17 DEF TWalking, T!Nodes

-----------------------------------------------------------------------------
(* A single name is an entry of the directory the program was started in.   *)
LEMMA HomeAbove ==
  ASSUME tArgv \in Arguments, TTop \in T!Nodes, T!Homing, ~tArgv.absolute
  PROVE  ParentOf[TTop] = Home
  <1>1. /\ tArgv.steps \in Seq(STRING) /\ Len(tArgv.steps) = 1 /\ tArgv.steps[1] \notin {".", ".."}
    BY ArgvFacts DEF T!Homing
  <1>2. Begin(tArgv, Home) = Home /\ Home \in T!Nodes
    BY TreeAssumption DEF Begin, T!Nodes
  <1>3. TTop = T!Step(Home, tArgv.steps[1])
    BY <1>1, <1>2, NamedOne DEF TTop
  <1>4. TTop \in T!Entries(Home)
    BY <1>1, <1>3, StepOfName, TreeAssumption DEF T!Nodes
  <1> QED BY <1>4 DEF T!Entries

(* The end of a directory: the buffer and the working directory are those of *)
(* the directory it is in, or of the start of the walk.                     *)
LEMMA TLeave == ASSUME TInv, T!Leave PROVE TInv'
  <1>0. /\ TTypes /\ TPast /\ tPc = "loop" /\ tPc' \in {"end", "loop"}
        /\ UNCHANGED <<tKind, tArgv, tWalk, tReport>>
        /\ tArgv \in Arguments /\ tWalk \in 1 .. 3
    BY DEF TInv, TTypes, T!Leave
  <1>1. TTypes' /\ TStart' /\ TPast'
    <2>1. tReport' = [w \in 1 .. 3 |-> tReport'[w]]
      BY <1>0 DEF TTypes
    <2>2. tPc' \in {"call", "loop", "end", "exit", "failed"}
      BY <1>0
    <2> QED BY <1>0, <2>1, <2>2, OtherWalks
  <1>2. SUFFICES ASSUME TActive' PROVE TWalking'
    BY <1>1 DEF TInv
  <1>3. TWalking /\ TTop # "none"
    BY <1>0, <1>2, SameTree DEF TInv, TActive, TWalking, TMissing
  <1>4. /\ TTop \in T!Nodes /\ TShape /\ TWhere /\ THome /\ TReports /\ tStack # <<>>
        /\ tStack \in Seq(Frames)
    BY <1>0, <1>3 DEF TWalking, TShape
  <1>5. PICK n \in Nat \ {0} : n = Len(tStack)
    BY <1>4, EmptySeq
  <1>6. /\ tStack[n].todo = {} /\ tLevel' = tLevel - 1 /\ tStack' = SubSeq(tStack, 1, n - 1)
        /\ tPc' = IF n = 1 THEN "end" ELSE "loop"
        /\ tWalk # 2 => tCwd' = ParentOf[tCwd] /\ tPath' = tPath
        /\ tWalk = 2 => tCwd' = tCwd /\ tPath' = [tPath EXCEPT !.steps = SubSeq(@, 1, tStack[n].n)]
    BY <1>0, <1>5 DEF T!Leave, T!Top, T!Last, T!Front, T!Variant
  <1>7. /\ tStack' \in Seq(Frames) /\ Len(tStack') = n - 1
        /\ \A k \in 1 .. n - 1 : tStack'[k] = tStack[k]
        /\ n = 1 => tStack' = <<>>
        /\ n # 1 => tStack' # <<>>
    <2>1. /\ tStack' \in Seq(Frames) /\ Len(tStack') = n - 1
          /\ \A k \in 1 .. n - 1 : tStack'[k] = tStack[k]
      BY <1>4, <1>5, <1>6
    <2> QED BY <2>1, EmptySeq
  <1>8. \A k \in 1 .. n : TLevel(k) /\ tStack[k].n \in Nat
    BY <1>4, <1>5, FrameType DEF TShape
  <1>9. TTop' = TTop
    BY <1>0, SameTree
  <1>10. tWalk # 2 => tCwd = tStack[n].dir
    BY <1>4, <1>5 DEF TWhere, TLast
  <1>11. THome'
    <2>1. ASSUME tStack' = <<>>, T!Homing' PROVE AtHome'
      <3>1. CASE tWalk = 2
        BY <1>0, <1>4, <1>6, <3>1 DEF THome, AtHome
      <3>2. CASE tArgv.absolute
        BY <1>0, <3>2 DEF AtHome
      <3>3. CASE tWalk # 2 /\ ~tArgv.absolute
        <4>1. T!Homing /\ n = 1
          BY <1>0, <1>7, <2>1, SameTree, Zenon
        <4>2. tCwd = TTop
          BY <1>8, <1>10, <3>3, <4>1 DEF TLevel
        <4>3. tCwd' = Home
          BY <1>0, <1>4, <1>6, <3>3, <4>1, <4>2, HomeAbove
        <4> QED BY <4>3 DEF AtHome
      <3> QED BY <3>1, <3>2, <3>3
    <2>2. tWalk = 2 => AtHome'
      BY <1>0, <1>4, <1>6 DEF THome, AtHome
    <2> QED BY <1>0, <2>1, <2>2 DEF THome
  <1>12. TShape'
    <2>1. ASSUME NEW k \in 1 .. n - 1 PROVE TLevel(k)'
      <3>1. TLevel(k) /\ tStack'[k] = tStack[k] /\ (k # 1 => tStack'[k - 1] = tStack[k - 1])
        BY <1>7, <1>8, <2>1
      <3> QED BY <1>0, <1>9, <3>1, SameTree DEF TLevel, T!Way, T!Entries, T!Nodes
    <2>2. tStack' \in Seq(Frames)' /\ tLevel' = Len(tStack')
      BY <1>0, <1>4, <1>5, <1>6, <1>7, Zenon DEF TShape, Frames
    <2>3. \A k \in 1 .. Len(tStack') : TLevel(k)'
      BY <1>7, <2>1
    <2>4. (tPc' = "loop" => tStack' # <<>>) /\ (tPc' \in {"end", "exit"} => tStack' = <<>>)
          /\ tPc' # "call"
      BY <1>6, <1>7
    <2> QED BY <2>2, <2>3, <2>4 DEF TShape
  <1>13. TWhere'
    <2>1. CASE n = 1
      BY <1>7, <2>1 DEF TWhere
    <2>2. CASE n # 1 /\ tWalk # 2
      <3>1. tStack[n].dir \in T!Entries(tStack[n - 1].dir)
        BY <1>8, <2>2 DEF TLevel
      <3>2. tCwd' = tStack'[n - 1].dir
        BY <1>6, <1>7, <1>10, <2>2, <3>1 DEF T!Entries
      <3> QED BY <1>0, <1>6, <1>7, <2>2, <3>2 DEF TWhere, TLast
    <2>3. CASE n # 1 /\ tWalk = 2
      <3>1. /\ tPath \in [absolute : BOOLEAN, steps : Seq(STRING)] /\ tPath.absolute = tArgv.absolute
            /\ tStack[n].n <= Len(tPath.steps) /\ tStack[n].n \in Nat
            /\ \A k \in 1 .. n : tStack[k].n <= tStack[n].n
        BY <1>4, <1>5, <1>8, <2>3 DEF TWhere
      <3>2. /\ tPath' = [absolute |-> tPath.absolute, steps |-> SubSeq(tPath.steps, 1, tStack[n].n)]
        BY <1>6, <2>3, <3>1
      <3>3. /\ tPath'.absolute = tArgv.absolute /\ tPath'.steps \in Seq(STRING)
            /\ tPath' \in [absolute : BOOLEAN, steps : Seq(STRING)]
            /\ Len(tPath'.steps) = tStack[n].n
            /\ \A x \in 1 .. tStack[n].n : tPath'.steps[x] = tPath.steps[x]
        BY <3>1, <3>2
      <3>4. ASSUME NEW k \in 1 .. n - 1
            PROVE  /\ tStack'[k].n <= Len(tPath'.steps)
                   /\ \A j \in 1 .. k : tStack'[j].n <= tStack'[k].n
                   /\ (T!Named(Cut(tStack[k].n), tCwd) = tStack[k].dir)'
        <4>1. /\ \A j \in 1 .. k : tStack[j].n <= tStack[k].n /\ tStack'[j] = tStack[j]
              /\ T!Named(Cut(tStack[k].n), tCwd) = tStack[k].dir
              /\ tStack[k].n \in Nat /\ tStack[k].n <= tStack[n].n /\ tStack'[k] = tStack[k]
          BY <1>4, <1>5, <1>7, <1>8, <2>3, <3>1, <3>4 DEF TWhere
        <4>2. PICK i \in Nat : i = tStack[k].n
          BY <4>1
        <4>3. Cut(i)' = Cut(i) /\ Cut(i).steps \in Seq(STRING)
          <5>1. /\ tPath.steps \in Seq(STRING) /\ tPath'.steps \in Seq(STRING)
                /\ i <= Len(tPath.steps) /\ i <= Len(tPath'.steps)
                /\ \A x \in 1 .. i : tPath'.steps[x] = tPath.steps[x]
            BY <3>1, <3>3, <4>1, <4>2
          <5>2. SubSeq(tPath'.steps, 1, i) = SubSeq(tPath.steps, 1, i)
                /\ SubSeq(tPath.steps, 1, i) \in Seq(STRING)
            BY <5>1, SameCut
          <5> QED BY <3>1, <3>3, <5>2 DEF Cut
        <4>4. T!Named(Cut(i), tCwd)' = T!Named(Cut(i), tCwd)
          BY <1>0, <1>6, <2>3, <4>3, NamedKept
        <4> QED BY <3>3, <4>1, <4>2, <4>4
      <3>5. tPc' # "call" /\ tWalk' = 2
        BY <1>0, <2>3
      <3> QED BY <1>0, <1>7, <3>3, <3>4, <3>5, Zenon DEF TWhere
    <2> QED BY <2>1, <2>2, <2>3
  <1>14. TPending' = TPending
    <2>1. DOMAIN tStack' = 1 .. n - 1 /\ DOMAIN tStack = 1 .. n
      BY <1>4, <1>5, <1>7
    <2>2. ASSUME NEW x \in T!Nodes
          PROVE  (\E k \in 1 .. n - 1 : x \in tStack'[k].todo)
                   <=> \E k \in 1 .. n : x \in tStack[k].todo
      BY <1>6, <1>7
    <2> QED BY <1>0, <2>1, <2>2 DEF TPending, T!Nodes
  <1>15. TReports'
    BY <1>0, <1>4, <1>14, SameReports
  <1> QED BY <1>3, <1>4, <1>9, <1>11, <1>12, <1>13, <1>15 DEF TWalking, T!Nodes

-----------------------------------------------------------------------------
(* The invariant holds at first.                                            *)
LEMMA TInitially == ASSUME T!Init PROVE TInv
  <1>1. TTypes
    BY TreeAssumption DEF T!Init, TTypes, T!Nodes, T!Walks
  <1>2. TStart
    BY DEF T!Init, TStart, T!Walks
  <1>3. TPast
    BY DEF T!Init, TPast, T!Walks
  <1>4. ~TActive
    BY DEF T!Init, TActive
  <1> QED BY <1>1, <1>2, <1>3, <1>4 DEF TInv

(* The steps of the other programs, and none.                               *)
LEMMA TStutters == ASSUME TInv, UNCHANGED tVars PROVE TInv'
  <1>1. UNCHANGED <<tKind, tArgv, tWalk, tPc, tPath, tCwd, tStack, tLevel, tReport>>
    BY DEF tVars
  <1>2. CASE tPc = "start"
    <2>1. TTypes' /\ TStart'
      BY <1>1 DEF TInv, TTypes, TStart, T!Nodes
    <2>2. tWalk = 1 /\ \A w \in 2 .. 3 : tReport[w] = <<>>
      BY <1>2 DEF TInv, TStart, TPast
    <2>3. TPast'
      BY <1>1, <2>2 DEF TPast
    <2>4. ~TActive'
      BY <1>1, <1>2 DEF TActive
    <2> QED BY <2>1, <2>3, <2>4 DEF TInv
  <1>3. CASE tPc # "start"
    <2>0. TTypes /\ tArgv \in Arguments /\ TPast
      BY <1>3 DEF TInv, TTypes
    <2>1. TTypes' /\ TStart' /\ TPast'
      <3>1. tReport' = [w \in 1 .. 3 |-> tReport'[w]]
            /\ tPc' \in {"call", "loop", "end", "exit", "failed"}
        BY <1>1, <1>3, <2>0 DEF TTypes
      <3> QED BY <1>1, <1>3, <2>0, <3>1, OtherWalks
    <2>2. ASSUME TActive' PROVE TWalking'
      <3>1. TWalking
        BY <1>1, <2>0, <2>2, SameTree DEF TInv, TActive
      <3>2. THome' /\ TTop' = TTop
        BY <1>1, <2>0, <3>1, SameTree DEF TWalking, THome, AtHome
      <3>3. CASE TTop = "none"
        BY <1>1, <3>1, <3>2, <3>3 DEF TWalking, TMissing, TLast
      <3>4. CASE TTop # "none"
        <4>1. TTop \in T!Nodes /\ TShape /\ TWhere /\ TReports /\ tStack \in Seq(Frames)
          BY <3>1, <3>4 DEF TWalking, TShape
        <4>2. TCur' = TCur
          BY <1>1, <3>2 DEF TCur, TLast
        <4>3. TShape'
          <5>1. \A k \in 1 .. Len(tStack) : TLevel(k)'
            BY <1>1, <2>0, <4>1, SameTree DEF TShape, TLevel
          <5> QED BY <1>1, <4>1, <4>2, <5>1 DEF TShape, Frames, T!Entries, T!Nodes, TLast
        <4>4. TPending' = TPending
          BY <1>1, <4>2 DEF TPending, T!Nodes
        <4>5. TReports'
          BY <1>1, <2>0, <4>1, <4>4, SameReports
        <4>6. TWhere'
          <5>1. CASE tStack = <<>>
            BY <1>1, <5>1 DEF TWhere
          <5>2. CASE tStack # <<>> /\ tWalk # 2
            BY <1>1, <4>1, <4>2, <5>2 DEF TWhere, TLast
          <5>3. CASE tStack # <<>> /\ tWalk = 2
            <6>1. tPath \in [absolute : BOOLEAN, steps : Seq(STRING)]
                  /\ tPath.absolute = tArgv.absolute
                  /\ (tPc = "call" => Len(tPath.steps) = TLast(tStack).n + 1)
              BY <4>1, <5>3 DEF TWhere
            <6>2. ASSUME NEW k \in 1 .. Len(tStack)
                  PROVE  /\ tStack[k].n <= Len(tPath.steps)
                         /\ \A j \in 1 .. k : tStack[j].n <= tStack[k].n
                         /\ (T!Named(Cut(tStack[k].n), tCwd) = tStack[k].dir)'
              <7>1. /\ tStack[k].n <= Len(tPath.steps)
                    /\ \A j \in 1 .. k : tStack[j].n <= tStack[k].n
                    /\ T!Named(Cut(tStack[k].n), tCwd) = tStack[k].dir
                    /\ tStack[k].n \in Nat
                BY <4>1, <5>3, <6>2, FrameType DEF TWhere
              <7>2. PICK i \in Nat : i = tStack[k].n
                BY <7>1
              <7>3. Cut(i)' = Cut(i) /\ Cut(i).steps \in Seq(STRING)
                BY <1>1, <6>1, <7>1, <7>2 DEF Cut
              <7>4. T!Named(Cut(i), tCwd)' = T!Named(Cut(i), tCwd)
                BY <1>1, <7>3, NamedKept
              <7> QED BY <1>1, <7>1, <7>2, <7>4
            <6> QED BY <1>1, <5>3, <6>1, <6>2 DEF TWhere, TLast
          <5> QED BY <5>1, <5>2, <5>3
        <4> QED BY <3>2, <3>4, <4>1, <4>3, <4>5, <4>6 DEF TWalking, T!Nodes
      <3> QED BY <3>3, <3>4
    <2> QED BY <2>1, <2>2 DEF TInv
  <1> QED BY <1>2, <1>3

(* Every step keeps the invariant.                                          *)
LEMMA TInductive == TInv /\ [Next]_vars => TInv'
  <1> SUFFICES ASSUME TInv, [Next]_vars PROVE TInv'
    OBVIOUS
  <1>1. CASE T!Next
    BY <1>1, TStarts, TNoDirectory, TUnreadable, TDescend, TReaddir, TLeave, TNextWalk DEF T!Next
  <1>2. CASE UNCHANGED tVars
    BY <1>2, TStutters
  <1>3. T!Next \/ UNCHANGED tVars
    BY DEF Next, vars
  <1> QED BY <1>1, <1>2, <1>3

(* The invariant says more than the property.                               *)
LEMMA TImplies == TInv => TreeReported
  <1> SUFFICES ASSUME TInv, NEW w \in 1 .. 3, w < tWalk \/ (w = tWalk /\ tPc \in {"end", "exit"}),
                      w = 1 \/ T!Homing
               PROVE  TDone(w)
    BY DEF TreeReported, T!TreeReported, TDone, T!Walks
  <1>0. TTypes /\ TPast /\ tWalk \in 1 .. 3
    BY DEF TInv, TTypes
  <1>1. CASE w < tWalk
    BY <1>0, <1>1 DEF TPast
  <1>2. CASE w = tWalk /\ tPc \in {"end", "exit"}
    <2>1. TWalking
      BY <1>2 DEF TInv, TActive
    <2> QED BY <1>0, <1>2, <2>1, WalkEnds
  <1> QED BY <1>1, <1>2

(* In every tree, with every argument and in every order in which readdir   *)
(* gives the entries, a walk of lab_fs/main.c that ends has reported each   *)
(* entry of the tree argv[1] named at first once, with its type and level:  *)
(* the first walk always, the two that are timed if argv[1] is absolute or  *)
(* a single name.                                                           *)
THEOREM TreeIsReported == Spec => []TreeReported
  <1>1. Init => TInv
    BY TInitially DEF Init
  <1> QED BY <1>1, TInductive, TImplies, PTL DEF Spec

-----------------------------------------------------------------------------
(* Streams (lab_01): the parents and their children.                        *)

(* The program that runs, and the number of its children.                   *)
sProg == IF program \in StreamPrograms THEN program ELSE "pipe"
sN == Len(Message[sProg])

(* The children that have written, and those that are over.                 *)
SWrote == {c \in S!Children : sChild[c] \in {"read", "done"}}
SDone == {c \in S!Children : sChild[c] = "done"}

(* Types, and what only the socket pair programs do.                        *)
STypes ==
  /\ sMain \in {"fork", "read", "answer", "wait", "drain", "done", "failed"}
  /\ sI \in Nat \ {0}
  /\ sChild \in [S!Children -> {"none", "write", "read", "done"}]
  /\ sUp \in Seq(S!Children) /\ sDown \in Seq(S!Children)
  /\ sGot \in [S!Children -> Seq(S!Children)]
  /\ sMain = "answer" => sReply \in S!Children
  /\ sGlued \in BOOLEAN
  /\ sMain \in {"read", "answer"} => sProg \in S!Pairs
  /\ sMain = "drain" => sProg \notin S!Pairs
  /\ \A c \in S!Children : sChild[c] = "read" => sProg \in S!Pairs

(* main.c of lab_01 forks a child, reads its message and answers before it  *)
(* forks the next.                                                          *)
SLock ==
  /\ ~ sGlued
  /\ sMain = "fork" => /\ sI <= sN + 1 /\ 1 .. sI - 1 \subseteq SWrote /\ sUp = <<>>
                       /\ \A c \in S!Children : c >= sI => sChild[c] = "none"
  /\ sMain \in {"read", "answer"} =>
       /\ sI <= sN /\ 1 .. sI - 1 \subseteq SWrote
       /\ \A c \in S!Children : c > sI => sChild[c] = "none"
  /\ sMain = "read" => IF sChild[sI] = "write" THEN sUp = <<>>
                       ELSE sUp = S!Bytes(sI, Message[sProg][sI]) /\ sI \in SWrote
  /\ sMain = "answer" => sUp = <<>> /\ sReply = sI /\ sI \in SWrote
  /\ sMain \in {"wait", "done"} => sUp = <<>> /\ SWrote = S!Children

(* The children together never read behind the first answer.                *)
SRead == Cardinality(SDone) * AnswerRead["lockstep"]
SFirst ==
  /\ \A k \in 1 .. Len(sDown) : k + SRead <= Reply["lockstep"] => sDown[k] = 1
  /\ IF sN = 0 \/ (sI = 1 /\ sMain \notin {"wait", "done"}) THEN sDown = <<>> /\ SDone = {}
     ELSE Len(sDown) + SRead >= Reply["lockstep"]
  /\ S!FirstAnswerServesAll

(* socketpair.c: each read has taken the message of a child at least, and   *)
(* one that returned two of them leaves too few for the others.             *)
SRace ==
  /\ sMain = "fork" => ~ sGlued /\ \A c \in S!Children : c >= sI => sChild[c] = "none"
  /\ sMain \in {"fork", "read", "answer"} => S!ToSet(sUp) \subseteq SWrote
  /\ sMain \in {"read", "answer"} =>
       sI - 1 + (IF sMain = "answer" THEN 1 ELSE 0) + (IF sGlued THEN 1 ELSE 0)
         + Cardinality(S!ToSet(sUp)) <= Cardinality(SWrote)
  /\ sMain \in {"wait", "done"} => ~ sGlued /\ sUp = <<>> /\ SWrote = S!Children

(* pipe.c and signal.c: no more bytes than the messages have that were      *)
(* written and, later, that are still to be read.                           *)
SLeft(B) == {x \in S!Children \X Nat : x[1] \in B /\ x[2] \in 1 .. Message[sProg][x[1]]}
SPipe ==
  /\ ~ sGlued
  /\ sMain = "fork" => \A c \in S!Children : c >= sI => sChild[c] = "none"
  /\ sMain = "wait" => sI = 1
  /\ sMain \in {"fork", "wait"} => Len(sUp) <= Cardinality(SLeft(SWrote))
  /\ sMain = "drain" => /\ SWrote = S!Children
                        /\ Len(sUp) <= Cardinality(SLeft({c \in S!Children : c >= sI}))
  /\ sMain = "done" => sUp = <<>> /\ SWrote = S!Children

SInv == /\ STypes
        /\ sProg = "lockstep" => SLock /\ SFirst
        /\ sProg = "race" => SRace
        /\ sProg \notin S!Pairs => SPipe

-----------------------------------------------------------------------------
(* The children and their messages.                                         *)
LEMMA SSizes ==
  /\ sProg \in {"lockstep", "race", "pipe", "signal"} /\ sN \in Nat /\ S!Children = 1 .. sN
  /\ IsFiniteSet(S!Children) /\ Cardinality(S!Children) = sN
  /\ \A c \in S!Children : Message[sProg][c] \in Nat \ {0}
  /\ sProg \in S!Pairs => Reply[sProg] \in Nat /\ AnswerRead[sProg] \in Nat
  /\ S!Pairs = {"lockstep", "race"}
  <1>1. sProg \in {"lockstep", "race", "pipe", "signal"}
    BY LabAssumption DEF sProg, StreamPrograms
  <1>2. Message[sProg] \in Seq(Nat \ {0})
    BY <1>1, LabAssumption, Zenon
  <1>3. sN \in Nat /\ S!Children = 1 .. sN /\ \A c \in S!Children : Message[sProg][c] \in Nat \ {0}
    BY <1>2 DEF sN, S!Children, S!NChildren, sProg
  <1>4. IsFiniteSet(S!Children) /\ Cardinality(S!Children) = sN
    <2>1. /\ IsFiniteSet(1 .. sN)
          /\ Cardinality(1 .. sN) = IF 1 > sN THEN 0 ELSE sN - 1 + 1
      BY <1>3, FS_Interval
    <2>2. Cardinality(1 .. sN) = sN
      BY <1>3, <2>1
    <2> QED BY <1>3, <2>1, <2>2
  <1> QED BY <1>1, <1>3, <1>4, LabAssumption, Zenon DEF S!Pairs

(* All of it depends on the program alone, which no step changes.           *)
LEMMA SSame ==
  ASSUME UNCHANGED program
  PROVE  sProg' = sProg /\ sN' = sN /\ S!Children' = S!Children /\ \A B : SLeft(B)' = SLeft(B)
  BY DEF sProg, sN, S!Children, S!NChildren, SLeft

(* n bytes of the message of child c ...                                    *)
LEMMA BytesFacts ==
  ASSUME NEW B, NEW c \in B, NEW n \in Nat
  PROVE  /\ S!Bytes(c, n) \in Seq(B) /\ Len(S!Bytes(c, n)) = n
         /\ \A k \in 1 .. n : S!Bytes(c, n)[k] = c
  BY DEF S!Bytes

(* ... what is left of a stream once n bytes of it are read ...             *)
LEMMA FromFacts ==
  ASSUME NEW B, NEW s \in Seq(B), NEW n \in Nat
  PROVE  /\ S!From(s, n) \in Seq(B)
         /\ n <= Len(s) => Len(S!From(s, n)) = Len(s) - n
         /\ n > Len(s) => S!From(s, n) = <<>>
         /\ \A k \in 1 .. Len(S!From(s, n)) : k + n \in 1 .. Len(s) /\ S!From(s, n)[k] = s[k + n]
  BY DEF S!From

(* ... and the bytes that were read.                                        *)
LEMMA UptoFacts ==
  ASSUME NEW B, NEW s \in Seq(B), NEW n \in Nat
  PROVE  /\ S!Upto(s, n) \in Seq(B) /\ Len(S!Upto(s, n)) <= n /\ Len(S!Upto(s, n)) <= Len(s)
         /\ \A k \in 1 .. Len(S!Upto(s, n)) : S!Upto(s, n)[k] = s[k]
  BY DEF S!Upto

(* What a child sends.                                                      *)
LEMMA SWriteFacts ==
  ASSUME STypes, NEW c \in S!Children, S!ChildWrite(c), UNCHANGED program
  PROVE  /\ sUp' \in Seq(S!Children) /\ (sUp' = sUp \/ sUp' = sUp \o S!Bytes(c, Message[sProg][c]))
         /\ S!Bytes(c, Message[sProg][c]) \in Seq(S!Children)
         /\ sChild' = [sChild EXCEPT ![c] = sChild'[c]] /\ sChild[c] = "write"
         /\ sChild'[c] \in {"read", "done"} /\ (sChild'[c] = "read" => sProg \in S!Pairs)
         /\ UNCHANGED <<sMain, sI, sDown, sReply, sGot, sGlued>>
         /\ c \notin SWrote /\ SWrote' = SWrote \cup {c}
  <1>1. S!Bytes(c, Message[sProg][c]) \in Seq(S!Children)
    BY SSizes, BytesFacts, Zenon
  <1>2. sUp' = sUp \/ sUp' = sUp \o S!Bytes(c, Message[sProg][c])
    BY DEF S!ChildWrite, sProg
  <1>3. sUp' \in Seq(S!Children)
    <2>1. PICK b \in Seq(S!Children) : b = S!Bytes(c, Message[sProg][c])
      BY <1>1
    <2>2. sUp \in Seq(S!Children) /\ (sUp' = sUp \/ sUp' = sUp \o b)
      BY <1>2, <2>1 DEF STypes
    <2> QED BY <2>1, <2>2, ConcatProperties, Zenon
  <1>4. /\ sChild' = [sChild EXCEPT ![c] = sChild'[c]] /\ sChild[c] = "write"
        /\ sChild'[c] \in {"read", "done"} /\ (sChild'[c] = "read" => sProg \in S!Pairs)
        /\ UNCHANGED <<sMain, sI, sDown, sReply, sGot, sGlued>>
    BY DEF S!ChildWrite, STypes, sProg
  <1>5. c \notin SWrote /\ SWrote' = SWrote \cup {c}
    BY <1>4, SSame, Zenon DEF STypes, SWrote
  <1> QED BY <1>1, <1>2, <1>3, <1>4, <1>5

(* What a child gets.                                                       *)
LEMMA SReadFacts ==
  ASSUME STypes, NEW c \in S!Children, S!ReadAnswer(c), UNCHANGED program
  PROVE  /\ sProg \in S!Pairs /\ sChild[c] = "read" /\ sChild' = [sChild EXCEPT ![c] = "done"]
         /\ sGot' = [sGot EXCEPT ![c] = S!Upto(sDown, AnswerRead[sProg])]
         /\ sDown' = S!From(sDown, AnswerRead[sProg])
         /\ sGot' \in [S!Children -> Seq(S!Children)] /\ sDown' \in Seq(S!Children)
         /\ UNCHANGED <<sMain, sI, sUp, sReply, sGlued>>
         /\ SWrote' = SWrote /\ c \notin SDone /\ SDone' = SDone \cup {c}
  <1>1. /\ sChild[c] = "read" /\ sChild' = [sChild EXCEPT ![c] = "done"]
        /\ sGot' = [sGot EXCEPT ![c] = S!Upto(sDown, AnswerRead[sProg])]
        /\ sDown' = S!From(sDown, AnswerRead[sProg])
        /\ UNCHANGED <<sMain, sI, sUp, sReply, sGlued>>
    BY DEF S!ReadAnswer, sProg
  <1>2. sProg \in S!Pairs /\ AnswerRead[sProg] \in Nat
    BY <1>1, SSizes DEF STypes
  <1>3. S!From(sDown, AnswerRead[sProg]) \in Seq(S!Children)
        /\ S!Upto(sDown, AnswerRead[sProg]) \in Seq(S!Children)
    BY <1>2, FromFacts, UptoFacts DEF STypes
  <1>4. sGot' \in [S!Children -> Seq(S!Children)] /\ sDown' \in Seq(S!Children)
    BY <1>1, <1>3 DEF STypes
  <1>5. SWrote' = SWrote /\ c \notin SDone /\ SDone' = SDone \cup {c}
    BY <1>1, SSame, Zenon DEF STypes, SWrote, SDone
  <1> QED BY <1>1, <1>2, <1>4, <1>5

(* Every step keeps the types.                                              *)
LEMMA STypesStep == ASSUME STypes, S!Next, UNCHANGED program PROVE STypes'
  <1>0. sProg' = sProg /\ S!Children' = S!Children /\ S!Pairs' = S!Pairs
    BY SSame DEF S!Pairs
  <1>1. CASE S!Fork
    <2>1. /\ sChild' = [sChild EXCEPT ![sI] = "write"] /\ UNCHANGED <<sUp, sDown, sGot, sGlued>>
          /\ sMain' = (IF sProg = "lockstep" THEN "read" ELSE "fork") /\ sI' \in {sI, sI + 1}
      BY <1>1 DEF S!Fork, sProg
    <2>2. /\ sChild' \in [S!Children -> {"none", "write", "read", "done"}]
          /\ \A c \in S!Children : sChild'[c] = "read" => sChild[c] = "read"
      BY <2>1, Zenon DEF STypes
    <2>3. sMain' \in {"read", "fork"} /\ (sMain' = "read" => sProg \in S!Pairs) /\ sI' \in Nat \ {0}
      BY <2>1 DEF STypes, S!Pairs
    <2> QED BY <1>0, <2>1, <2>2, <2>3 DEF STypes
  <1>2. CASE S!ForkFails
    BY <1>0, <1>2 DEF S!ForkFails, STypes
  <1>3. CASE S!Forked
    <2>1. /\ sMain' = (IF sProg = "race" THEN "read" ELSE "wait") /\ sI' = 1
          /\ UNCHANGED <<sChild, sUp, sDown, sGot, sGlued>>
      BY <1>3 DEF S!Forked, sProg
    <2> QED BY <1>0, <2>1 DEF STypes, S!Pairs
  <1>4. CASE S!ReadMessage
    <2>1. /\ sProg \in S!Pairs /\ sMain' = "answer" /\ sUp # <<>> /\ sUp' = <<>> /\ sReply' = Head(sUp)
          /\ sGlued' = (sGlued \/ sUp # S!Bytes(Head(sUp), Len(sUp)))
          /\ UNCHANGED <<sI, sChild, sDown, sGot>>
      BY <1>4 DEF S!ReadMessage, sProg
    <2>2. sGlued' \in BOOLEAN
      BY <2>1, Zenon
    <2>3. sReply' \in S!Children
      BY <2>1 DEF STypes
    <2> QED BY <1>0, <2>1, <2>2, <2>3 DEF STypes
  <1>5. CASE S!WriteAnswer
    <2>1. /\ sMain = "answer" /\ sDown' = sDown \o S!Bytes(sReply, Reply[sProg]) /\ sI' = sI + 1
          /\ sMain' = (IF sProg = "lockstep" THEN "fork" ELSE "read")
          /\ UNCHANGED <<sChild, sUp, sGot, sGlued>>
      BY <1>5 DEF S!WriteAnswer, sProg
    <2>2. PICK b \in Seq(S!Children) : b = S!Bytes(sReply, Reply[sProg])
      BY <2>1, SSizes, BytesFacts, Zenon DEF STypes
    <2>3. sDown' \in Seq(S!Children)
      BY <2>1, <2>2, ConcatProperties DEF STypes
    <2> QED BY <1>0, <2>1, <2>3, SSizes DEF STypes
  <1>6. CASE S!CloseSocket
    BY <1>0, <1>6 DEF S!CloseSocket, STypes
  <1>7. CASE S!Wait
    <2>1. /\ sMain' = (IF sProg \in S!Pairs THEN "done" ELSE "drain")
          /\ UNCHANGED <<sI, sChild, sUp, sDown, sGot, sGlued>>
      BY <1>7 DEF S!Wait, sProg
    <2> QED BY <1>0, <2>1 DEF STypes
  <1>8. CASE S!ReadPipe
    <2>1. /\ sMain = "drain" /\ sUp' = S!From(sUp, S!Size(sI)) /\ sI' = sI + 1
          /\ UNCHANGED <<sMain, sChild, sDown, sGot, sGlued>>
      BY <1>8 DEF S!ReadPipe
    <2>2. S!Size(sI) \in Nat
      <3>1. S!Size(sI) = IF sI <= sN THEN Message[sProg][sI] ELSE 1
        BY Zenon DEF S!Size, S!NChildren, sN, sProg
      <3>2. sI \in Nat \ {0}
        BY DEF STypes
      <3>3. sI <= sN => Message[sProg][sI] \in Nat
        BY <3>2, SSizes
      <3> QED BY <3>1, <3>3
    <2>3. sUp' \in Seq(S!Children)
      BY <2>1, <2>2, FromFacts DEF STypes
    <2> QED BY <1>0, <2>1, <2>3 DEF STypes
  <1>9. CASE S!Finish
    BY <1>0, <1>9 DEF S!Finish, STypes
  <1>10. CASE S!Sigint
    BY <1>0, <1>10 DEF S!Sigint, STypes
  <1>11. ASSUME NEW c \in S!Children, S!ChildWrite(c) PROVE STypes'
    BY <1>0, <1>11, SWriteFacts, Zenon DEF STypes
  <1>12. ASSUME NEW c \in S!Children, S!ReadAnswer(c) PROVE STypes'
    BY <1>0, <1>12, SReadFacts, Zenon DEF STypes
  <1> QED BY <1>1, <1>2, <1>3, <1>4, <1>5, <1>6, <1>7, <1>8, <1>9, <1>10, <1>11, <1>12
          DEF S!Next, S!Parent, S!Child

-----------------------------------------------------------------------------
(* What the children read of main.c.                                        *)
LEMMA SFirstStep ==
  ASSUME STypes, SLock, SFirst, sProg = "lockstep", S!Next, UNCHANGED program
  PROVE  SFirst'
  <1>01. PICK A \in Nat, R \in Nat : A = AnswerRead["lockstep"] /\ R = Reply["lockstep"]
    BY SSizes
  <1>0. /\ sProg' = sProg /\ S!Children' = S!Children /\ sN' = sN /\ sN \in Nat
        /\ A \in Nat /\ R \in Nat /\ R >= sN * A /\ S!Children = 1 .. sN
    BY <1>01, SSame, SSizes, LabAssumption DEF S!Pairs, sN
  <1>1. PICK d \in Nat : d = Cardinality(SDone) /\ IsFiniteSet(SDone) /\ d <= sN
    <2>1. IsFiniteSet(SDone) /\ Cardinality(SDone) <= Cardinality(S!Children)
      BY SSizes, FS_Subset DEF SDone
    <2> QED BY <2>1, SSizes, FS_CardinalityType
  <1>2. ASSUME UNCHANGED <<sDown, sGot>>, SDone' = SDone,
               sN = 0 \/ (sI' = 1 /\ sMain' \notin {"wait", "done"})
                 <=> sN = 0 \/ (sI = 1 /\ sMain \notin {"wait", "done"})
        PROVE  SFirst'
    <2>1. SRead' = SRead
      BY <1>2 DEF SRead
    <2>2. S!FirstAnswerServesAll'
      BY <1>0, <1>2 DEF SFirst, S!FirstAnswerServesAll, sProg
    <2> QED BY <1>0, <1>2, <2>1, <2>2 DEF SFirst
  <1>3. CASE S!Fork
    <2>1. /\ sMain = "fork" /\ sI \in S!Children /\ sChild' = [sChild EXCEPT ![sI] = "write"] /\ sI' = sI
          /\ sMain' = "read" /\ UNCHANGED <<sDown, sGot>>
      BY <1>0, <1>3, SSizes DEF S!Fork, sProg, S!NChildren, sN, STypes
    <2>2. sChild[sI] = "none"
      BY <1>0, <2>1 DEF SLock
    <2>3. SDone' = SDone
      BY <1>0, <2>1, <2>2 DEF SDone, STypes
    <2> QED BY <1>2, <2>1, <2>3
  <1>4. CASE S!ForkFails
    <2>1. sMain = "fork" /\ sMain' = "failed" /\ UNCHANGED <<sI, sChild, sDown, sGot>>
      BY <1>4 DEF S!ForkFails
    <2>2. SDone' = SDone
      BY <1>0, <2>1 DEF SDone
    <2> QED BY <1>2, <2>1, <2>2
  <1>5. CASE S!Forked
    <2>1. sMain = "fork" /\ sI > sN /\ sMain' = "wait" /\ UNCHANGED <<sChild, sDown, sGot>>
      BY <1>0, <1>5 DEF S!Forked, sProg, S!NChildren, sN
    <2>2. SDone' = SDone
      BY <1>0, <2>1 DEF SDone
    <2>3. sN # 0 => sI # 1
      BY <1>0, <2>1
    <2> QED BY <1>2, <2>1, <2>2, <2>3
  <1>6. CASE S!ReadMessage
    <2>1. sMain = "read" /\ sMain' = "answer" /\ UNCHANGED <<sI, sChild, sDown, sGot>>
      BY <1>6 DEF S!ReadMessage
    <2>2. SDone' = SDone
      BY <1>0, <2>1 DEF SDone
    <2> QED BY <1>2, <2>1, <2>2
  <1>7. CASE S!WriteAnswer
    <2>1. /\ sMain = "answer" /\ sDown' = sDown \o S!Bytes(sReply, R) /\ sI' = sI + 1
          /\ sMain' = "fork" /\ UNCHANGED <<sChild, sGot>>
      BY <1>0, <1>01, <1>7, Zenon DEF S!WriteAnswer, sProg
    <2>2. SDone' = SDone /\ SRead' = SRead
      BY <1>0, <2>1 DEF SDone, SRead
    <2>3. sReply = sI /\ sI \in S!Children /\ sN # 0 /\ sI' # 1
      BY <1>0, <2>1 DEF SLock, STypes
    <2>41. PICK b : b = S!Bytes(sReply, R)
      OBVIOUS
    <2>4. b \in Seq(S!Children) /\ b = S!Bytes(sReply, R) /\ Len(b) = R /\ \A k \in 1 .. R : b[k] = sReply
      BY <1>0, <2>3, <2>41, BytesFacts, Zenon
    <2>5. /\ sDown' = sDown \o b /\ sDown \in Seq(S!Children) /\ SRead \in Nat
      <3>1. SRead = d * A /\ d * A \in Nat
        BY <1>0, <1>01, <1>1 DEF SRead
      <3> QED BY <2>1, <2>4, <3>1 DEF STypes
    <2>6. /\ Len(sDown') = Len(sDown) + R /\ Len(sDown) \in Nat
          /\ \A k \in 1 .. Len(sDown) + R :
               sDown'[k] = IF k <= Len(sDown) THEN sDown[k] ELSE b[k - Len(sDown)]
      <3>1. /\ Len(sDown \o b) = Len(sDown) + Len(b)
            /\ \A k \in 1 .. Len(sDown) + Len(b) :
                 (sDown \o b)[k] = IF k <= Len(sDown) THEN sDown[k] ELSE b[k - Len(sDown)]
        BY <2>4, <2>5, ConcatProperties, Zenon
      <3>2. Len(sDown) \in Nat
        BY <2>5
      <3> QED BY <2>4, <2>5, <3>1, <3>2
    <2>7. S!FirstAnswerServesAll'
      BY <1>0, <2>1 DEF SFirst, S!FirstAnswerServesAll, sProg
    <2>8. ASSUME NEW k \in 1 .. Len(sDown'), k + SRead <= R PROVE sDown'[k] = 1
      <3>1. CASE k <= Len(sDown)
        BY <1>01, <2>6, <2>8, <3>1 DEF SFirst
      <3>2. CASE k > Len(sDown)
        <4>1. sI = 1
          BY <1>0, <1>01, <2>1, <2>3, <2>5, <2>6, <2>8, <3>2 DEF SFirst
        <4>2. k - Len(sDown) \in 1 .. R /\ sDown'[k] = b[k - Len(sDown)]
          BY <1>0, <2>6, <2>8, <3>2
        <4> QED BY <2>3, <2>4, <4>1, <4>2
      <3> QED BY <2>6, <3>1, <3>2
    <2>9. Len(sDown') + SRead >= R
      BY <1>0, <2>5, <2>6
    <2> QED BY <1>0, <1>01, <2>1, <2>2, <2>3, <2>7, <2>8, <2>9, Zenon DEF SFirst
  <1>8. CASE S!CloseSocket \/ S!ReadPipe \/ S!Finish
    BY <1>8, SSizes DEF S!CloseSocket, S!ReadPipe, S!Finish, STypes, sProg
  <1>9. CASE S!Wait
    <2>1. sMain = "wait" /\ sMain' = "done" /\ UNCHANGED <<sI, sChild, sDown, sGot>>
      BY <1>9, SSizes DEF S!Wait, sProg
    <2>2. SDone' = SDone
      BY <1>0, <2>1 DEF SDone
    <2> QED BY <1>2, <2>1, <2>2
  <1>10. CASE S!Sigint
    BY <1>10 DEF S!Sigint, sProg
  <1>11. ASSUME NEW c \in S!Children, S!ChildWrite(c) PROVE SFirst'
    <2>1. /\ sChild' = [sChild EXCEPT ![c] = "read"] /\ sChild[c] = "write"
          /\ UNCHANGED <<sMain, sI, sDown, sGot>>
      BY <1>11, SSizes, Zenon DEF S!ChildWrite, S!PeerClosed, sProg
    <2>2. SDone' = SDone
      BY <1>0, <2>1 DEF SDone, STypes
    <2> QED BY <1>2, <2>1, <2>2
  <1>12. ASSUME NEW c \in S!Children, S!ReadAnswer(c) PROVE SFirst'
    <2>1. /\ sGot' = [sGot EXCEPT ![c] = S!Upto(sDown, A)] /\ sDown' = S!From(sDown, A)
          /\ c \notin SDone /\ SDone' = SDone \cup {c} /\ UNCHANGED <<sMain, sI>>
          /\ sDown \in Seq(S!Children) /\ sGot \in [S!Children -> Seq(S!Children)]
      BY <1>01, <1>12, SReadFacts DEF STypes
    <2>2. sDown # <<>>
      BY <1>12 DEF S!ReadAnswer, S!PeerClosed, sProg
    <2>3. Cardinality(SDone') = d + 1 /\ d + 1 <= sN
      <3>1. IsFiniteSet(SDone \cup {c}) /\ Cardinality(SDone \cup {c}) = d + 1
        BY <1>1, <2>1, FS_AddElement, Zenon
      <3>2. SDone \cup {c} \subseteq S!Children
        BY DEF SDone
      <3>3. Cardinality(SDone \cup {c}) <= sN
        BY <3>2, SSizes, FS_Subset
      <3> QED BY <2>1, <3>1, <3>3
    <2>40. PICK t \in Nat : t = d * A
      BY <1>0
    <2>4. SRead = t /\ SRead' = t + A /\ t + A <= R
      <3>1. (d + 1) * A = t + A
        BY <1>0, <2>40
      <3>2. PICK n \in Nat : n = sN
        BY <1>0
      <3>3. (d + 1) * A <= n * A
        BY <1>0, <2>3, <3>2
      <3>4. SRead = t /\ SRead' = (d + 1) * A
        BY <1>01, <1>1, <2>3, <2>40 DEF SRead
      <3> QED BY <1>0, <3>1, <3>2, <3>3, <3>4
    <2>5. ~ (sN = 0 \/ (sI = 1 /\ sMain \notin {"wait", "done"})) /\ Len(sDown) + t >= R
      BY <1>01, <2>2, <2>4 DEF SFirst
    <2>6. /\ Len(sDown') = Len(sDown) - A /\ Len(sDown) \in Nat
          /\ \A k \in 1 .. Len(sDown') : k + A \in 1 .. Len(sDown) /\ sDown'[k] = sDown[k + A]
      <3>1. Len(sDown) \in Nat /\ A <= Len(sDown)
        BY <1>0, <2>1, <2>40, <2>4, <2>5
      <3>2. PICK f : f = S!From(sDown, A)
        OBVIOUS
      <3>3. /\ Len(f) = Len(sDown) - A
            /\ \A k \in 1 .. Len(f) : k + A \in 1 .. Len(sDown) /\ f[k] = sDown[k + A]
        <4>1. /\ A <= Len(sDown) => Len(S!From(sDown, A)) = Len(sDown) - A
              /\ \A k \in 1 .. Len(S!From(sDown, A)) :
                   k + A \in 1 .. Len(sDown) /\ S!From(sDown, A)[k] = sDown[k + A]
          <5>1. sDown \in Seq(S!Children) /\ A \in Nat
            BY <1>0, <2>1
          <5> QED BY <5>1, FromFacts, Zenon
        <4> QED BY <3>1, <3>2, <4>1
      <3> QED BY <2>1, <3>1, <3>2, <3>3
    <2>7. \A k \in 1 .. Len(sDown') : k + SRead' <= R => sDown'[k] = 1
      <3>1. ASSUME NEW k \in 1 .. Len(sDown'), k + SRead' <= R PROVE sDown'[k] = 1
        <4>1. k + A \in 1 .. Len(sDown) /\ (k + A) + SRead <= R
          <5>1. k + A \in 1 .. Len(sDown)
            BY <2>6, <3>1
          <5>2. k \in Nat /\ k + (t + A) <= R
            BY <1>0, <2>4, <2>6, <3>1
          <5>3. (k + A) + t <= R
            BY <1>0, <2>40, <5>2
          <5> QED BY <2>4, <5>1, <5>3
        <4> QED BY <1>01, <2>6, <3>1, <4>1, Zenon DEF SFirst
      <3> QED BY <3>1
    <2>8. Len(sDown') + SRead' >= R
      BY <1>0, <2>40, <2>4, <2>5, <2>6
    <2>9. S!FirstAnswerServesAll'
      <3>1. ASSUME NEW e \in S!Children, NEW k \in DOMAIN sGot'[e] PROVE sGot'[e][k] = 1
        <4>1. CASE e # c
          BY <1>0, <2>1, <3>1, <4>1 DEF SFirst, S!FirstAnswerServesAll, sProg
        <4>2. CASE e = c
          <5>0. PICK u : u = S!Upto(sDown, A)
            OBVIOUS
          <5>1. /\ u \in Seq(S!Children) /\ u = S!Upto(sDown, A)
                /\ Len(u) <= A /\ Len(u) <= Len(sDown)
                /\ \A j \in 1 .. Len(u) : u[j] = sDown[j]
            BY <1>0, <2>1, <5>0, UptoFacts, Zenon
          <5>2. sGot'[e] = u
            BY <2>1, <4>2, <5>1
          <5>3. k \in 1 .. Len(u) /\ k <= A /\ k \in 1 .. Len(sDown) /\ u[k] = sDown[k]
            BY <1>0, <2>6, <3>1, <5>1, <5>2
          <5>4. sDown[k] = 1
            <6>1. k + t <= R /\ t = SRead
              <7>1. k \in Nat /\ k <= A
                BY <2>6, <5>3
              <7>2. A \in Nat /\ R \in Nat
                BY <1>0
              <7> QED BY <2>40, <2>4, <7>1, <7>2
            <6> QED BY <1>01, <5>3, <6>1 DEF SFirst
          <5> QED BY <5>2, <5>3, <5>4
        <4> QED BY <4>1, <4>2
      <3> QED BY <1>0, <3>1 DEF S!FirstAnswerServesAll
    <2> QED BY <1>0, <1>01, <2>1, <2>5, <2>7, <2>8, <2>9 DEF SFirst
  <1> QED BY <1>3, <1>4, <1>5, <1>6, <1>7, <1>8, <1>9, <1>10, <1>11, <1>12
          DEF S!Next, S!Parent, S!Child

(* main.c of lab_01 and its children take turns.                            *)
LEMMA SLockStep ==
  ASSUME STypes, SLock, sProg = "lockstep", S!Next, UNCHANGED program
  PROVE  SLock'
  <1>0. /\ sProg' = sProg /\ S!Children' = S!Children /\ sN' = sN /\ sN \in Nat
        /\ S!Children = 1 .. sN /\ sI \in Nat \ {0}
        /\ sChild \in [S!Children -> {"none", "write", "read", "done"}]
    BY SSame, SSizes DEF STypes
  <1>1. CASE S!Fork
    <2>1. /\ sMain = "fork" /\ sI \in S!Children /\ sChild' = [sChild EXCEPT ![sI] = "write"] /\ sI' = sI
          /\ sMain' = "read" /\ UNCHANGED <<sUp, sGlued>>
      BY <1>0, <1>1, SSizes DEF S!Fork, sProg, S!NChildren, sN
    <2>2. \A c \in S!Children : c # sI => sChild'[c] = sChild[c]
      BY <1>0, <2>1
    <2>3. sChild'[sI] = "write"
      BY <1>0, <2>1
    <2> QED BY <1>0, <2>1, <2>2, <2>3 DEF SLock, SWrote
  <1>2. CASE S!ForkFails
    BY <1>0, <1>2 DEF S!ForkFails, SLock
  <1>3. CASE S!Forked
    <2>1. /\ sMain = "fork" /\ sI > sN /\ sMain' = "wait" /\ UNCHANGED <<sChild, sUp, sGlued>>
      BY <1>0, <1>3 DEF S!Forked, sProg, S!NChildren, sN
    <2>2. SWrote' = SWrote /\ SWrote = S!Children
      BY <1>0, <2>1 DEF SLock, SWrote
    <2> QED BY <1>0, <2>1, <2>2 DEF SLock
  <1>4. CASE S!ReadMessage
    <2>1. /\ sMain = "read" /\ sUp # <<>> /\ sUp' = <<>> /\ sReply' = Head(sUp)
          /\ sGlued' = (sGlued \/ sUp # S!Bytes(Head(sUp), Len(sUp)))
          /\ sMain' = "answer" /\ UNCHANGED <<sI, sChild>>
      BY <1>4 DEF S!ReadMessage
    <2>2. sUp = S!Bytes(sI, Message[sProg][sI]) /\ sI \in SWrote /\ sI \in S!Children
      BY <2>1 DEF SLock, SWrote
    <2>3. PICK m \in Nat \ {0} : m = Message[sProg][sI]
      BY <2>2, SSizes
    <2>4. Len(S!Bytes(sI, m)) = m /\ S!Bytes(sI, m) # <<>> /\ Head(S!Bytes(sI, m)) = sI
      BY <1>0, <2>3 DEF S!Bytes
    <2>5. sReply' = sI /\ ~ sGlued'
      BY <2>1, <2>2, <2>3, <2>4, Zenon DEF SLock
    <2>6. SWrote' = SWrote
      BY <1>0, <2>1 DEF SWrote
    <2> QED BY <1>0, <2>1, <2>2, <2>5, <2>6 DEF SLock
  <1>5. CASE S!WriteAnswer
    <2>1. /\ sMain = "answer" /\ sI' = sI + 1 /\ sMain' = "fork" /\ UNCHANGED <<sChild, sUp, sGlued>>
      BY <1>0, <1>5 DEF S!WriteAnswer, sProg
    <2>2. SWrote' = SWrote
      BY <1>0, <2>1 DEF SWrote
    <2> QED BY <1>0, <2>1, <2>2 DEF SLock
  <1>6. CASE S!CloseSocket \/ S!ReadPipe \/ S!Finish
    BY <1>6, SSizes DEF S!CloseSocket, S!ReadPipe, S!Finish, STypes, sProg
  <1>7. CASE S!Wait
    <2>1. sMain = "wait" /\ sMain' = "done" /\ UNCHANGED <<sI, sChild, sUp, sGlued>>
      BY <1>7, SSizes DEF S!Wait, sProg
    <2>2. SWrote' = SWrote
      BY <1>0, <2>1 DEF SWrote
    <2> QED BY <1>0, <2>1, <2>2 DEF SLock
  <1>8. CASE S!Sigint
    BY <1>8 DEF S!Sigint, sProg
  <1>9. ASSUME NEW c \in S!Children, S!ChildWrite(c) PROVE SLock'
    <2>1. /\ sChild' = [sChild EXCEPT ![c] = sChild'[c]] /\ sChild[c] = "write"
          /\ sChild'[c] \in {"read", "done"} /\ SWrote' = SWrote \cup {c} /\ c \notin SWrote
          /\ UNCHANGED <<sMain, sI, sReply, sGlued>>
      BY <1>9, SWriteFacts
    <2>2. sUp' = sUp \o S!Bytes(c, Message[sProg][c])
      BY <1>9 DEF S!ChildWrite, S!PeerClosed, sProg
    <2>3. CASE sMain = "failed"
      BY <1>0, <2>1, <2>3 DEF SLock
    <2>4. CASE sMain # "failed"
      <3>1. sMain = "read" /\ c = sI
        <4>1. sMain \in {"fork", "read", "answer", "wait", "done"}
          BY <2>4, SSizes DEF STypes
        <4>2. c \in 1 .. sI - 1 \/ c = sI \/ c > sI
          BY <1>0
        <4> QED BY <1>0, <2>1, <4>1, <4>2 DEF SLock
      <3>2. sUp = <<>>
        BY <2>1, <3>1 DEF SLock
      <3>3. PICK b \in Seq(S!Children) : b = S!Bytes(c, Message[sProg][c])
        BY SSizes, BytesFacts, Zenon
      <3>4. sUp' = S!Bytes(c, Message[sProg][c])
        BY <2>2, <3>2, <3>3
      <3>5. \A e \in S!Children : e > sI => sChild'[e] = sChild[e]
        BY <1>0, <2>1, <3>1
      <3> QED BY <1>0, <2>1, <3>1, <3>4, <3>5 DEF SLock
    <2> QED BY <2>3, <2>4
  <1>10. ASSUME NEW c \in S!Children, S!ReadAnswer(c) PROVE SLock'
    <2>1. /\ sChild[c] = "read" /\ sChild' = [sChild EXCEPT ![c] = "done"] /\ SWrote' = SWrote
          /\ UNCHANGED <<sMain, sI, sUp, sReply, sGlued>>
      BY <1>10, SReadFacts
    <2>2. \A e \in S!Children : /\ sChild'[e] = "none" <=> sChild[e] = "none"
                                /\ sChild'[e] = "write" <=> sChild[e] = "write"
      BY <1>0, <2>1
    <2> QED BY <1>0, <2>1, <2>2 DEF SLock
  <1> QED BY <1>1, <1>2, <1>3, <1>4, <1>5, <1>6, <1>7, <1>8, <1>9, <1>10
          DEF S!Next, S!Parent, S!Child

(* socketpair.c: the messages that were read, are there, and were written.  *)
LEMMA SRaceStep ==
  ASSUME STypes, SRace, sProg = "race", S!Next, UNCHANGED program
  PROVE  SRace'
  <1>0. /\ sProg' = sProg /\ S!Children' = S!Children /\ sN' = sN /\ sN \in Nat
        /\ S!Children = 1 .. sN /\ sI \in Nat \ {0} /\ sUp \in Seq(S!Children)
        /\ sChild \in [S!Children -> {"none", "write", "read", "done"}] /\ sGlued \in BOOLEAN
    BY SSame, SSizes DEF STypes
  <1>01. PICK w \in Nat : /\ w = Cardinality(SWrote) /\ IsFiniteSet(SWrote) /\ w <= sN
                          /\ w = sN => SWrote = S!Children
    <2>1. /\ IsFiniteSet(SWrote) /\ Cardinality(SWrote) <= Cardinality(S!Children)
          /\ Cardinality(SWrote) = Cardinality(S!Children) => SWrote = S!Children
      BY SSizes, FS_Subset, Zenon DEF SWrote
    <2> QED BY <2>1, SSizes, FS_CardinalityType
  <1>02. PICK u \in Nat : /\ u = Cardinality(S!ToSet(sUp)) /\ IsFiniteSet(S!ToSet(sUp))
                          /\ S!ToSet(sUp) \subseteq S!Children
                          /\ u = 0 => sUp = <<>>
                          /\ sUp = <<>> => u = 0
    <2>1. S!ToSet(sUp) \subseteq S!Children
      BY <1>0 DEF S!ToSet
    <2>2. IsFiniteSet(S!ToSet(sUp)) /\ Cardinality(S!ToSet(sUp)) \in Nat
      BY <2>1, SSizes, FS_Subset, FS_CardinalityType
    <2>3. sUp = <<>> <=> S!ToSet(sUp) = {}
      <3>1. sUp # <<>> => sUp[1] \in S!ToSet(sUp)
        BY <1>0 DEF S!ToSet
      <3> QED BY <3>1 DEF S!ToSet
    <2> QED BY <2>1, <2>2, <2>3, FS_EmptySet
  <1>2. CASE S!Fork
    <2>1. /\ sMain = "fork" /\ sI \in S!Children /\ sChild' = [sChild EXCEPT ![sI] = "write"]
          /\ sMain' = "fork" /\ UNCHANGED <<sUp, sGlued>>
      BY <1>0, <1>2, SSizes DEF S!Fork, sProg, S!NChildren, sN
    <2>2. sChild[sI] = "none"
      BY <1>0, <2>1 DEF SRace
    <2>3. SWrote' = SWrote
      BY <1>0, <2>1, <2>2 DEF SWrote
    <2>4. \A c \in S!Children : c >= sI' => sChild'[c] = "none"
      <3>1. sI' = sI + 1
        BY <1>0, <1>2 DEF S!Fork, sProg
      <3> QED BY <1>0, <2>1, <3>1 DEF SRace
    <2> QED BY <1>0, <2>1, <2>3, <2>4 DEF SRace
  <1>3. CASE S!ForkFails
    BY <1>0, <1>3 DEF S!ForkFails, SRace
  <1>4. CASE S!Forked
    <2>1. /\ sMain = "fork" /\ sMain' = "read" /\ sI' = 1 /\ UNCHANGED <<sChild, sUp, sGlued>>
      BY <1>0, <1>4 DEF S!Forked, sProg
    <2>2. SWrote' = SWrote
      BY <1>0, <2>1 DEF SWrote
    <2>3. ~ sGlued /\ S!ToSet(sUp) \subseteq SWrote
      BY <2>1 DEF SRace
    <2>4. u <= w
      BY <1>01, <1>02, <2>3, FS_Subset
    <2> QED BY <1>0, <1>01, <1>02, <2>1, <2>2, <2>3, <2>4 DEF SRace
  <1>5. CASE S!ReadMessage
    <2>1. /\ sMain = "read" /\ sUp # <<>> /\ sUp' = <<>>
          /\ sGlued' = (sGlued \/ sUp # S!Bytes(Head(sUp), Len(sUp)))
          /\ sMain' = "answer" /\ UNCHANGED <<sI, sChild>>
      BY <1>5 DEF S!ReadMessage
    <2>2. SWrote' = SWrote
      BY <1>0, <2>1 DEF SWrote
    <2>3. sI - 1 + (IF sGlued THEN 1 ELSE 0) + u <= w
      BY <1>0, <1>01, <1>02, <2>1 DEF SRace
    <2>4. u >= 1
      BY <1>02, <2>1
    <2>5. sUp # S!Bytes(Head(sUp), Len(sUp)) => u >= 2
      <3>1. SUFFICES ASSUME sUp # S!Bytes(Head(sUp), Len(sUp)) PROVE u >= 2
        OBVIOUS
      <3>2. PICK k \in 1 .. Len(sUp) : sUp[k] # sUp[1]
        <4>1. Len(sUp) \in Nat /\ Head(sUp) = sUp[1] /\ sUp = [k \in 1 .. Len(sUp) |-> sUp[k]]
          BY <1>0, <2>1
        <4> QED BY <3>1, <4>1 DEF S!Bytes
      <3>3. {sUp[1], sUp[k]} \subseteq S!ToSet(sUp)
        BY <1>0, <2>1 DEF S!ToSet
      <3>4. Cardinality({sUp[1], sUp[k]}) = 2
        <4>1. PICK a, e : a = sUp[1] /\ e = sUp[k]
          OBVIOUS
        <4>2. a # e
          BY <3>2, <4>1, Zenon
        <4>3. IsFiniteSet({a}) /\ Cardinality({a}) = 1
          BY FS_Singleton, Zenon
        <4>4. Cardinality({a} \cup {e}) = IF e \in {a} THEN Cardinality({a}) ELSE Cardinality({a}) + 1
          BY <4>3, FS_AddElement, Zenon
        <4>5. Cardinality({a} \cup {e}) = 2
          BY <4>2, <4>3, <4>4
        <4>6. {sUp[1], sUp[k]} = {a} \cup {e}
          BY <4>1, Zenon
        <4> QED BY <4>5, <4>6, Zenon
      <3> QED BY <1>02, <3>3, <3>4, FS_Subset
    <2>6. S!ToSet(sUp') = {} /\ Cardinality(S!ToSet(sUp')) = 0
      <3>1. S!ToSet(<<>>) = {}
        BY DEF S!ToSet
      <3> QED BY <2>1, <3>1, FS_EmptySet, Zenon
    <2>7. sI - 1 + 1 + (IF sGlued' THEN 1 ELSE 0) + 0 <= w
      <3>1. CASE sGlued'
        BY <1>0, <1>01, <1>02, <2>1, <2>3, <2>4, <2>5, <3>1
      <3>2. CASE ~ sGlued'
        BY <1>0, <1>01, <1>02, <2>1, <2>3, <2>4, <3>2
      <3> QED BY <3>1, <3>2
    <2> QED BY <1>0, <1>01, <2>1, <2>2, <2>6, <2>7 DEF SRace
  <1>6. CASE S!WriteAnswer
    <2>1. /\ sMain = "answer" /\ sI' = sI + 1 /\ sMain' = "read" /\ UNCHANGED <<sChild, sUp, sGlued>>
      BY <1>0, <1>6 DEF S!WriteAnswer, sProg
    <2>2. SWrote' = SWrote
      BY <1>0, <2>1 DEF SWrote
    <2>3. sI - 1 + 1 + (IF sGlued THEN 1 ELSE 0) + u <= w /\ S!ToSet(sUp) \subseteq SWrote
      BY <1>01, <1>02, <2>1 DEF SRace
    <2>4. sI' - 1 + 0 + (IF sGlued THEN 1 ELSE 0) + u <= w
      BY <1>0, <2>1, <2>3
    <2> QED BY <1>0, <1>01, <1>02, <2>1, <2>2, <2>3, <2>4 DEF SRace
  <1>7. CASE S!CloseSocket
    <2>1. sMain = "read" /\ sI > sN /\ sMain' = "wait" /\ UNCHANGED <<sI, sChild, sUp, sGlued>>
      BY <1>0, <1>7 DEF S!CloseSocket, sProg, S!NChildren, sN
    <2>2. SWrote' = SWrote
      BY <1>0, <2>1 DEF SWrote
    <2>3. sI - 1 + (IF sGlued THEN 1 ELSE 0) + u <= w
      BY <1>0, <1>01, <1>02, <2>1 DEF SRace
    <2>4. ~ sGlued /\ u = 0 /\ w = sN
      BY <1>0, <1>01, <1>02, <2>1, <2>3
    <2> QED BY <1>0, <1>01, <1>02, <2>1, <2>2, <2>4 DEF SRace
  <1>8. CASE S!ReadPipe \/ S!Finish
    BY <1>8, SSizes DEF S!ReadPipe, S!Finish, STypes
  <1>9. CASE S!Wait
    <2>1. sMain = "wait" /\ sMain' = "done" /\ UNCHANGED <<sI, sChild, sUp, sGlued>>
      BY <1>9, SSizes DEF S!Wait, sProg
    <2>2. SWrote' = SWrote
      BY <1>0, <2>1 DEF SWrote
    <2> QED BY <1>0, <2>1, <2>2 DEF SRace
  <1>10. CASE S!Sigint
    BY <1>10 DEF S!Sigint, sProg
  <1>11. ASSUME NEW c \in S!Children, S!ChildWrite(c) PROVE SRace'
    <2>1. /\ SWrote' = SWrote \cup {c} /\ c \notin SWrote /\ UNCHANGED <<sMain, sI, sGlued>>
          /\ sUp' = sUp \/ sUp' = sUp \o S!Bytes(c, Message[sProg][c])
      BY <1>11, SWriteFacts
    <2>2. sMain \notin {"wait", "done"}
      BY <2>1 DEF SRace
    <2>3. S!ToSet(sUp') \subseteq S!ToSet(sUp) \cup {c}
      <3>1. PICK m \in Nat : m = Message[sProg][c]
        BY SSizes
      <3>20. PICK b : b = S!Bytes(c, m)
        OBVIOUS
      <3>2. b \in Seq(S!Children) /\ b = S!Bytes(c, m) /\ Len(b) = m /\ \A k \in 1 .. m : b[k] = c
        <4>1. /\ S!Bytes(c, m) \in Seq(S!Children) /\ Len(S!Bytes(c, m)) = m
              /\ \A k \in 1 .. m : S!Bytes(c, m)[k] = c
          BY BytesFacts, Zenon
        <4> QED BY <3>20, <4>1
      <3>3. CASE sUp' = sUp \o b
        <4>1. /\ Len(sUp') = Len(sUp) + m /\ Len(sUp) \in Nat /\ sUp' \in Seq(S!Children)
              /\ \A k \in 1 .. Len(sUp) + m :
                   sUp'[k] = IF k <= Len(sUp) THEN sUp[k] ELSE b[k - Len(sUp)]
          BY <1>0, <3>2, <3>3, ConcatProperties
        <4>2. DOMAIN sUp' = 1 .. Len(sUp) + m /\ DOMAIN sUp = 1 .. Len(sUp)
          BY <1>0, <4>1
        <4>3. ASSUME NEW k \in 1 .. Len(sUp) + m PROVE sUp'[k] \in S!ToSet(sUp) \cup {c}
          <5>1. CASE k <= Len(sUp)
            BY <4>1, <4>2, <4>3, <5>1 DEF S!ToSet
          <5>2. CASE k > Len(sUp)
            <6>1. k - Len(sUp) \in 1 .. m
              BY <3>1, <4>1, <4>3, <5>2
            <6>2. sUp'[k] = b[k - Len(sUp)]
              BY <3>1, <4>1, <4>3, <5>2
            <6> QED BY <3>2, <6>1, <6>2
          <5> QED BY <3>1, <4>1, <4>3, <5>1, <5>2
        <4> QED BY <4>2, <4>3 DEF S!ToSet
      <3>4. CASE sUp' = sUp
        BY <3>4 DEF S!ToSet
      <3> QED BY <2>1, <3>1, <3>2, <3>3, <3>4, Zenon
    <2>4. Cardinality(SWrote') = w + 1
      BY <1>01, <2>1, FS_AddElement, Zenon
    <2>5. PICK v \in Nat : v = Cardinality(S!ToSet(sUp')) /\ v <= u + 1
      <3>1. IsFiniteSet(S!ToSet(sUp) \cup {c}) /\ Cardinality(S!ToSet(sUp) \cup {c}) <= u + 1
        <4>0. PICK X : X = S!ToSet(sUp)
          OBVIOUS
        <4>1. IsFiniteSet(X) /\ Cardinality(X) = u
          BY <1>02, <4>0
        <4>2. IsFiniteSet(X \cup {c}) /\ (c \notin X => Cardinality(X \cup {c}) = u + 1)
          BY <4>1, FS_AddElement
        <4>3. c \in X => X \cup {c} = X
          OBVIOUS
        <4>4. Cardinality(X \cup {c}) = u \/ Cardinality(X \cup {c}) = u + 1
          BY <4>1, <4>2, <4>3
        <4> QED BY <4>0, <4>2, <4>4
      <3> QED BY <2>3, <3>1, FS_Subset, FS_CardinalityType
    <2>6. CASE sMain \in {"fork", "failed"}
      <3>1. sMain = "fork" => \A e \in S!Children : e >= sI => sChild'[e] = "none"
        BY <1>0, <1>11, SWriteFacts, Zenon DEF SRace
      <3> QED BY <1>0, <2>1, <2>3, <2>6, <3>1 DEF SRace
    <2>7. CASE sMain \in {"read", "answer"}
      <3>1. /\ S!ToSet(sUp) \subseteq SWrote
            /\ sI - 1 + (IF sMain = "answer" THEN 1 ELSE 0) + (IF sGlued THEN 1 ELSE 0) + u <= w
        BY <1>01, <1>02, <2>7 DEF SRace
      <3>2. sI - 1 + (IF sMain = "answer" THEN 1 ELSE 0) + (IF sGlued THEN 1 ELSE 0) + v <= w + 1
        BY <1>0, <2>5, <3>1
      <3> QED BY <1>0, <2>1, <2>3, <2>4, <2>5, <2>7, <3>1, <3>2 DEF SRace
    <2> QED BY <2>2, <2>6, <2>7, SSizes DEF STypes
  <1>12. ASSUME NEW c \in S!Children, S!ReadAnswer(c) PROVE SRace'
    <2>1. /\ sChild[c] = "read" /\ sChild' = [sChild EXCEPT ![c] = "done"] /\ SWrote' = SWrote
          /\ UNCHANGED <<sMain, sI, sUp, sGlued>>
      BY <1>12, SReadFacts
    <2>2. \A e \in S!Children : sChild[e] = "none" => sChild'[e] = "none"
      BY <1>0, <2>1
    <2> QED BY <1>0, <2>1, <2>2 DEF SRace
  <1> QED BY <1>2, <1>3, <1>4, <1>5, <1>6, <1>7, <1>8, <1>9, <1>10, <1>11, <1>12
          DEF S!Next, S!Parent, S!Child

-----------------------------------------------------------------------------
(* The bytes of the messages of some children.                              *)
LEMMA LeftFacts ==
  ASSUME NEW B \in SUBSET S!Children
  PROVE  /\ IsFiniteSet(SLeft(B)) /\ Cardinality(SLeft(B)) \in Nat
         /\ B = {} => Cardinality(SLeft(B)) = 0
         /\ \A c \in S!Children : c \notin B =>
              Cardinality(SLeft(B \cup {c})) = Cardinality(SLeft(B)) + Message[sProg][c]
  <1> DEFINE Of(c) == {c} \X (1 .. Message[sProg][c])
             f == [c \in S!Children |-> Of(c)]
             U == {Of(c) : c \in S!Children}
  <1>1. ASSUME NEW c \in S!Children
        PROVE  /\ IsFiniteSet(Of(c)) /\ Cardinality(Of(c)) = Message[sProg][c]
               /\ Message[sProg][c] \in Nat
    <2>1. PICK m \in Nat : m = Message[sProg][c] /\ m # 0
      BY SSizes
    <2>2. IsFiniteSet(1 .. m) /\ Cardinality(1 .. m) = m
      <3>1. IsFiniteSet(1 .. m) /\ Cardinality(1 .. m) = IF 1 > m THEN 0 ELSE m - 1 + 1
        <4>1. m \in Int /\ 1 \in Int
          OBVIOUS
        <4> QED BY <4>1, FS_Interval, Zenon
      <3> QED BY <2>1, <3>1
    <2>3. IsFiniteSet({c}) /\ Cardinality({c}) = 1
      BY FS_Singleton, Zenon
    <2>4. IsFiniteSet({c} \X (1 .. m)) /\ Cardinality({c} \X (1 .. m)) = 1 * m
      BY <2>2, <2>3, FS_Product, Zenon
    <2> QED BY <2>1, <2>4
  <1>2. IsFiniteSet(UNION U)
    <2>1. f \in Surjection(S!Children, U)
      BY DEF Surjection
    <2>2. IsFiniteSet(U)
      BY <2>1, SSizes, FS_Surjection
    <2>3. \A x \in U : IsFiniteSet(x)
      BY <1>1
    <2> HIDE DEF U
    <2> QED BY <2>2, <2>3, FS_UNION
  <1>3. IsFiniteSet(SLeft(B)) /\ Cardinality(SLeft(B)) \in Nat
    <2>1. SLeft(B) \subseteq UNION U
      BY SSizes DEF SLeft
    <2> QED BY <1>2, <2>1, FS_Subset, FS_CardinalityType
  <1>4. B = {} => Cardinality(SLeft(B)) = 0
    <2>1. B = {} => SLeft(B) = {}
      BY DEF SLeft
    <2> QED BY <2>1, FS_EmptySet
  <1>5. ASSUME NEW c \in S!Children, c \notin B
        PROVE  Cardinality(SLeft(B \cup {c})) = Cardinality(SLeft(B)) + Message[sProg][c]
    <2>1. PICK m \in Nat : m = Message[sProg][c] /\ m # 0
      BY SSizes
    <2>2. SLeft(B \cup {c}) = SLeft(B) \cup Of(c) /\ SLeft(B) \cap Of(c) = {}
      BY <1>5, <2>1 DEF SLeft
    <2>3. PICK X, Y : X = SLeft(B) /\ Y = Of(c)
      BY Zenon
    <2>4. IsFiniteSet(X) /\ IsFiniteSet(Y) /\ X \cap Y = {} /\ Cardinality(Y) = m /\ Cardinality(X) \in Nat
      BY <1>1, <1>3, <2>1, <2>2, <2>3
    <2>5. Cardinality(X \cup Y) = Cardinality(X) + Cardinality(Y) - Cardinality({})
      BY <2>4, FS_Union
    <2>6. Cardinality(X \cup Y) = Cardinality(X) + m
      BY <2>4, <2>5, FS_EmptySet
    <2> QED BY <2>1, <2>2, <2>3, <2>6
  <1> QED BY <1>3, <1>4, <1>5

(* pipe.c and signal.c: what is in the pipe, and what is still read.        *)
LEMMA SPipeStep ==
  ASSUME STypes, SPipe, sProg \notin S!Pairs, S!Next, UNCHANGED program
  PROVE  SPipe'
  <1>0. /\ sProg' = sProg /\ S!Children' = S!Children /\ sN' = sN /\ sN \in Nat
        /\ S!Children = 1 .. sN /\ sI \in Nat \ {0} /\ sUp \in Seq(S!Children)
        /\ sChild \in [S!Children -> {"none", "write", "read", "done"}]
        /\ \A B : SLeft(B)' = SLeft(B)
    BY SSame, SSizes DEF STypes
  <1>2. CASE S!Fork
    <2>1. /\ sMain = "fork" /\ sI \in S!Children /\ sChild' = [sChild EXCEPT ![sI] = "write"]
          /\ sMain' = "fork" /\ sI' = sI + 1 /\ UNCHANGED <<sUp, sGlued>>
      BY <1>0, <1>2, SSizes DEF S!Fork, sProg, S!NChildren, sN
    <2>2. sChild[sI] = "none"
      BY <1>0, <2>1 DEF SPipe
    <2>3. SWrote' = SWrote
      BY <1>0, <2>1, <2>2 DEF SWrote
    <2>4. \A c \in S!Children : c >= sI' => sChild'[c] = "none"
      BY <1>0, <2>1 DEF SPipe
    <2> QED BY <1>0, <2>1, <2>3, <2>4 DEF SPipe
  <1>3. CASE S!ForkFails
    BY <1>0, <1>3 DEF S!ForkFails, SPipe
  <1>4. CASE S!Forked
    <2>1. /\ sMain = "fork" /\ sMain' = "wait" /\ sI' = 1 /\ UNCHANGED <<sChild, sUp, sGlued>>
      BY <1>0, <1>4, SSizes DEF S!Forked, sProg
    <2>2. SWrote' = SWrote
      BY <1>0, <2>1 DEF SWrote
    <2> QED BY <1>0, <2>1, <2>2 DEF SPipe
  <1>5. CASE S!ReadMessage \/ S!WriteAnswer \/ S!CloseSocket
    BY <1>5, SSizes DEF S!ReadMessage, S!WriteAnswer, S!CloseSocket, STypes, sProg
  <1>6. CASE S!Wait
    <2>1. /\ sMain = "wait" /\ sMain' = "drain" /\ UNCHANGED <<sI, sChild, sUp, sGlued>>
          /\ \A c \in S!Children : sChild[c] = "done"
      BY <1>6, SSizes DEF S!Wait, sProg
    <2>2. SWrote' = SWrote /\ SWrote = S!Children
      BY <1>0, <2>1 DEF SWrote
    <2>3. sI = 1 /\ {c \in S!Children : c >= 1} = S!Children
      BY <1>0, <2>1 DEF SPipe
    <2> QED BY <1>0, <2>1, <2>2, <2>3, Zenon DEF SPipe
  <1>7. CASE S!ReadPipe
    <2>1. /\ sMain = "drain" /\ sMain' = "drain" /\ sUp' = S!From(sUp, S!Size(sI)) /\ sI' = sI + 1
          /\ UNCHANGED <<sChild, sGlued>>
      BY <1>7 DEF S!ReadPipe
    <2>2. SWrote' = SWrote
      BY <1>0, <2>1 DEF SWrote
    <2>3. PICK z \in Nat \ {0} : z = S!Size(sI) /\ (sI <= sN => z = Message[sProg][sI])
      BY <1>0, SSizes DEF S!Size, S!NChildren, sN, sProg
    <2>4. PICK X, Y : X = {c \in S!Children : c >= sI} /\ Y = {c \in S!Children : c >= sI + 1}
      BY Zenon
    <2>5. PICK x \in Nat, y \in Nat : x = Cardinality(SLeft(X)) /\ y = Cardinality(SLeft(Y))
      BY <2>4, LeftFacts, Zenon
    <2>6. Len(sUp) <= x
      BY <2>1, <2>4, <2>5 DEF SPipe
    <2>7. x <= y + z
      <3>1. CASE sI <= sN
        <4>1. X = Y \cup {sI} /\ sI \notin Y /\ Y \in SUBSET S!Children /\ sI \in S!Children
          BY <1>0, <2>4, <3>1
        <4>2. Cardinality(SLeft(Y \cup {sI})) = Cardinality(SLeft(Y)) + Message[sProg][sI]
          BY <4>1, LeftFacts
        <4> QED BY <2>3, <2>5, <3>1, <4>1, <4>2
      <3>2. CASE sI > sN
        <4>1. X = {}
          BY <1>0, <2>4, <3>2
        <4>2. x = 0
          BY <2>5, <4>1, LeftFacts
        <4> QED BY <2>3, <2>5, <4>2
      <3> QED BY <1>0, <3>1, <3>2
    <2>8. Len(sUp') <= y
      <3>1. PICK s : s = S!From(sUp, z)
        OBVIOUS
      <3>2. (z <= Len(sUp) => Len(s) = Len(sUp) - z) /\ (z > Len(sUp) => s = <<>>)
        <4>1. /\ z <= Len(sUp) => Len(S!From(sUp, z)) = Len(sUp) - z
              /\ z > Len(sUp) => S!From(sUp, z) = <<>>
          <5>1. sUp \in Seq(S!Children) /\ z \in Nat
            BY <1>0
          <5> QED BY <5>1, FromFacts, Zenon
        <4> QED BY <3>1, <4>1
      <3>3. Len(sUp) \in Nat /\ Len(<<>>) = 0
        BY <1>0
      <3>4. Len(s) <= y
        BY <2>5, <2>6, <2>7, <3>2, <3>3
      <3> QED BY <2>1, <2>3, <3>1, <3>4
    <2>9. Len(sUp') <= Cardinality(SLeft({c \in S!Children : c >= sI + 1}))
      BY <2>4, <2>5, <2>8
    <2> QED BY <1>0, <2>1, <2>2, <2>9 DEF SPipe
  <1>8. CASE S!Finish
    <2>1. sMain = "drain" /\ sI > sN /\ sMain' = "done" /\ UNCHANGED <<sI, sChild, sUp, sGlued>>
      <3>1. sMain = "drain" /\ sI > S!Reads /\ sMain' = "done" /\ UNCHANGED <<sI, sChild, sUp, sGlued>>
        BY <1>8 DEF S!Finish
      <3>2. S!Reads = sN \/ S!Reads = sN + 1
        <4>1. S!Reads = sN + (IF sProg = "pipe" THEN 1 ELSE 0)
          BY Zenon DEF S!Reads, S!NChildren, sN, sProg
        <4> QED BY <1>0, <4>1
      <3> QED BY <1>0, <3>1, <3>2
    <2>2. SWrote' = SWrote
      BY <1>0, <2>1 DEF SWrote
    <2>3. {c \in S!Children : c >= sI} = {}
      BY <1>0, <2>1
    <2>4. Cardinality(SLeft({})) = 0
      BY LeftFacts
    <2>5. Len(sUp) <= 0
      BY <2>1, <2>3, <2>4, Zenon DEF SPipe
    <2>6. sUp = <<>>
      BY <1>0, <2>5, EmptySeq
    <2> QED BY <1>0, <2>1, <2>2, <2>6 DEF SPipe
  <1>9. CASE S!Sigint
    <2>1. UNCHANGED <<sMain, sI, sChild, sUp, sGlued>>
      BY <1>9 DEF S!Sigint
    <2>2. SWrote' = SWrote
      BY <1>0, <2>1 DEF SWrote
    <2> QED BY <1>0, <2>1, <2>2 DEF SPipe
  <1>10. ASSUME NEW c \in S!Children, S!ChildWrite(c) PROVE SPipe'
    <2>1. /\ SWrote' = SWrote \cup {c} /\ c \notin SWrote /\ UNCHANGED <<sMain, sI, sGlued>>
          /\ sUp' = sUp \/ sUp' = sUp \o S!Bytes(c, Message[sProg][c])
          /\ sChild' = [sChild EXCEPT ![c] = sChild'[c]] /\ sChild[c] = "write"
      BY <1>10, SWriteFacts
    <2>2. sMain \notin {"drain", "done"}
      BY <2>1 DEF SPipe
    <2>3. PICK m \in Nat \ {0} : m = Message[sProg][c]
      BY SSizes
    <2>4. Len(sUp') <= Len(sUp) + m /\ Len(sUp) \in Nat
      <3>1. PICK b : b = S!Bytes(c, m)
        OBVIOUS
      <3>2. b \in Seq(S!Children) /\ Len(b) = m
        <4>1. S!Bytes(c, m) \in Seq(S!Children) /\ Len(S!Bytes(c, m)) = m
          BY BytesFacts, Zenon
        <4> QED BY <3>1, <4>1
      <3>3. Len(sUp \o b) = Len(sUp) + m /\ Len(sUp) \in Nat
        <4>1. sUp \in Seq(S!Children)
          BY <1>0
        <4>2. Len(sUp \o b) = Len(sUp) + Len(b)
          BY <3>2, <4>1, ConcatProperties, Zenon
        <4> QED BY <3>2, <4>1, <4>2
      <3> QED BY <2>1, <2>3, <3>1, <3>3
    <2>5. PICK x \in Nat : x = Cardinality(SLeft(SWrote)) /\ Cardinality(SLeft(SWrote \cup {c})) = x + m
      <3>1. SWrote \in SUBSET S!Children
        BY DEF SWrote
      <3> QED BY <2>1, <2>3, <3>1, LeftFacts
    <2>6. sMain \in {"fork", "wait"} => Len(sUp') <= x + m
      BY <2>4, <2>5 DEF SPipe
    <2>7. sMain = "fork" => \A e \in S!Children : e >= sI => sChild'[e] = "none"
      BY <1>0, <2>1 DEF SPipe
    <2> QED BY <1>0, <2>1, <2>2, <2>5, <2>6, <2>7 DEF SPipe
  <1>11. ASSUME NEW c \in S!Children, S!ReadAnswer(c) PROVE SPipe'
    BY <1>11, SReadFacts
  <1> QED BY <1>2, <1>3, <1>4, <1>5, <1>6, <1>7, <1>8, <1>9, <1>10, <1>11
          DEF S!Next, S!Parent, S!Child

-----------------------------------------------------------------------------
(* The invariant holds at first, ...                                        *)
LEMMA SInitially == S!Init => SInv
  <1> SUFFICES ASSUME S!Init PROVE SInv
    OBVIOUS
  <1>0. /\ sMain = "fork" /\ sI = 1 /\ sChild = [c \in S!Children |-> "none"] /\ sUp = <<>> /\ sDown = <<>>
        /\ sGot = [c \in S!Children |-> <<>>] /\ sGlued = FALSE /\ S!Children = 1 .. sN /\ sN \in Nat
    BY SSizes DEF S!Init
  <1>1. STypes
    <2>1. sUp \in Seq(S!Children) /\ sDown \in Seq(S!Children) /\ sGot \in [S!Children -> Seq(S!Children)]
      BY <1>0
    <2>2. sGlued \in BOOLEAN
      BY <1>0, Zenon
    <2>3. \A c \in S!Children : sChild[c] # "read"
      BY <1>0
    <2>4. sChild \in [S!Children -> {"none", "write", "read", "done"}]
      BY <1>0
    <2> QED BY <1>0, <2>1, <2>2, <2>3, <2>4 DEF STypes
  <1>2. SWrote = {} /\ SDone = {} /\ S!ToSet(sUp) = {}
    BY <1>0 DEF SWrote, SDone, S!ToSet
  <1>3. SLock
    BY <1>0, <1>2 DEF SLock
  <1>4. SFirst
    BY <1>0, <1>2 DEF SFirst, S!FirstAnswerServesAll
  <1>5. SRace
    BY <1>0, <1>2 DEF SRace
  <1>6. SPipe
    <2>1. Cardinality(SLeft({})) = 0
      BY LeftFacts
    <2> QED BY <1>0, <1>2, <2>1 DEF SPipe
  <1> QED BY <1>1, <1>3, <1>4, <1>5, <1>6 DEF SInv

(* ... and every step keeps it.                                             *)
LEMMA SInductive == SInv /\ [Next]_vars => SInv'
  <1> SUFFICES ASSUME SInv, [Next]_vars PROVE SInv'
    OBVIOUS
  <1>0. UNCHANGED program
    BY DEF Next, vars, InDaemon, InStreams, InDatagrams, InFiles, InCalculator, InTree
  <1>1. CASE S!Next
    <2>1. sProg' = sProg /\ S!Pairs' = S!Pairs /\ STypes /\ STypes'
      BY <1>0, <1>1, SSame, STypesStep DEF SInv, S!Pairs
    <2>2. sProg = "lockstep" => SLock' /\ SFirst'
      BY <1>0, <1>1, <2>1, SLockStep, SFirstStep DEF SInv
    <2>3. sProg = "race" => SRace'
      BY <1>0, <1>1, <2>1, SRaceStep DEF SInv
    <2>4. sProg \notin S!Pairs => SPipe'
      BY <1>0, <1>1, <2>1, SPipeStep DEF SInv
    <2> QED BY <2>1, <2>2, <2>3, <2>4 DEF SInv
  <1>2. CASE UNCHANGED sVars
    <2>1. UNCHANGED <<sMain, sI, sChild, sUp, sDown, sReply, sGot, sGlued>>
      BY <1>2 DEF sVars
    <2>2. sProg' = sProg /\ S!Pairs' = S!Pairs /\ S!Children' = S!Children /\ sN' = sN
          /\ \A B : SLeft(B)' = SLeft(B)
      BY <1>0, SSame DEF S!Pairs
    <2>3. SWrote' = SWrote /\ SDone' = SDone
      BY <2>1, <2>2 DEF SWrote, SDone
    <2>4. STypes'
      BY <2>1, <2>2 DEF SInv, STypes
    <2>5. sProg = "lockstep" => SLock' /\ SFirst'
      <3>1. SLock => SLock'
        BY <2>1, <2>2, <2>3 DEF SLock
      <3>2. SFirst => SFirst'
        BY <2>1, <2>2, <2>3 DEF SFirst, SRead, S!FirstAnswerServesAll, sProg
      <3> QED BY <3>1, <3>2 DEF SInv
    <2>6. sProg = "race" => SRace'
      BY <2>1, <2>2, <2>3 DEF SInv, SRace
    <2>7. sProg \notin S!Pairs => SPipe'
      BY <2>1, <2>2, <2>3 DEF SInv, SPipe
    <2> QED BY <2>2, <2>4, <2>5, <2>6, <2>7 DEF SInv
  <1>3. S!Next \/ UNCHANGED sVars
    BY DEF Next, vars
  <1> QED BY <1>1, <1>2, <1>3

(* The invariant is what the programs promise.                              *)
LEMMA SImplies == SInv => S!DoneIsDrained /\ S!FirstAnswerServesAll
  <1> SUFFICES ASSUME SInv PROVE S!DoneIsDrained /\ S!FirstAnswerServesAll
    OBVIOUS
  <1>1. S!FirstAnswerServesAll
    BY DEF SInv, SFirst, S!FirstAnswerServesAll, sProg
  <1>2. S!DoneIsDrained
    BY SSizes DEF SInv, SLock, SRace, SPipe, S!DoneIsDrained
  <1> QED BY <1>1, <1>2

(* A parent of lab_01 that comes to its end has read all that its children  *)
(* wrote and never took two messages for one, and in main.c each child      *)
(* reads its bytes from the answer to the first one.  This is the safety    *)
(* part of StreamsEnd, for all messages and all sizes of answers and reads. *)
THEOREM ParentsReadEverything == Spec => [](S!DoneIsDrained /\ S!FirstAnswerServesAll)
  <1>1. Init => SInv
    BY SInitially DEF Init
  <1> QED BY <1>1, SInductive, SImplies, PTL DEF Spec

-----------------------------------------------------------------------------
(* FileIo (lab_buf_io): the letters.                                        *)

(* The program that runs, and whether its two FILEs share a descriptor.     *)
fProg == IF program \in FilePrograms THEN program ELSE "app1"
FSharing == fProg \in {"app1", "app1_threads"}
FFile(k) == IF FSharing THEN 1 ELSE k

FStates == {"create", "none", "lock", "read", "turn", "space", "print", "printed", "unlock",
            "write", "done", "unset", "failed", "stuck"}
FEnds == {"done", "unset", "failed", "stuck"}
FTypes ==
  /\ fPc \in [1 .. 2 -> FStates] /\ fOffset \in [1 .. 2 -> 0 .. N] /\ fBuf \in [1 .. 2 -> Seq(1 .. N)]
  /\ fCh \in [1 .. 2 -> 0 .. N] /\ fRc \in [1 .. 2 -> {0, 1}] /\ fLetter \in 1 .. N + 1
  /\ fOut \in Seq(1 .. N) /\ fFile \in Seq(Nat) /\ fOld \in Seq(Nat)

(* A reader has a letter that it has not printed yet.                       *)
FHeld(k) == IF fPc[k] \in {"space", "print"} THEN 1 ELSE 0

(* app1: a letter that was read is printed, or still in one of the two      *)
(* buffers, or about to be printed, and nothing else is anywhere.           *)
FHas(x) ==
  \/ \E j \in 1 .. Len(fOut) : fOut[j] = x
  \/ \E k \in 1 .. 2 : \/ \E j \in 1 .. Len(fBuf[k]) : fBuf[k][j] = x
                       \/ FHeld(k) = 1 /\ fCh[k] = x
FReader(k) ==
  /\ fPc[k] \in {"create", "none", "read", "turn", "space", "print", "printed"} \cup FEnds
  /\ fRc[k] = 0 => Len(fBuf[k]) = 0 /\ fOffset[1] = N
  /\ fPc[k] \in FEnds \cup {"create", "none"} => Len(fBuf[k]) = 0
  /\ FHeld(k) = 1 => fCh[k] \in 1 .. N
FShared ==
  /\ Len(fOut) + Len(fBuf[1]) + FHeld(1) + Len(fBuf[2]) + FHeld(2) = fOffset[1]
  /\ \A x \in 1 .. fOffset[1] : FHas(x)
  /\ FReader(1) /\ FReader(2)
  /\ fPc[1] = "create" => fPc[2] = "none"
  /\ fProg = "app1" => fPc[1] \in {"turn", "done"} \/ fPc[2] \in {"turn", "done"}
  /\ fPc[1] = "done" => fRc[1] = 0

(* app2: a reader of its own descriptor has at most the letter at its       *)
(* offset, and has printed those before it.                                 *)
FPrinted(k) == fOffset[k] - Len(fBuf[k]) - FHeld(k)
FSingle(k) ==
  /\ fPc[k] # "space"
  /\ Len(fBuf[k]) \in {0, 1} /\ (Len(fBuf[k]) = 1 => fPc[k] = "read" /\ fBuf[k][1] = fOffset[k])
  /\ fPc[k] = "print" => fCh[k] = fOffset[k] /\ fOffset[k] >= 1
  /\ fRc[k] = 0 => fOffset[k] = N /\ Len(fBuf[k]) = 0

(* app2.c: the two readers take turns.                                      *)
FTurns ==
  /\ FSingle(1) /\ FSingle(2)
  /\ \/ fPc[1] \in {"read", "print", "printed"} /\ fPc[2] = "turn"
     \/ fPc[2] \in {"read", "print", "printed"} /\ fPc[1] = "turn"
     \/ fPc[1] = "done" /\ fPc[2] = "done" /\ fRc[1] = 0 /\ fRc[2] = 0
  /\ Len(fOut) = FPrinted(1) + FPrinted(2)
  /\ \A n \in 1 .. Len(fOut) : fOut[n] = (n + 1) \div 2
  /\ fPc[1] \in {"read", "print"} => FPrinted(1) = fOffset[2]
  /\ fPc[1] = "printed" => fOffset[1] = fOffset[2] + 1 \/ (fOffset[1] = fOffset[2] /\ fRc[1] = 0)
  /\ fPc[2] \in {"read", "print"} =>
       \/ FPrinted(2) + 1 = fOffset[1]
       \/ fPc[2] = "read" /\ fOffset[1] = N /\ FPrinted(2) = N
  /\ fPc[2] = "printed" => fOffset[1] = fOffset[2]

(* app2_threads_right.c: one reader after the other.                        *)
FAlone(k) ==
  /\ FSingle(k)
  /\ fPc[k] \in {"create", "none", "lock", "read", "print", "printed", "unlock", "done"}
  /\ fPc[k] \in {"create", "none", "lock"} => fOffset[k] = 0
  /\ fPc[k] \in {"unlock", "done"} => fOffset[k] = N
  /\ fPc[k] \in {"read", "print", "printed", "unlock"} => fMutex = k
FLocked ==
  IF fPc[2] = "failed" THEN fPc[1] = "done"
  ELSE /\ FAlone(1) /\ FAlone(2) /\ (fPc[1] = "create" => fPc[2] = "none")
       /\ Len(fOut) = FPrinted(1) + FPrinted(2)
       /\ \A n \in 1 .. Len(fOut) : fOut[n] = IF n <= N THEN n ELSE n - N

(* app3: all letters are written, then the first closes, then the second.   *)
FWrites ==
  /\ fPc[1] \in {"write", "done"} /\ fPc[2] \in {"write", "done"}
  /\ fPc[2] = "done" => fPc[1] = "done"
  /\ fPc[1] = "done" => fLetter = N + 1

(* A file that was written up to m is behind that what it was before.       *)
FBehind(f, h, m) ==
  /\ Len(f) = IF Len(h) > m THEN Len(h) ELSE m
  /\ \A n \in m + 1 .. Len(h) : f[n] = h[n]

(* Buffered, the odd letters wait in one FILE and the even ones in the      *)
(* other; ...                                                               *)
FBuffered ==
  /\ fOffset[1] = 0 /\ fOffset[2] = 0
  /\ fPc[1] = "write" =>
       /\ fFile = fOld
       /\ Len(fBuf[1]) + Len(fBuf[2]) = fLetter - 1 /\ Len(fBuf[1]) \in {Len(fBuf[2]), Len(fBuf[2]) + 1}
       /\ \A n \in 1 .. Len(fBuf[1]) : fBuf[1][n] = 2 * n - 1
  /\ fPc[2] = "write" => \A n \in 1 .. Len(fBuf[2]) : fBuf[2][n] = 2 * n
  /\ fPc[1] = "done" /\ fPc[2] = "write" => 2 * Len(fBuf[2]) = N /\ FBehind(fFile, fOld, Len(fBuf[2]))
  /\ fPc[2] = "done" => FBehind(fFile, fOld, N \div 2) /\ \A n \in 1 .. N \div 2 : fFile[n] = 2 * n

(* ... not buffered, each even letter goes over the odd one before it.      *)
FDirect ==
  /\ Len(fBuf[1]) = 0 /\ Len(fBuf[2]) = 0
  /\ fOffset[1] + fOffset[2] = fLetter - 1 /\ fOffset[1] \in {fOffset[2], fOffset[2] + 1}
  /\ FBehind(fFile, fOld, fOffset[1])
  /\ \A n \in 1 .. fOffset[1] : fFile[n] = IF n <= fOffset[2] THEN 2 * n ELSE 2 * n - 1

FInv ==
  /\ FTypes
  /\ FSharing => FShared
  /\ fProg = "app2" => FTurns
  /\ fProg = "app2_threads" => FLocked
  /\ fProg \in {"app3_buf", "app3_non_buf"} => FWrites
  /\ fProg = "app3_buf" => FBuffered
  /\ fProg = "app3_non_buf" => FDirect

-----------------------------------------------------------------------------
(* The sizes and the program are what they were.                            *)
LEMMA FSizes == N \in Nat /\ N % 2 = 0 /\ BufSize \in Nat /\ BufSize # 0
  BY LabAssumption

LEMMA FSame ==
  ASSUME UNCHANGED program
  PROVE  /\ fProg' = fProg /\ FSharing' = FSharing
         /\ fProg \in FilePrograms
  BY DEF fProg, FSharing, FilePrograms

(* A read() gives the letters behind the offset, at least one unless the    *)
(* file is at its end, and one at most when the descriptors are separate.   *)
LEMMA FilledFacts ==
  ASSUME FTypes, NEW k \in 1 .. 2
  PROVE  \E s \in Seq(1 .. N) :
           /\ s = F!Filled(k) /\ FFile(k) \in 1 .. 2 /\ F!Fd(k) = FFile(k)
           /\ fOffset[FFile(k)] + Len(s) <= N
           /\ \A j \in 1 .. Len(s) : s[j] = fOffset[FFile(k)] + j
           /\ Len(s) = 0 <=> fOffset[FFile(k)] = N
           /\ ~ FSharing => Len(s) <= 1
  <1>1. PICK o \in 0 .. N, d \in 1 .. 2, b \in Nat : /\ d = FFile(k) /\ d = F!Fd(k) /\ o = fOffset[d]
                                       /\ b = F!Block /\ b # 0 /\ (~ FSharing => b = 1)
    <2>1. FFile(k) \in 1 .. 2 /\ F!Fd(k) = FFile(k)
      BY DEF FFile, FSharing, F!Fd, fProg
    <2>2. F!Block \in Nat /\ F!Block # 0 /\ (~ FSharing => F!Block = 1)
      BY FSizes DEF FSharing, F!Block, fProg
    <2> QED BY <2>1, <2>2 DEF FTypes
  <1>2. PICK h \in o .. N : /\ h = (IF o + b < N THEN o + b ELSE N) /\ (h = o <=> o = N)
                            /\ (~ FSharing => h <= o + 1)
    BY <1>1, FSizes
  <1>3. F!Filled(k) = SubSeq(F!Alphabet, o + 1, h)
    BY <1>1, <1>2 DEF F!Filled
  <1>4. F!Alphabet \in Seq(1 .. N) /\ Len(F!Alphabet) = N /\ \A j \in 1 .. N : F!Alphabet[j] = j
    BY FSizes DEF F!Alphabet
  <1>5. /\ SubSeq(F!Alphabet, o + 1, h) \in Seq(1 .. N)
        /\ Len(SubSeq(F!Alphabet, o + 1, h)) = h - o
        /\ \A j \in 1 .. h - o : SubSeq(F!Alphabet, o + 1, h)[j] = o + j
    BY <1>4, FSizes
  <1>6. PICK s : s = F!Filled(k)
    OBVIOUS
  <1>7. s \in Seq(1 .. N) /\ Len(s) = h - o /\ \A j \in 1 .. Len(s) : s[j] = o + j
    BY <1>3, <1>5, <1>6, Zenon
  <1>8. /\ o + Len(s) <= N /\ (Len(s) = 0 <=> o = N) /\ (~ FSharing => Len(s) <= 1)
    BY <1>2, <1>7, FSizes
  <1> QED BY <1>1, <1>6, <1>7, <1>8, Zenon

(* What it does to the buffer and the offset.                               *)
LEMMA FillFacts ==
  ASSUME FTypes, NEW k \in 1 .. 2, F!Fill(k), UNCHANGED program
  PROVE  \E s \in Seq(1 .. N) :
           /\ s = F!Filled(k) /\ FFile(k) \in 1 .. 2
           /\ fOffset[FFile(k)] + Len(s) <= N
           /\ \A j \in 1 .. Len(s) : s[j] = fOffset[FFile(k)] + j
           /\ Len(s) = 0 <=> fOffset[FFile(k)] = N
           /\ ~ FSharing => Len(s) <= 1
           /\ fBuf' = [fBuf EXCEPT ![k] = s]
           /\ fOffset' = [fOffset EXCEPT ![FFile(k)] = fOffset[FFile(k)] + Len(s)]
           /\ fBuf' \in [1 .. 2 -> Seq(1 .. N)] /\ fOffset' \in [1 .. 2 -> 0 .. N]
  <1>1. PICK s \in Seq(1 .. N) :
           /\ s = F!Filled(k) /\ FFile(k) \in 1 .. 2 /\ F!Fd(k) = FFile(k)
           /\ fOffset[FFile(k)] + Len(s) <= N
           /\ \A j \in 1 .. Len(s) : s[j] = fOffset[FFile(k)] + j
           /\ Len(s) = 0 <=> fOffset[FFile(k)] = N
           /\ ~ FSharing => Len(s) <= 1
    BY FilledFacts
  <1>2. /\ fBuf' = [fBuf EXCEPT ![k] = s]
        /\ fOffset' = [fOffset EXCEPT ![FFile(k)] = fOffset[FFile(k)] + Len(s)]
    BY <1>1 DEF F!Fill, FTypes
  <1>3. fBuf' \in [1 .. 2 -> Seq(1 .. N)]
    BY <1>1, <1>2, Zenon DEF FTypes
  <1>4. fOffset' \in [1 .. 2 -> 0 .. N]
    <2>1. Len(s) \in Nat /\ fOffset[FFile(k)] + Len(s) \in 0 .. N
      BY <1>1, FSizes DEF FTypes
    <2> QED BY <1>1, <1>2, <2>1, Zenon DEF FTypes
  <1> QED BY <1>1, <1>2, <1>3, <1>4, Zenon

(* fscanf or read gives a letter.                                           *)
LEMMA TakeFacts ==
  ASSUME FTypes, NEW k \in 1 .. 2, F!Take(k)
  PROVE  \E t \in Seq(1 .. N) :
           /\ fPc[k] = "read" /\ Len(fBuf[k]) >= 1 /\ fBuf[k][1] \in 1 .. N
           /\ Len(t) = Len(fBuf[k]) - 1 /\ \A j \in 1 .. Len(t) : t[j] = fBuf[k][j + 1]
           /\ fBuf' = [fBuf EXCEPT ![k] = t] /\ fCh' = [fCh EXCEPT ![k] = fBuf[k][1]]
           /\ fPc' = [fPc EXCEPT ![k] = IF fProg = "app1_threads" THEN "space" ELSE "print"]
           /\ UNCHANGED <<fOffset, fRc, fMutex, fLetter, fOut, fFile, fOld>>
  <1>1. PICK b \in Seq(1 .. N) : b = fBuf[k] /\ b # <<>>
    BY DEF FTypes, F!Take
  <1>2. /\ Tail(b) \in Seq(1 .. N) /\ Len(b) >= 1 /\ Len(Tail(b)) = Len(b) - 1 /\ Head(b) = b[1]
        /\ b[1] \in 1 .. N /\ \A j \in 1 .. Len(Tail(b)) : Tail(b)[j] = b[j + 1]
    <2>1. /\ Head(b) \in 1 .. N /\ Tail(b) \in Seq(1 .. N) /\ Len(Tail(b)) = Len(b) - 1
          /\ \A i \in 1 .. Len(Tail(b)) : Tail(b)[i] = b[i + 1]
      BY <1>1, HeadTailProperties, Zenon
    <2>2. Len(b) \in Nat /\ Len(b) # 0 /\ Head(b) = b[1]
      BY <1>1
    <2> QED BY <2>1, <2>2
  <1>3. /\ fPc[k] = "read" /\ fBuf' = [fBuf EXCEPT ![k] = Tail(b)] /\ fCh' = [fCh EXCEPT ![k] = Head(b)]
        /\ fPc' = [fPc EXCEPT ![k] = IF fProg = "app1_threads" THEN "space" ELSE "print"]
        /\ UNCHANGED <<fOffset, fRc, fMutex, fLetter, fOut, fFile, fOld>>
    BY <1>1 DEF F!Take, fProg, FTypes
  <1> QED BY <1>1, <1>2, <1>3, Zenon

(* A letter is printed.                                                     *)
LEMMA PrintFacts ==
  ASSUME FTypes, NEW k \in 1 .. 2, F!PrintLetter(k), fPc[k] = "print" => fCh[k] \in 1 .. N
  PROVE  /\ fPc[k] = "print" /\ fPc' = [fPc EXCEPT ![k] = "printed"]
         /\ fOut' \in Seq(1 .. N) /\ Len(fOut') = Len(fOut) + 1 /\ Len(fOut) \in Nat
         /\ \A j \in 1 .. Len(fOut) : fOut'[j] = fOut[j]
         /\ fOut'[Len(fOut) + 1] = fCh[k]
         /\ UNCHANGED <<fOffset, fBuf, fCh, fRc, fMutex, fLetter, fFile, fOld>>
  <1>1. /\ fPc[k] = "print" /\ fPc' = [fPc EXCEPT ![k] = "printed"] /\ fOut' = Append(fOut, fCh[k])
        /\ UNCHANGED <<fOffset, fBuf, fCh, fRc, fMutex, fLetter, fFile, fOld>>
    BY DEF F!PrintLetter
  <1>2. fOut \in Seq(1 .. N) /\ fCh[k] \in 1 .. N
    BY <1>1 DEF FTypes
  <1> QED BY <1>1, <1>2

(* The steps of the readers keep the types.                                 *)
LEMMA FReadTypes ==
  ASSUME FTypes, fProg \in F!Readers, F!Next, UNCHANGED program,
         \A k \in 1 .. 2 : fPc[k] = "print" => fCh[k] \in 1 .. N
  PROVE  FTypes'
  <1>1. CASE F!CreateThread
    <2>1. fPc' \in [1 .. 2 -> FStates]
      BY <1>1 DEF F!CreateThread, F!ThreadStart, FStates
    <2> QED BY <1>1, <2>1 DEF F!CreateThread, FTypes
  <1>11. CASE F!JoinUnset
    <2>1. fPc' \in [1 .. 2 -> FStates]
      BY <1>11 DEF F!JoinUnset, FStates
    <2> QED BY <1>11, <2>1 DEF F!JoinUnset, FTypes
  <1>2. CASE F!WriteLetter
    BY <1>2 DEF F!WriteLetter, fProg
  <1>3. ASSUME NEW k \in 1 .. 2, F!Refill(k) PROVE FTypes'
    <2>1. fBuf' \in [1 .. 2 -> Seq(1 .. N)] /\ fOffset' \in [1 .. 2 -> 0 .. N]
      BY <1>3, FillFacts DEF F!Refill
    <2> QED BY <1>3, <2>1 DEF F!Refill, FTypes
  <1>4. ASSUME NEW k \in 1 .. 2, F!EndOfFile(k) PROVE FTypes'
    BY <1>4, Zenon DEF F!EndOfFile, FTypes, FStates
  <1>5. ASSUME NEW k \in 1 .. 2, F!Take(k) PROVE FTypes'
    <2>1. PICK t \in Seq(1 .. N), c \in 0 .. N, z \in FStates :
             /\ fBuf' = [fBuf EXCEPT ![k] = t] /\ fCh' = [fCh EXCEPT ![k] = c]
             /\ fPc' = [fPc EXCEPT ![k] = z] /\ UNCHANGED <<fOffset, fRc, fLetter, fOut, fFile, fOld>>
      <3>1. PICK t \in Seq(1 .. N) :
             /\ fBuf[k][1] \in 1 .. N /\ fBuf' = [fBuf EXCEPT ![k] = t]
             /\ fCh' = [fCh EXCEPT ![k] = fBuf[k][1]]
             /\ fPc' = [fPc EXCEPT ![k] = IF fProg = "app1_threads" THEN "space" ELSE "print"]
             /\ UNCHANGED <<fOffset, fRc, fLetter, fOut, fFile, fOld>>
        BY <1>5, TakeFacts, Zenon
      <3>2. fBuf[k][1] \in 0 .. N
        BY <3>1, FSizes
      <3>3. (IF fProg = "app1_threads" THEN "space" ELSE "print") \in FStates
        BY DEF FStates
      <3> QED BY <3>1, <3>2, <3>3, Zenon
    <2> QED BY <2>1 DEF FTypes
  <1>6. ASSUME NEW k \in 1 .. 2, F!SkipSpace(k) PROVE FTypes'
    <2>1. F!Fill(k) \/ UNCHANGED <<fBuf, fOffset>>
      BY <1>6 DEF F!SkipSpace
    <2>2. fBuf' \in [1 .. 2 -> Seq(1 .. N)] /\ fOffset' \in [1 .. 2 -> 0 .. N]
      BY <2>1, FillFacts DEF FTypes
    <2>3. /\ fPc' = [fPc EXCEPT ![k] = "print"]
          /\ UNCHANGED <<fCh, fRc, fLetter, fOut, fFile, fOld>>
      BY <1>6 DEF F!SkipSpace
    <2> QED BY <2>2, <2>3, Zenon DEF FTypes, FStates
  <1>7. ASSUME NEW k \in 1 .. 2, F!PrintLetter(k) PROVE FTypes'
    BY <1>7, PrintFacts DEF FTypes, FStates
  <1>8. ASSUME NEW k \in 1 .. 2, F!Loop(k) PROVE FTypes'
    <2>1. fPc' \in [1 .. 2 -> FStates]
      BY <1>8 DEF F!Loop, F!Other, FTypes, FStates
    <2> QED BY <1>8, <2>1 DEF F!Loop, FTypes
  <1>9. ASSUME NEW k \in 1 .. 2, F!Lock(k) \/ F!Unlock(k) PROVE FTypes'
    BY <1>9 DEF F!Lock, F!Unlock, FTypes, FStates
  <1>10. ASSUME NEW k \in 1 .. 2, F!Close(k) PROVE FTypes'
    BY <1>10 DEF F!Close, fProg
  <1> QED BY <1>1, <1>2, <1>3, <1>4, <1>5, <1>6, <1>7, <1>8, <1>9, <1>10, <1>11
          DEF F!Next, F!Step, F!Two

-----------------------------------------------------------------------------
(* app1: no letter that was read is lost.                                   *)
LEMMA FSharedStep ==
  ASSUME FTypes, FShared, FSharing, F!Next, UNCHANGED program
  PROVE  FShared'
  <1>0. /\ fProg \in {"app1", "app1_threads"} /\ fProg' = fProg /\ FFile(1) = 1 /\ FFile(2) = 1 /\ N \in Nat
        /\ fPc \in [1 .. 2 -> FStates] /\ fOffset \in [1 .. 2 -> 0 .. N] /\ fBuf \in [1 .. 2 -> Seq(1 .. N)]
        /\ fCh \in [1 .. 2 -> 0 .. N] /\ fRc \in [1 .. 2 -> {0, 1}] /\ fOut \in Seq(1 .. N)
        /\ Len(fOut) \in Nat /\ Len(fBuf[1]) \in Nat /\ Len(fBuf[2]) \in Nat
    BY FSizes, FSame DEF FSharing, FFile, FTypes
  <1>01. Len(fOut) \in Nat /\ Len(fBuf[1]) \in Nat /\ Len(fBuf[2]) \in Nat /\ fOffset[1] \in Nat
    BY <1>0
  <1>1. ASSUME UNCHANGED <<fOut, fBuf, fOffset, fCh>>, FHeld(1)' = FHeld(1), FHeld(2)' = FHeld(2)
        PROVE  /\ (Len(fOut) + Len(fBuf[1]) + FHeld(1) + Len(fBuf[2]) + FHeld(2) = fOffset[1])'
               /\ (\A x \in 1 .. fOffset[1] : FHas(x))'
    BY <1>1 DEF FShared, FHas
  <1>2. CASE F!CreateThread
    <2>1. /\ fPc[1] = "create" /\ UNCHANGED <<fOut, fBuf, fOffset, fCh, fRc>>
          /\ fPc'[1] = "read" /\ fPc'[2] \in {"read", "unset"}
      BY <1>0, <1>2 DEF F!CreateThread, F!ThreadStart, fProg
    <2>2. FHeld(1)' = FHeld(1) /\ FHeld(2)' = FHeld(2)
      BY <2>1 DEF FHeld, FShared
    <2>3. FReader(1)' /\ FReader(2)'
      BY <2>1, <2>2 DEF FShared, FReader, FEnds
    <2>4. fProg # "app1"
      BY <2>1 DEF FShared
    <2> QED BY <1>0, <1>1, <2>1, <2>2, <2>3, <2>4 DEF FShared
  <1>21. CASE F!JoinUnset
    <2>1. /\ fPc[1] = "done" /\ fPc[2] = "unset" /\ UNCHANGED <<fOut, fBuf, fOffset, fCh, fRc>>
          /\ fPc'[1] = "done" /\ fPc'[2] \in {"done", "failed", "stuck"}
      BY <1>21 DEF F!JoinUnset
    <2>2. FHeld(1)' = FHeld(1) /\ FHeld(2)' = FHeld(2)
      BY <2>1 DEF FHeld
    <2>3. FReader(1)' /\ FReader(2)'
      BY <2>1, <2>2 DEF FShared, FReader, FEnds
    <2> QED BY <1>0, <1>1, <2>1, <2>2, <2>3 DEF FShared
  <1>3. CASE F!WriteLetter \/ \E k \in 1 .. 2 : F!Close(k) \/ F!Lock(k) \/ F!Unlock(k)
    <2>1. fProg \in F!Readers /\ \A k \in 1 .. 2 : fPc[k] \notin {"lock", "unlock"}
      BY <1>0 DEF F!Readers, FShared, FReader, FEnds
    <2> QED BY <1>3, <2>1 DEF F!WriteLetter, F!Close, F!Lock, F!Unlock, fProg
  <1>4. ASSUME NEW k \in 1 .. 2, Len(fBuf[k]) = 0, F!Fill(k), UNCHANGED <<fOut, fCh, fRc>>,
               FHeld(1)' = FHeld(1), FHeld(2)' = FHeld(2)
        PROVE  /\ (Len(fOut) + Len(fBuf[1]) + FHeld(1) + Len(fBuf[2]) + FHeld(2) = fOffset[1])'
               /\ (\A x \in 1 .. fOffset[1] : FHas(x))'
               /\ \A i \in 1 .. 2 : fRc[i] = 0 => Len(fBuf'[i]) = 0 /\ fOffset'[1] = N
               /\ \A i \in 1 .. 2 : i # k => fBuf'[i] = fBuf[i]
    <2>1. PICK s \in Seq(1 .. N) :
           /\ fOffset[1] + Len(s) <= N
           /\ \A j \in 1 .. Len(s) : s[j] = fOffset[1] + j
           /\ Len(s) = 0 <=> fOffset[1] = N
           /\ fBuf' = [fBuf EXCEPT ![k] = s]
           /\ fOffset' = [fOffset EXCEPT ![1] = fOffset[1] + Len(s)]
      <3>1. FFile(k) = 1
        BY <1>0
      <3>2. PICK s \in Seq(1 .. N) :
           /\ fOffset[FFile(k)] + Len(s) <= N
           /\ \A j \in 1 .. Len(s) : s[j] = fOffset[FFile(k)] + j
           /\ Len(s) = 0 <=> fOffset[FFile(k)] = N
           /\ fBuf' = [fBuf EXCEPT ![k] = s]
           /\ fOffset' = [fOffset EXCEPT ![FFile(k)] = fOffset[FFile(k)] + Len(s)]
        BY <1>4, FillFacts, Zenon
      <3> QED BY <3>1, <3>2, Zenon
    <2>2. PICK n \in Nat, o \in 0 .. N : n = Len(s) /\ o = fOffset[1] /\ fOffset'[1] = o + n
      BY <1>0, <2>1
    <2>3. (Len(fOut) + Len(fBuf[1]) + FHeld(1) + Len(fBuf[2]) + FHeld(2) = fOffset[1])'
      <3>1. PICK a \in Nat, b \in Nat, c \in Nat, d \in Nat, e \in Nat :
              /\ a = Len(fOut) /\ b = Len(fBuf[1]) /\ c = FHeld(1) /\ d = Len(fBuf[2]) /\ e = FHeld(2)
              /\ a + b + c + d + e = fOffset[1]
        BY <1>01, Zenon DEF FShared, FHeld
      <3>0. PICK y \in Nat : y = fOffset[1] /\ a + b + c + d + e = y
        BY <1>01, <3>1
      <3>2. Len(fBuf'[k]) = n /\ \A i \in 1 .. 2 : i # k => Len(fBuf'[i]) = Len(fBuf[i])
        BY <1>0, <2>1, <2>2
      <3>3. CASE k = 1
        <4>1. Len(fBuf'[1]) = n /\ Len(fBuf'[2]) = d /\ b = 0
          BY <1>4, <3>1, <3>2, <3>3
        <4>2. b = 0
          BY <4>1
        <4>3. a + n + c + d + e = y + n
          BY <3>0, <4>2
        <4> QED BY <1>4, <2>2, <3>0, <3>1, <4>1, <4>3
      <3>4. CASE k = 2
        <4>1. Len(fBuf'[2]) = n /\ Len(fBuf'[1]) = b /\ d = 0
          BY <1>4, <3>1, <3>2, <3>4
        <4>2. d = 0
          BY <4>1
        <4>3. a + b + c + n + e = y + n
          BY <3>0, <4>2
        <4> QED BY <1>4, <2>2, <3>0, <3>1, <4>1, <4>3
      <3> QED BY <3>3, <3>4
    <2>4. ASSUME NEW x \in 1 .. o + n PROVE FHas(x)'
      <3>1. CASE x <= o
        <4>1. FHas(x)
          BY <2>2, <2>4, <3>1 DEF FShared
        <4>2. CASE \E j \in 1 .. Len(fOut) : fOut[j] = x
          BY <1>4, <4>2 DEF FHas
        <4>3. ASSUME NEW i \in 1 .. 2, NEW j \in 1 .. Len(fBuf[i]), fBuf[i][j] = x PROVE FHas(x)'
          <5>1. i # k
            BY <1>4, <4>3
          <5>2. fBuf'[i] = fBuf[i]
            BY <1>0, <2>1, <5>1
          <5> QED BY <4>3, <5>2 DEF FHas
        <4>4. ASSUME NEW i \in 1 .. 2, FHeld(i) = 1, fCh[i] = x PROVE FHas(x)'
          <5>1. FHeld(i)' = 1 /\ fCh'[i] = x
            BY <1>4, <4>4
          <5> QED BY <5>1 DEF FHas
        <4> QED BY <4>1, <4>2, <4>3, <4>4 DEF FHas
      <3>2. CASE x > o
        <4>1. x - o \in 1 .. n /\ fBuf'[k] = s /\ s[x - o] = x
          <5>1. n \in Nat /\ o \in Nat
            BY <1>0, <2>2
          <5>2. x - o \in 1 .. n /\ o + (x - o) = x
            BY <2>4, <3>2, <5>1
          <5>3. s[x - o] = o + (x - o)
            BY <2>1, <2>2, <5>2, Zenon
          <5>4. fBuf'[k] = s
            BY <1>0, <2>1
          <5> QED BY <5>2, <5>3, <5>4
        <4> QED BY <2>2, <4>1, Zenon DEF FHas
      <3> QED BY <1>0, <2>2, <2>4, <3>1, <3>2
    <2>5. ASSUME NEW i \in 1 .. 2, fRc[i] = 0 PROVE Len(fBuf'[i]) = 0 /\ fOffset'[1] = N
      <3>1. Len(fBuf[i]) = 0 /\ fOffset[1] = N
        BY <2>5 DEF FShared, FReader, FEnds
      <3> QED BY <1>0, <2>1, <2>2, <3>1
    <2> QED BY <1>0, <2>1, <2>2, <2>3, <2>4, <2>5
  <1>5. ASSUME NEW k \in 1 .. 2, F!Refill(k) PROVE FShared'
    <2>1. /\ fPc[k] = "read" /\ Len(fBuf[k]) = 0 /\ F!Fill(k) /\ UNCHANGED <<fPc, fOut, fCh, fRc>>
      BY <1>5 DEF F!Refill
    <2>2. FHeld(1)' = FHeld(1) /\ FHeld(2)' = FHeld(2)
      BY <2>1 DEF FHeld
    <2>3. FReader(1)' /\ FReader(2)'
      BY <1>4, <2>1, <2>2 DEF FShared, FReader, FEnds
    <2> QED BY <1>0, <1>4, <2>1, <2>2, <2>3, Zenon DEF FShared
  <1>6. ASSUME NEW k \in 1 .. 2, F!EndOfFile(k) PROVE FShared'
    <2>1. /\ fPc[k] = "read" /\ Len(fBuf[k]) = 0 /\ fRc' = [fRc EXCEPT ![k] = 0]
          /\ fPc' = [fPc EXCEPT ![k] = "printed"] /\ F!Filled(k) = <<>>
          /\ UNCHANGED <<fOut, fBuf, fOffset, fCh>>
      BY <1>6 DEF F!EndOfFile
    <2>2. FHeld(1)' = FHeld(1) /\ FHeld(2)' = FHeld(2)
      BY <1>0, <2>1 DEF FHeld
    <2>3. fOffset[1] = N
      <3>1. FFile(k) = 1
        BY <1>0
      <3> QED BY <2>1, <3>1, FilledFacts
    <2>4. FReader(1)' /\ FReader(2)'
      BY <1>0, <2>1, <2>2, <2>3 DEF FShared, FReader, FEnds
    <2> QED BY <1>0, <1>1, <2>1, <2>2, <2>4 DEF FShared
  <1>7. ASSUME NEW k \in 1 .. 2, F!Take(k) PROVE FShared'
    <2>1. PICK t \in Seq(1 .. N) :
           /\ fPc[k] = "read" /\ Len(fBuf[k]) >= 1 /\ fBuf[k][1] \in 1 .. N
           /\ Len(t) = Len(fBuf[k]) - 1 /\ \A j \in 1 .. Len(t) : t[j] = fBuf[k][j + 1]
           /\ fBuf' = [fBuf EXCEPT ![k] = t] /\ fCh' = [fCh EXCEPT ![k] = fBuf[k][1]]
           /\ fPc' = [fPc EXCEPT ![k] = IF fProg = "app1_threads" THEN "space" ELSE "print"]
           /\ UNCHANGED <<fOffset, fRc, fMutex, fLetter, fOut, fFile, fOld>>
      BY <1>7, TakeFacts, Zenon
    <2>2. FHeld(k) = 0 /\ FHeld(k)' = 1 /\ \A i \in 1 .. 2 : i # k => FHeld(i)' = FHeld(i)
      BY <1>0, <2>1 DEF FHeld
    <2>3. (Len(fOut) + Len(fBuf[1]) + FHeld(1) + Len(fBuf[2]) + FHeld(2) = fOffset[1])'
      <3>1. PICK a \in Nat, b \in Nat, c \in Nat, d \in Nat, e \in Nat :
              /\ a = Len(fOut) /\ b = Len(fBuf[1]) /\ c = FHeld(1) /\ d = Len(fBuf[2]) /\ e = FHeld(2)
              /\ a + b + c + d + e = fOffset[1]
        BY <1>01, Zenon DEF FShared, FHeld
      <3>0. PICK y \in Nat : y = fOffset[1] /\ a + b + c + d + e = y
        BY <1>01, <3>1
      <3>2. Len(fBuf'[k]) = Len(fBuf[k]) - 1 /\ \A i \in 1 .. 2 : i # k => Len(fBuf'[i]) = Len(fBuf[i])
        BY <1>0, <2>1
      <3>3. CASE k = 1
        <4>1. Len(fBuf'[1]) = b - 1 /\ Len(fBuf'[2]) = d /\ c = 0 /\ FHeld(1)' = 1 /\ FHeld(2)' = e
          BY <2>2, <3>1, <3>2, <3>3
        <4>2. c = 0
          BY <4>1
        <4>3. a + (b - 1) + 1 + d + e = y
          BY <3>0, <4>2
        <4> QED BY <2>1, <3>0, <3>1, <4>1, <4>3, Zenon
      <3>4. CASE k = 2
        <4>1. Len(fBuf'[2]) = d - 1 /\ Len(fBuf'[1]) = b /\ e = 0 /\ FHeld(2)' = 1 /\ FHeld(1)' = c
          BY <2>2, <3>1, <3>2, <3>4
        <4>2. e = 0
          BY <4>1
        <4>3. a + b + c + (d - 1) + 1 = y
          BY <3>0, <4>2
        <4> QED BY <2>1, <3>0, <3>1, <4>1, <4>3, Zenon
      <3> QED BY <3>3, <3>4
    <2>4. ASSUME NEW x \in 1 .. fOffset[1] PROVE FHas(x)'
      <3>1. FHas(x)
        BY <2>4 DEF FShared
      <3>2. CASE \E j \in 1 .. Len(fOut) : fOut[j] = x
        BY <2>1, <3>2 DEF FHas
      <3>3. ASSUME NEW i \in 1 .. 2, i # k,
                   (\E j \in 1 .. Len(fBuf[i]) : fBuf[i][j] = x) \/ (FHeld(i) = 1 /\ fCh[i] = x)
            PROVE  FHas(x)'
        <4>1. fBuf'[i] = fBuf[i] /\ fCh'[i] = fCh[i] /\ FHeld(i)' = FHeld(i)
          BY <1>0, <2>1, <2>2, <3>3, Zenon
        <4> QED BY <3>3, <4>1 DEF FHas
      <3>4. ASSUME NEW j \in 1 .. Len(fBuf[k]), fBuf[k][j] = x PROVE FHas(x)'
        <4>1. CASE j = 1
          BY <1>0, <2>1, <2>2, <3>4, <4>1, Zenon DEF FHas
        <4>2. CASE j # 1
          <5>0. PICK m \in 1 .. Len(t) : j = m + 1
            <6>1. Len(t) = Len(fBuf[k]) - 1 /\ Len(fBuf[k]) \in Nat /\ j \in 1 .. Len(fBuf[k])
              BY <1>01, <2>1
            <6>2. j - 1 \in 1 .. Len(t) /\ j = (j - 1) + 1
              BY <4>2, <6>1
            <6> QED BY <6>2
          <5>1. t[m] = x /\ fBuf'[k] = t
            BY <1>0, <2>1, <3>4, <5>0, Zenon
          <5> QED BY <5>1 DEF FHas
        <4> QED BY <4>1, <4>2
      <3> QED BY <2>2, <3>1, <3>2, <3>3, <3>4 DEF FHas
    <2>5. FReader(1)' /\ FReader(2)'
      <3>1. ASSUME NEW i \in 1 .. 2, i # k PROVE FReader(i)'
        <4>1. fBuf'[i] = fBuf[i] /\ fCh'[i] = fCh[i] /\ FHeld(i)' = FHeld(i) /\ fPc'[i] = fPc[i]
          BY <1>0, <2>1, <2>2, <3>1, Zenon
        <4> QED BY <2>1, <3>1, <4>1 DEF FShared, FReader, FEnds
      <3>2. FReader(k)'
        <4>1. fPc'[k] \in {"space", "print"} /\ fCh'[k] \in 1 .. N /\ Len(fBuf[k]) # 0
          BY <1>0, <2>1
        <4>2. fRc'[k] # 0
          BY <2>1, <4>1 DEF FShared, FReader, FEnds
        <4> QED BY <2>1, <4>1, <4>2 DEF FReader, FEnds
      <3> QED BY <3>1, <3>2
    <2>6. \A i \in 1 .. 2 : fPc'[i] = fPc[i] \/ (i = k /\ fPc[i] = "read" /\ fPc'[i] \in {"space", "print"})
      BY <1>0, <2>1
    <2>7. /\ fPc'[1] = "create" => fPc'[2] = "none"
          /\ fProg = "app1" => fPc'[1] \in {"turn", "done"} \/ fPc'[2] \in {"turn", "done"}
          /\ fPc'[1] = "done" => fRc'[1] = 0
      BY <2>1, <2>6 DEF FShared
    <2>8. fProg' = fProg /\ fOffset' = fOffset
      BY <1>0, <2>1
    <2> QED BY <2>3, <2>4, <2>5, <2>7, <2>8 DEF FShared
  <1>8. ASSUME NEW k \in 1 .. 2, F!SkipSpace(k) PROVE FShared'
    <2>1. /\ fPc[k] = "space" /\ fPc' = [fPc EXCEPT ![k] = "print"] /\ UNCHANGED <<fOut, fCh, fRc>>
          /\ (Len(fBuf[k]) = 0 /\ F!Fill(k)) \/ UNCHANGED <<fBuf, fOffset>>
      BY <1>8 DEF F!SkipSpace
    <2>2. FHeld(1)' = FHeld(1) /\ FHeld(2)' = FHeld(2)
      BY <1>0, <2>1 DEF FHeld
    <2>3. CASE Len(fBuf[k]) = 0 /\ F!Fill(k)
      <3>1. FReader(1)' /\ FReader(2)'
        BY <1>0, <1>4, <2>1, <2>2, <2>3 DEF FShared, FReader, FEnds
      <3> QED BY <1>0, <1>4, <2>1, <2>2, <2>3, <3>1 DEF FShared
    <2>4. CASE UNCHANGED <<fBuf, fOffset>>
      <3>1. FReader(1)' /\ FReader(2)'
        BY <1>0, <2>1, <2>2, <2>4 DEF FShared, FReader, FEnds
      <3> QED BY <1>0, <1>1, <2>1, <2>2, <2>4, <3>1 DEF FShared
    <2> QED BY <2>1, <2>3, <2>4
  <1>9. ASSUME NEW k \in 1 .. 2, F!PrintLetter(k) PROVE FShared'
    <2>0. \A i \in 1 .. 2 : fPc[i] = "print" => fCh[i] \in 1 .. N
      BY DEF FShared, FReader, FEnds, FHeld
    <2>1. /\ fPc[k] = "print" /\ fPc' = [fPc EXCEPT ![k] = "printed"]
          /\ fOut' \in Seq(1 .. N) /\ Len(fOut') = Len(fOut) + 1
          /\ \A j \in 1 .. Len(fOut) : fOut'[j] = fOut[j]
          /\ fOut'[Len(fOut) + 1] = fCh[k]
          /\ UNCHANGED <<fOffset, fBuf, fCh, fRc, fMutex, fLetter, fFile, fOld>>
      BY <1>9, <2>0, PrintFacts
    <2>2. FHeld(k) = 1 /\ FHeld(k)' = 0 /\ \A i \in 1 .. 2 : i # k => FHeld(i)' = FHeld(i)
      BY <1>0, <2>1 DEF FHeld
    <2>3. (Len(fOut) + Len(fBuf[1]) + FHeld(1) + Len(fBuf[2]) + FHeld(2) = fOffset[1])'
      <3>1. PICK a \in Nat, b \in Nat, c \in Nat, d \in Nat, e \in Nat :
              /\ a = Len(fOut) /\ b = Len(fBuf[1]) /\ c = FHeld(1) /\ d = Len(fBuf[2]) /\ e = FHeld(2)
              /\ a + b + c + d + e = fOffset[1]
        BY <1>01, Zenon DEF FShared, FHeld
      <3>0. PICK y \in Nat : y = fOffset[1] /\ a + b + c + d + e = y
        BY <1>01, <3>1
      <3>2. CASE k = 1
        <4>1. c = 1 /\ FHeld(1)' = 0 /\ FHeld(2)' = e /\ Len(fOut') = a + 1
          BY <2>1, <2>2, <3>1, <3>2
        <4>2. c = 1
          BY <4>1
        <4>3. (a + 1) + b + 0 + d + e = y
          BY <3>0, <4>2
        <4> QED BY <2>1, <3>0, <3>1, <4>1, <4>3, Zenon
      <3>3. CASE k = 2
        <4>1. e = 1 /\ FHeld(2)' = 0 /\ FHeld(1)' = c /\ Len(fOut') = a + 1
          BY <2>1, <2>2, <3>1, <3>3
        <4>2. e = 1
          BY <4>1
        <4>3. (a + 1) + b + c + d + 0 = y
          BY <3>0, <4>2
        <4> QED BY <2>1, <3>0, <3>1, <4>1, <4>3, Zenon
      <3> QED BY <3>2, <3>3
    <2>4. ASSUME NEW x \in 1 .. fOffset[1] PROVE FHas(x)'
      <3>1. FHas(x)
        BY <2>4 DEF FShared
      <3>2. CASE \E j \in 1 .. Len(fOut) : fOut[j] = x
        <4>1. PICK j \in 1 .. Len(fOut) : fOut[j] = x
          BY <3>2
        <4>2. j \in 1 .. Len(fOut') /\ fOut'[j] = x
          BY <1>01, <2>1, <4>1
        <4> QED BY <4>2 DEF FHas
      <3>3. CASE fCh[k] = x
        <4>1. Len(fOut) + 1 \in 1 .. Len(fOut')
          BY <1>0, <2>1
        <4> QED BY <2>1, <3>3, <4>1 DEF FHas
      <3>4. ASSUME NEW i \in 1 .. 2,
                   (\E j \in 1 .. Len(fBuf[i]) : fBuf[i][j] = x) \/ (i # k /\ FHeld(i) = 1 /\ fCh[i] = x)
            PROVE  FHas(x)'
        BY <2>1, <2>2, <3>4 DEF FHas
      <3> QED BY <3>1, <3>2, <3>3, <3>4 DEF FHas
    <2>5. FReader(1)' /\ FReader(2)'
      <3>1. ASSUME NEW i \in 1 .. 2 PROVE FReader(i)'
        <4>1. FReader(i)
          BY <3>1 DEF FShared
        <4>2. fPc'[i] = IF i = k THEN "printed" ELSE fPc[i]
          BY <1>0, <2>1
        <4>3. i = k => FHeld(i)' = 0
          BY <2>2
        <4>4. i # k => FHeld(i)' = FHeld(i)
          BY <2>2
        <4>5. fRc'[i] = fRc[i] /\ fBuf'[i] = fBuf[i] /\ fOffset'[1] = fOffset[1] /\ fCh'[i] = fCh[i]
          BY <2>1
        <4> QED BY <4>1, <4>2, <4>3, <4>4, <4>5 DEF FReader, FEnds
      <3> QED BY <3>1
    <2> QED BY <1>0, <2>1, <2>3, <2>4, <2>5 DEF FShared
  <1>10. ASSUME NEW k \in 1 .. 2, F!Loop(k) PROVE FShared'
    <2>1. fPc[k] = "printed" /\ UNCHANGED <<fOut, fBuf, fOffset, fCh, fRc>>
      BY <1>10 DEF F!Loop
    <2>2. CASE fProg = "app1_threads"
      <3>1. fPc' = [fPc EXCEPT ![k] = IF fRc[k] = 1 THEN "read" ELSE "done"]
        BY <1>10, <2>2 DEF F!Loop, F!Threaded, fProg
      <3>2. FHeld(1)' = FHeld(1) /\ FHeld(2)' = FHeld(2)
        BY <1>0, <2>1, <3>1 DEF FHeld
      <3>3. FReader(1)' /\ FReader(2)'
        BY <1>0, <2>1, <3>1, <3>2 DEF FShared, FReader, FEnds
      <3> QED BY <1>0, <1>1, <2>1, <2>2, <3>1, <3>2, <3>3 DEF FShared
    <2>3. CASE fProg = "app1"
      <3>1. PICK i \in 1 .. 2 : i # k /\ i = F!Other(k)
        BY DEF F!Other
      <3>2. \/ k = 2 /\ fRc[1] = 0 /\ fRc[2] = 0 /\ fPc'[1] = "done" /\ fPc'[2] = "done"
            \/ fPc'[k] = "turn" /\ fPc'[i] = "read"
        BY <1>0, <1>10, <2>3, <3>1 DEF F!Loop, F!Threaded, fProg
      <3>3. fPc[i] \in {"turn", "done"}
        BY <2>1, <2>3, <3>1 DEF FShared
      <3>4. FHeld(1)' = FHeld(1) /\ FHeld(2)' = FHeld(2)
        BY <1>0, <2>1, <3>1, <3>2, <3>3 DEF FHeld
      <3>5. FReader(1)' /\ FReader(2)'
        <4>1. \A j \in 1 .. 2 : fPc'[j] \in {"done", "turn", "read"} /\ (fPc'[j] = "done" => fRc[j] = 0)
          BY <3>1, <3>2
        <4>2. FReader(1) /\ FReader(2)
          BY DEF FShared
        <4>3. FReader(1)'
          BY <2>1, <3>4, <4>1, <4>2 DEF FReader, FEnds
        <4>4. FReader(2)'
          BY <2>1, <3>4, <4>1, <4>2 DEF FReader, FEnds
        <4> QED BY <4>3, <4>4
      <3> QED BY <1>0, <1>1, <2>1, <3>1, <3>2, <3>4, <3>5 DEF FShared
    <2> QED BY <1>0, <2>2, <2>3
  <1> QED BY <1>2, <1>21, <1>3, <1>5, <1>6, <1>7, <1>8, <1>9, <1>10 DEF F!Next, F!Step, F!Two

-----------------------------------------------------------------------------
(* app2: what a reader that is not reading or printing has printed.         *)
LEMMA FResting ==
  ASSUME FTypes, NEW k \in 1 .. 2, FSingle(k)
  PROVE  /\ FPrinted(k) \in Int /\ fOffset[k] \in 0 .. N /\ N \in Nat
         /\ fPc[k] \notin {"read", "print"} => FPrinted(k) = fOffset[k]
         /\ fPc[k] = "print" => FPrinted(k) = fOffset[k] - 1
         /\ fPc[k] = "read" => FPrinted(k) = fOffset[k] - Len(fBuf[k])
  <1>1. PICK b \in Nat, h \in Nat, o \in 0 .. N : b = Len(fBuf[k]) /\ h = FHeld(k) /\ o = fOffset[k]
    <2>1. Len(fBuf[k]) \in Nat /\ fOffset[k] \in 0 .. N
      BY DEF FTypes
    <2>2. FHeld(k) \in Nat
      BY DEF FHeld
    <2> QED BY <2>1, <2>2
  <1>2. FPrinted(k) = o - b - h
    BY <1>1 DEF FPrinted
  <1>3. /\ fPc[k] \notin {"read", "print"} => b = 0 /\ h = 0
        /\ fPc[k] = "print" => b = 0 /\ h = 1
        /\ fPc[k] = "read" => h = 0
    <2>1. fPc[k] # "space" /\ b \in {0, 1} /\ (b = 1 => fPc[k] = "read")
      BY <1>1 DEF FSingle
    <2> QED BY <1>1, <2>1 DEF FHeld
  <1>4. /\ o - b - h \in Int /\ N \in Nat
        /\ b = 0 /\ h = 0 => o - b - h = o
        /\ b = 0 /\ h = 1 => o - b - h = o - 1
        /\ h = 0 => o - b - h = o - b
    BY FSizes
  <1> QED BY <1>1, <1>2, <1>3, <1>4

(* A step of one of the two readers: it has read, it is at the end, or it   *)
(* has printed one letter more.                                             *)
LEMMA FSingleStep ==
  ASSUME FTypes, ~ FSharing, NEW k \in 1 .. 2, FSingle(k), UNCHANGED program,
         F!Refill(k) \/ F!EndOfFile(k) \/ F!Take(k) \/ F!PrintLetter(k)
  PROVE  /\ FSingle(k)' /\ UNCHANGED fMutex
         /\ \A i \in 1 .. 2 : i # k => /\ fPc'[i] = fPc[i] /\ fOffset'[i] = fOffset[i] /\ fBuf'[i] = fBuf[i]
                                       /\ fCh'[i] = fCh[i] /\ fRc'[i] = fRc[i]
         /\ \/ /\ fPc[k] = "read" /\ fPc'[k] \in {"read", "print"} /\ UNCHANGED fOut
               /\ FPrinted(k)' = FPrinted(k) /\ FPrinted(k) < N
            \/ /\ fPc[k] = "read" /\ fPc'[k] = "printed" /\ UNCHANGED fOut /\ fRc'[k] = 0
               /\ FPrinted(k) = N /\ FPrinted(k)' = N /\ fOffset[k] = N /\ fOffset'[k] = N
            \/ /\ fPc[k] = "print" /\ fPc'[k] = "printed" /\ Len(fOut') = Len(fOut) + 1
               /\ FPrinted(k)' = FPrinted(k) + 1 /\ fOffset'[k] = fOffset[k] /\ fOffset[k] = FPrinted(k) + 1
               /\ \A j \in 1 .. Len(fOut) : fOut'[j] = fOut[j]
               /\ fOut'[Len(fOut) + 1] = fOffset[k]
  <1>0. /\ FFile(k) = k /\ N \in Nat
        /\ fPc \in [1 .. 2 -> FStates] /\ fOffset \in [1 .. 2 -> 0 .. N] /\ fBuf \in [1 .. 2 -> Seq(1 .. N)]
        /\ fCh \in [1 .. 2 -> 0 .. N] /\ fRc \in [1 .. 2 -> {0, 1}] /\ fOut \in Seq(1 .. N)
        /\ Len(fOut) \in Nat /\ Len(fBuf[k]) \in Nat /\ fOffset[k] \in Nat /\ fOffset[k] <= N
    BY FSizes DEF FSharing, FFile, FTypes
  <1>1. CASE F!Refill(k)
    <2>1. /\ fPc[k] = "read" /\ fBuf[k] = <<>> /\ F!Filled(k) # <<>> /\ F!Fill(k)
          /\ UNCHANGED <<fPc, fCh, fRc, fMutex, fOut>>
      BY <1>1 DEF F!Refill
    <2>2. PICK s \in Seq(1 .. N) :
           /\ s = F!Filled(k)
           /\ fOffset[k] + Len(s) <= N
           /\ \A j \in 1 .. Len(s) : s[j] = fOffset[k] + j
           /\ Len(s) <= 1
           /\ fBuf' = [fBuf EXCEPT ![k] = s]
           /\ fOffset' = [fOffset EXCEPT ![k] = fOffset[k] + Len(s)]
      BY <1>0, <2>1, FillFacts
    <2>3. Len(s) = 1
      <3>1. Len(s) \in Nat /\ Len(s) # 0
        BY <2>1, <2>2, EmptySeq
      <3>2. Len(s) <= 1
        BY <2>2
      <3> QED BY <3>1, <3>2
    <2>4. /\ fOffset'[k] = fOffset[k] + 1 /\ fOffset[k] + 1 <= N /\ fBuf'[k] = s /\ s[1] = fOffset[k] + 1
          /\ Len(fBuf[k]) = 0
      BY <1>0, <2>1, <2>2, <2>3
    <2>5. fRc[k] # 0
      BY <1>0, <2>4 DEF FSingle
    <2>6. FSingle(k)'
      BY <2>1, <2>3, <2>4, <2>5 DEF FSingle
    <2>7. FHeld(k) = 0 /\ FHeld(k)' = 0
      BY <2>1 DEF FHeld
    <2>8. FPrinted(k)' = FPrinted(k) /\ FPrinted(k) < N
      <3>1. PICK o \in Nat : o = fOffset[k] /\ o + 1 <= N /\ o + 1 = fOffset'[k]
        BY <1>0, <2>4
      <3>2. FPrinted(k) = o - 0 - 0 /\ FPrinted(k)' = (o + 1) - 1 - 0
        BY <2>3, <2>4, <2>7, <3>1, Zenon DEF FPrinted
      <3>3. (o + 1) - 1 - 0 = o - 0 - 0 /\ o - 0 - 0 < N
        BY <3>1, FSizes
      <3> QED BY <3>2, <3>3
    <2> QED BY <1>0, <2>1, <2>2, <2>6, <2>8
  <1>2. CASE F!EndOfFile(k)
    <2>1. /\ fPc[k] = "read" /\ fBuf[k] = <<>> /\ F!Filled(k) = <<>> /\ fRc' = [fRc EXCEPT ![k] = 0]
          /\ fPc' = [fPc EXCEPT ![k] = "printed"] /\ UNCHANGED <<fOffset, fBuf, fCh, fMutex, fOut>>
      BY <1>2 DEF F!EndOfFile
    <2>2. fOffset[k] = N
      BY <1>0, <2>1, FilledFacts
    <2>3. fPc'[k] = "printed" /\ fRc'[k] = 0 /\ Len(fBuf[k]) = 0
      BY <1>0, <2>1
    <2>4. FSingle(k)'
      BY <2>1, <2>2, <2>3 DEF FSingle
    <2>5. FHeld(k) = 0 /\ FHeld(k)' = 0
      BY <2>1, <2>3 DEF FHeld
    <2>6. FPrinted(k) = N /\ FPrinted(k)' = N
      <3>1. FPrinted(k) = N - 0 - 0 /\ FPrinted(k)' = N - 0 - 0
        BY <2>1, <2>2, <2>3, <2>5 DEF FPrinted
      <3> QED BY <1>0, <3>1
    <2> QED BY <1>0, <2>1, <2>2, <2>3, <2>4, <2>6
  <1>3. CASE F!Take(k)
    <2>1. PICK t \in Seq(1 .. N) :
           /\ fPc[k] = "read" /\ Len(fBuf[k]) >= 1 /\ Len(t) = Len(fBuf[k]) - 1
           /\ fBuf' = [fBuf EXCEPT ![k] = t] /\ fCh' = [fCh EXCEPT ![k] = fBuf[k][1]]
           /\ fPc' = [fPc EXCEPT ![k] = IF fProg = "app1_threads" THEN "space" ELSE "print"]
           /\ UNCHANGED <<fOffset, fRc, fMutex, fLetter, fOut, fFile, fOld>>
      BY <1>3, TakeFacts
    <2>2. fPc' = [fPc EXCEPT ![k] = "print"]
      BY <2>1, Zenon DEF FSharing
    <2>3. Len(fBuf[k]) = 1 /\ fBuf[k][1] = fOffset[k] /\ fRc[k] # 0
      BY <1>0, <2>1 DEF FSingle
    <2>4. fPc'[k] = "print" /\ fCh'[k] = fOffset[k] /\ fBuf'[k] = t /\ Len(t) = 0
      BY <1>0, <2>1, <2>2, <2>3
    <2>5. fOffset[k] >= 1
      <3>1. fBuf[k][1] \in 1 .. N
        BY <1>0, <2>3
      <3> QED BY <1>0, <2>3, <3>1
    <2>6. FSingle(k)'
      BY <2>1, <2>3, <2>4, <2>5 DEF FSingle
    <2>7. FHeld(k) = 0 /\ FHeld(k)' = 1
      BY <2>1, <2>4 DEF FHeld
    <2>8. FPrinted(k)' = FPrinted(k) /\ FPrinted(k) < N
      <3>1. PICK o \in Nat : o = fOffset[k] /\ o <= N /\ o >= 1
        BY <1>0, <2>5, Zenon
      <3>2. FPrinted(k) = o - 1 - 0 /\ FPrinted(k)' = o - 0 - 1
        BY <2>1, <2>3, <2>4, <2>7, <3>1 DEF FPrinted
      <3>3. o - 0 - 1 = o - 1 - 0 /\ o - 1 - 0 < N
        BY <3>1, FSizes
      <3> QED BY <3>2, <3>3
    <2> QED BY <1>0, <2>1, <2>2, <2>6, <2>8
  <1>4. CASE F!PrintLetter(k)
    <2>1. fPc[k] = "print" => fCh[k] \in 1 .. N /\ fCh[k] = fOffset[k] /\ Len(fBuf[k]) = 0
      BY <1>0 DEF FSingle
    <2>2. /\ fPc[k] = "print" /\ fPc' = [fPc EXCEPT ![k] = "printed"]
          /\ Len(fOut') = Len(fOut) + 1
          /\ \A j \in 1 .. Len(fOut) : fOut'[j] = fOut[j]
          /\ fOut'[Len(fOut) + 1] = fCh[k]
          /\ UNCHANGED <<fOffset, fBuf, fCh, fRc, fMutex, fLetter, fFile, fOld>>
      BY <1>4, <2>1, PrintFacts
    <2>3. fPc'[k] = "printed"
      BY <1>0, <2>2
    <2>4. FSingle(k)'
      BY <2>1, <2>2, <2>3 DEF FSingle
    <2>5. FHeld(k) = 1 /\ FHeld(k)' = 0
      BY <2>2, <2>3 DEF FHeld
    <2>6. FPrinted(k)' = FPrinted(k) + 1 /\ fOffset[k] = FPrinted(k) + 1
      <3>1. PICK o \in Nat : o = fOffset[k]
        BY <1>0
      <3>2. FPrinted(k) = o - 0 - 1 /\ FPrinted(k)' = o - 0 - 0
        BY <2>1, <2>2, <2>5, <3>1 DEF FPrinted
      <3> QED BY <3>1, <3>2
    <2> QED BY <1>0, <2>1, <2>2, <2>3, <2>4, <2>6
  <1> QED BY <1>1, <1>2, <1>3, <1>4

(* It leaves the other reader alone.                                        *)
LEMMA FOther ==
  ASSUME NEW i \in 1 .. 2, fPc'[i] = fPc[i], fOffset'[i] = fOffset[i], fBuf'[i] = fBuf[i],
         fCh'[i] = fCh[i], fRc'[i] = fRc[i]
  PROVE  FPrinted(i)' = FPrinted(i) /\ (FSingle(i) => FSingle(i)')
  BY DEF FPrinted, FSingle, FHeld

(* app2.c prints each letter twice in turn.                                 *)
LEMMA FTurnsStep ==
  ASSUME FTypes, FTurns, fProg = "app2", F!Next, UNCHANGED program
  PROVE  FTurns'
  <1>0. ~ FSharing /\ FSingle(1) /\ FSingle(2) /\ fPc \in [1 .. 2 -> FStates] /\ 1 \in 1 .. 2 /\ 2 \in 1 .. 2
    BY DEF FSharing, FTurns, FTypes
  <1>1. PICK o1 \in 0 .. N, o2 \in 0 .. N, p1 \in Int, p2 \in Int :
           /\ o1 = fOffset[1] /\ o2 = fOffset[2] /\ p1 = FPrinted(1) /\ p2 = FPrinted(2) /\ N \in Nat
           /\ fPc[1] \notin {"read", "print"} => p1 = o1
           /\ fPc[2] \notin {"read", "print"} => p2 = o2
    BY <1>0, FResting
  <1>2. PICK l \in Nat : l = Len(fOut) /\ l = p1 + p2 /\ \A n \in 1 .. l : fOut[n] = (n + 1) \div 2
    <2>1. Len(fOut) \in Nat
      BY DEF FTypes
    <2> QED BY <1>1, <2>1 DEF FTurns
  <1>3. CASE F!CreateThread \/ F!JoinUnset \/ F!WriteLetter
             \/ \E k \in 1 .. 2 : F!SkipSpace(k) \/ F!Lock(k) \/ F!Unlock(k) \/ F!Close(k)
    <2>1. F!Readers = {"app1", "app1_threads", "app2", "app2_threads"}
      BY DEF F!Readers
    <2> QED BY <1>3, <2>1 DEF F!CreateThread, F!JoinUnset, F!WriteLetter, F!SkipSpace, F!Lock, F!Unlock,
                              F!Close, fProg, FTurns
  <1>4. CASE F!Refill(1) \/ F!EndOfFile(1) \/ F!Take(1) \/ F!PrintLetter(1)
    <2>1. fPc[1] \in {"read", "print"} /\ fPc[2] = "turn"
      BY <1>4 DEF F!Refill, F!EndOfFile, F!Take, F!PrintLetter, FTurns
    <2>2. p1 = o2 /\ p2 = o2
      BY <1>1, <2>1 DEF FTurns
    <2>3. FSingle(1)' /\ FSingle(2)' /\ FPrinted(2)' = p2 /\ fPc'[2] = "turn" /\ fOffset'[2] = o2
      BY <1>0, <1>1, <1>4, <2>1, FSingleStep, FOther
    <2>4. \/ /\ fPc[1] = "read" /\ fPc'[1] \in {"read", "print"} /\ UNCHANGED fOut
             /\ FPrinted(1)' = p1
          \/ /\ fPc[1] = "read" /\ fPc'[1] = "printed" /\ UNCHANGED fOut /\ fRc'[1] = 0
             /\ p1 = N /\ FPrinted(1)' = N /\ fOffset'[1] = N
          \/ /\ fPc[1] = "print" /\ fPc'[1] = "printed" /\ Len(fOut') = Len(fOut) + 1
             /\ FPrinted(1)' = p1 + 1 /\ fOffset'[1] = o1 /\ o1 = p1 + 1
             /\ \A j \in 1 .. Len(fOut) : fOut'[j] = fOut[j]
             /\ fOut'[Len(fOut) + 1] = o1
      BY <1>0, <1>1, <1>4, FSingleStep
    <2>5. CASE fPc'[1] \in {"read", "print"} /\ UNCHANGED fOut /\ FPrinted(1)' = p1
      BY <1>1, <1>2, <2>2, <2>3, <2>5, Zenon DEF FTurns
    <2>6. CASE /\ fPc'[1] = "printed" /\ UNCHANGED fOut /\ fRc'[1] = 0
               /\ p1 = N /\ FPrinted(1)' = N /\ fOffset'[1] = N
      BY <1>1, <1>2, <2>2, <2>3, <2>6 DEF FTurns
    <2>7. CASE /\ fPc'[1] = "printed" /\ Len(fOut') = Len(fOut) + 1
               /\ FPrinted(1)' = p1 + 1 /\ fOffset'[1] = o1 /\ o1 = p1 + 1
               /\ \A j \in 1 .. Len(fOut) : fOut'[j] = fOut[j]
               /\ fOut'[Len(fOut) + 1] = o1
      <3>1. l + 1 = (p1 + 1) + p2 /\ o1 = o2 + 1 /\ ((l + 1) + 1) \div 2 = o1
        <4>1. o2 \in Nat /\ l = p1 + p2 /\ p1 = o2 /\ p2 = o2 /\ o1 = p1 + 1
          <5>1. o2 \in Nat
            BY <1>1
          <5> QED BY <1>2, <2>2, <2>7, <5>1, Zenon
        <4>2. l + 1 = (p1 + 1) + p2 /\ o1 = o2 + 1 /\ (l + 1) + 1 = 2 * (o2 + 1)
          BY <4>1
        <4> QED BY <4>1, <4>2
      <3>2. ASSUME NEW n \in 1 .. l + 1 PROVE fOut'[n] = (n + 1) \div 2
        <4>1. n \in 1 .. l \/ n = l + 1
          BY <1>2, <3>2
        <4> QED BY <1>2, <2>7, <3>1, <4>1, Zenon
      <3>3. Len(fOut') = l + 1 /\ Len(fOut') = FPrinted(1)' + FPrinted(2)'
        BY <1>2, <2>3, <2>7, <3>1, Zenon
      <3> QED BY <2>3, <2>7, <3>1, <3>2, <3>3, Zenon DEF FTurns
    <2> QED BY <2>4, <2>5, <2>6, <2>7
  <1>5. CASE F!Refill(2) \/ F!EndOfFile(2) \/ F!Take(2) \/ F!PrintLetter(2)
    <2>1. fPc[2] \in {"read", "print"} /\ fPc[1] = "turn"
      BY <1>5 DEF F!Refill, F!EndOfFile, F!Take, F!PrintLetter, FTurns
    <2>2. p1 = o1 /\ (p2 + 1 = o1 \/ (fPc[2] = "read" /\ o1 = N /\ p2 = N))
      BY <1>1, <2>1 DEF FTurns
    <2>3. FSingle(1)' /\ FSingle(2)' /\ FPrinted(1)' = p1 /\ fPc'[1] = "turn" /\ fOffset'[1] = o1
      BY <1>0, <1>1, <1>5, <2>1, FSingleStep, FOther
    <2>4. \/ /\ fPc[2] = "read" /\ fPc'[2] \in {"read", "print"} /\ UNCHANGED fOut
             /\ FPrinted(2)' = p2 /\ p2 < N
          \/ /\ fPc[2] = "read" /\ fPc'[2] = "printed" /\ UNCHANGED fOut /\ fRc'[2] = 0
             /\ p2 = N /\ FPrinted(2)' = N /\ fOffset'[2] = N
          \/ /\ fPc[2] = "print" /\ fPc'[2] = "printed" /\ Len(fOut') = Len(fOut) + 1
             /\ FPrinted(2)' = p2 + 1 /\ fOffset'[2] = o2 /\ o2 = p2 + 1
             /\ \A j \in 1 .. Len(fOut) : fOut'[j] = fOut[j]
             /\ fOut'[Len(fOut) + 1] = o2
      BY <1>0, <1>1, <1>5, FSingleStep
    <2>5. CASE fPc'[2] \in {"read", "print"} /\ UNCHANGED fOut /\ FPrinted(2)' = p2 /\ p2 < N
      <3>1. p2 + 1 = o1
        BY <1>1, <2>2, <2>5
      <3> QED BY <1>1, <1>2, <2>3, <2>5, <3>1, Zenon DEF FTurns
    <2>6. CASE /\ fPc'[2] = "printed" /\ UNCHANGED fOut /\ fRc'[2] = 0
               /\ p2 = N /\ FPrinted(2)' = N /\ fOffset'[2] = N
      <3>1. o1 = N
        BY <1>1, <2>2, <2>6
      <3> QED BY <1>1, <1>2, <2>2, <2>3, <2>6, <3>1 DEF FTurns
    <2>7. CASE /\ fPc[2] = "print" /\ fPc'[2] = "printed" /\ Len(fOut') = Len(fOut) + 1
               /\ FPrinted(2)' = p2 + 1 /\ fOffset'[2] = o2 /\ o2 = p2 + 1
               /\ \A j \in 1 .. Len(fOut) : fOut'[j] = fOut[j]
               /\ fOut'[Len(fOut) + 1] = o2
      <3>1. p2 + 1 = o1
        BY <2>2, <2>7
      <3>2. l + 1 = p1 + (p2 + 1) /\ o1 = o2 /\ ((l + 1) + 1) \div 2 = o2
        <4>1. o2 \in Nat /\ l = p1 + p2 /\ p1 = o1 /\ p2 + 1 = o1 /\ o2 = p2 + 1
          BY <1>1, <1>2, <2>2, <2>7, <3>1
        <4>2. l + 1 = p1 + (p2 + 1) /\ o1 = o2 /\ (l + 1) + 1 = 2 * o2 + 1
          BY <4>1
        <4> QED BY <4>1, <4>2
      <3>3. ASSUME NEW n \in 1 .. l + 1 PROVE fOut'[n] = (n + 1) \div 2
        <4>1. n \in 1 .. l \/ n = l + 1
          BY <1>2, <3>3
        <4> QED BY <1>2, <2>7, <3>2, <4>1
      <3>4. Len(fOut') = l + 1 /\ Len(fOut') = FPrinted(1)' + FPrinted(2)'
        BY <1>2, <2>3, <2>7, <3>2, Zenon
      <3> QED BY <2>3, <2>7, <3>2, <3>3, <3>4, Zenon DEF FTurns
    <2> QED BY <2>4, <2>5, <2>6, <2>7
  <1>6. ASSUME NEW k \in 1 .. 2, F!Loop(k) PROVE FTurns'
    <2>1. PICK i \in 1 .. 2 : i # k /\ i = F!Other(k)
      BY DEF F!Other
    <2>2. /\ fPc[k] = "printed" /\ UNCHANGED <<fOut, fBuf, fOffset, fCh, fRc>>
          /\ \/ k = 2 /\ fRc[1] = 0 /\ fRc[2] = 0 /\ fPc'[1] = "done" /\ fPc'[2] = "done"
             \/ fPc'[k] = "turn" /\ fPc'[i] = "read"
      BY <1>0, <1>6, <2>1 DEF F!Loop, F!Threaded, fProg
    <2>3. fPc[i] = "turn" /\ fPc[1] \notin {"read", "print"} /\ fPc[2] \notin {"read", "print"}
      BY <2>1, <2>2 DEF FTurns
    <2>4. p1 = o1 /\ p2 = o2 /\ Len(fBuf[1]) = 0 /\ Len(fBuf[2]) = 0
      BY <1>0, <1>1, <2>3 DEF FSingle
    <2>5. FSingle(1)' /\ FSingle(2)'
      BY <1>0, <2>1, <2>2, <2>3, <2>4 DEF FSingle
    <2>6. FPrinted(1)' = o1 /\ FPrinted(2)' = o2
      <3>1. FHeld(1)' = FHeld(1) /\ FHeld(2)' = FHeld(2)
        BY <2>1, <2>2, <2>3 DEF FHeld
      <3>2. FPrinted(1)' = FPrinted(1) /\ FPrinted(2)' = FPrinted(2)
        BY <2>2, <3>1 DEF FPrinted
      <3> QED BY <1>1, <2>4, <3>2
    <2>7. Len(fOut') = FPrinted(1)' + FPrinted(2)' /\ \A n \in 1 .. Len(fOut') : fOut'[n] = (n + 1) \div 2
      BY <1>2, <2>2, <2>4, <2>6, Zenon
    <2>8. CASE k = 1
      <3>1. fPc'[1] = "turn" /\ fPc'[2] = "read"
        BY <2>1, <2>2, <2>8
      <3>2. o1 = o2 + 1 \/ (o1 = o2 /\ o1 = N)
        <4>1. o1 = o2 + 1 \/ (o1 = o2 /\ fRc[1] = 0)
          BY <1>1, <2>2, <2>8 DEF FTurns
        <4> QED BY <1>0, <1>1, <4>1 DEF FSingle
      <3>3. FPrinted(2)' + 1 = fOffset'[1] \/ (fOffset'[1] = N /\ FPrinted(2)' = N)
        BY <1>1, <2>2, <2>6, <3>2
      <3> QED BY <2>5, <2>7, <3>1, <3>3 DEF FTurns
    <2>9. CASE k = 2
      <3>1. o1 = o2
        BY <1>1, <2>2, <2>9 DEF FTurns
      <3>2. FPrinted(1)' = fOffset'[2]
        BY <1>1, <2>2, <2>6, <3>1
      <3> QED BY <2>1, <2>2, <2>5, <2>7, <2>9, <3>2 DEF FTurns
    <2> QED BY <2>8, <2>9
  <1> QED BY <1>3, <1>4, <1>5, <1>6 DEF F!Next, F!Step, F!Two

(* app2_threads_right.c prints the alphabet, and then prints it again.      *)
LEMMA FLockedStep ==
  ASSUME FTypes, FLocked, fProg = "app2_threads", F!Next, UNCHANGED program
  PROVE  FLocked'
  <1>0. /\ ~ FSharing /\ fPc \in [1 .. 2 -> FStates]
        /\ F!Readers = {"app1", "app1_threads", "app2", "app2_threads"}
    BY DEF FSharing, FTypes, F!Readers
  <1>1. fPc[2] # "failed"
    <2>1. SUFFICES ASSUME fPc[2] = "failed" PROVE FALSE
      OBVIOUS
    <2>2. \A k \in 1 .. 2 : fPc[k] \in {"done", "failed"}
      BY <2>1 DEF FLocked
    <2> QED BY <1>0, <2>2 DEF F!Next, F!Step, F!Two, F!CreateThread, F!JoinUnset, F!WriteLetter, F!Refill,
              F!EndOfFile, F!Take, F!SkipSpace, F!PrintLetter, F!Loop, F!Lock, F!Unlock, F!Close, fProg
  <1>2. \A k \in 1 .. 2 : FAlone(k) /\ FSingle(k)
    BY <1>1 DEF FLocked, FAlone
  <1>3. CASE F!JoinUnset \/ F!WriteLetter \/ \E k \in 1 .. 2 : F!SkipSpace(k) \/ F!Close(k)
    BY <1>0, <1>2, <1>3 DEF F!JoinUnset, F!WriteLetter, F!SkipSpace, F!Close, fProg, FAlone
  <1>4. ASSUME UNCHANGED <<fOut, fBuf, fOffset>>, FHeld(1)' = FHeld(1), FHeld(2)' = FHeld(2)
        PROVE  /\ Len(fOut') = FPrinted(1)' + FPrinted(2)'
               /\ \A n \in 1 .. Len(fOut') : fOut'[n] = IF n <= N THEN n ELSE n - N
    <2>1. FPrinted(1)' = FPrinted(1) /\ FPrinted(2)' = FPrinted(2)
      BY <1>4 DEF FPrinted
    <2> QED BY <1>1, <1>4, <2>1 DEF FLocked
  <1>5. CASE F!CreateThread
    <2>1. /\ fPc[1] = "create" /\ fPc[2] = "none" /\ UNCHANGED <<fOut, fBuf, fOffset, fCh, fRc, fMutex>>
          /\ \/ fPc'[1] = "lock" /\ fPc'[2] = "lock"
             \/ fPc'[1] = "done" /\ fPc'[2] = "failed"
      BY <1>1, <1>5 DEF F!CreateThread, F!ThreadStart, FLocked, fProg
    <2>2. FHeld(1)' = FHeld(1) /\ FHeld(2)' = FHeld(2)
      BY <2>1 DEF FHeld
    <2>3. CASE fPc'[1] = "lock" /\ fPc'[2] = "lock"
      <3>1. FAlone(1)' /\ FAlone(2)'
        BY <1>2, <2>1, <2>3 DEF FAlone, FSingle
      <3> QED BY <1>4, <2>1, <2>2, <2>3, <3>1 DEF FLocked
    <2>4. CASE fPc'[1] = "done" /\ fPc'[2] = "failed"
      BY <2>4 DEF FLocked
    <2> QED BY <2>1, <2>3, <2>4
  <1>6. ASSUME NEW k \in 1 .. 2, F!Refill(k) \/ F!EndOfFile(k) \/ F!Take(k) \/ F!PrintLetter(k) PROVE FLocked'
    <2>1. PICK i \in 1 .. 2 : i # k /\ (i = 1 <=> k = 2)
      OBVIOUS
    <2>2. fPc[k] \in {"read", "print"} /\ fMutex = k
      BY <1>2, <1>6 DEF F!Refill, F!EndOfFile, F!Take, F!PrintLetter, FAlone
    <2>3. fPc[i] \in {"create", "none", "lock", "done"} /\ fOffset[i] \in {0, N}
      BY <1>2, <2>1, <2>2 DEF FAlone
    <2>4. PICK o \in 0 .. N, q \in {0, N}, p \in Int :
             o = fOffset[k] /\ q = fOffset[i] /\ p = FPrinted(k) /\ FPrinted(i) = q /\ N \in Nat
      BY <1>2, <2>3, FResting
    <2>5. PICK l \in Nat : /\ l = Len(fOut) /\ l = p + q
                           /\ \A n \in 1 .. l : fOut[n] = IF n <= N THEN n ELSE n - N
      <3>1. Len(fOut) \in Nat
        BY DEF FTypes
      <3>2. /\ Len(fOut) = FPrinted(1) + FPrinted(2)
            /\ \A n \in 1 .. Len(fOut) : fOut[n] = IF n <= N THEN n ELSE n - N
        BY <1>1 DEF FLocked
      <3>3. Len(fOut) = p + q
        BY <2>1, <2>4, <3>2
      <3> QED BY <3>1, <3>2, <3>3
    <2>6. /\ fPc'[i] = fPc[i] /\ fOffset'[i] = fOffset[i] /\ fBuf'[i] = fBuf[i]
          /\ fCh'[i] = fCh[i] /\ fRc'[i] = fRc[i]
          /\ FSingle(k)' /\ fMutex' = k
          /\ fPc'[k] \in {"read", "print", "printed"}
      BY <1>0, <1>2, <1>6, <2>1, <2>2, FSingleStep
    <2>7. FPrinted(i)' = q /\ FSingle(i)'
      BY <1>2, <2>4, <2>6, FOther
    <2>8. FAlone(i)' /\ FAlone(k)'
      BY <1>2, <2>1, <2>2, <2>3, <2>6, <2>7 DEF FAlone
    <2>9. FAlone(1)' /\ FAlone(2)' /\ fPc'[1] # "create" /\ fPc'[2] # "failed"
      <3>1. fPc[1] # "create"
        BY <1>1, <2>1, <2>2 DEF FLocked
      <3> QED BY <2>1, <2>3, <2>6, <2>8, <3>1
    <2>10. ASSUME NEW m \in Int, FPrinted(k)' = m, Len(fOut') = m + q
           PROVE  Len(fOut') = FPrinted(1)' + FPrinted(2)'
      <3>1. m + q = q + m
        BY <2>4
      <3> QED BY <2>1, <2>7, <2>10, <3>1
    <2>11. \/ UNCHANGED fOut /\ FPrinted(k)' = p
           \/ /\ fPc[k] = "print" /\ Len(fOut') = Len(fOut) + 1 /\ FPrinted(k)' = p + 1 /\ o = p + 1
              /\ \A j \in 1 .. Len(fOut) : fOut'[j] = fOut[j]
              /\ fOut'[Len(fOut) + 1] = o
      BY <1>0, <1>2, <1>6, <2>4, FSingleStep
    <2>12. CASE UNCHANGED fOut /\ FPrinted(k)' = p
      BY <2>5, <2>9, <2>10, <2>12, Zenon DEF FLocked
    <2>13. CASE /\ fPc[k] = "print" /\ Len(fOut') = Len(fOut) + 1 /\ FPrinted(k)' = p + 1 /\ o = p + 1
                /\ \A j \in 1 .. Len(fOut) : fOut'[j] = fOut[j]
                /\ fOut'[Len(fOut) + 1] = o
      <3>1. Len(fOut') = l + 1 /\ l + 1 = (p + 1) + q /\ p + 1 \in Int /\ o = p + 1 /\ l = p + q
        <4>1. Len(fOut') = l + 1 /\ o = p + 1
          BY <2>5, <2>13, Zenon
        <4>2. l = p + q /\ q \in Nat
          BY <2>4, <2>5
        <4> QED BY <4>1, <4>2
      <3>2. o = IF l + 1 <= N THEN l + 1 ELSE (l + 1) - N
        <4>1. o \in 1 .. N /\ N \in Nat /\ (q = 0 \/ q = N) /\ l \in Nat
          <5>1. o \in 0 .. N /\ N \in Nat /\ (q = 0 \/ q = N) /\ l \in Nat
            BY <2>4, <2>5
          <5>2. o >= 1
            BY <1>2, <2>4, <2>13, Zenon DEF FSingle
          <5> QED BY <5>1, <5>2
        <4>2. CASE q = 0
          BY <3>1, <4>1, <4>2
        <4>3. CASE q = N
          BY <3>1, <4>1, <4>3
        <4> QED BY <4>1, <4>2, <4>3
      <3>3. ASSUME NEW n \in 1 .. l + 1 PROVE fOut'[n] = IF n <= N THEN n ELSE n - N
        <4>1. n \in 1 .. l \/ n = l + 1
          BY <2>5, <3>3
        <4> QED BY <2>5, <2>13, <3>2, <4>1
      <3>4. Len(fOut') = FPrinted(1)' + FPrinted(2)'
        BY <2>10, <2>13, <3>1
      <3> QED BY <2>9, <3>1, <3>3, <3>4 DEF FLocked
    <2> QED BY <2>11, <2>12, <2>13
  <1>7. ASSUME NEW k \in 1 .. 2, F!Loop(k) \/ F!Lock(k) \/ F!Unlock(k) PROVE FLocked'
    <2>1. PICK i \in 1 .. 2 : i # k /\ (i = 1 <=> k = 2)
      OBVIOUS
    <2>2. /\ UNCHANGED <<fOut, fBuf, fOffset, fCh, fRc>> /\ fPc' = [fPc EXCEPT ![k] = fPc'[k]]
          /\ \/ /\ fPc[k] = "printed" /\ UNCHANGED fMutex
                /\ fPc'[k] = IF fRc[k] = 1 THEN "read" ELSE "unlock"
             \/ fPc[k] = "lock" /\ fMutex = 0 /\ fMutex' = k /\ fPc'[k] = "read"
             \/ fPc[k] = "unlock" /\ fMutex' = 0 /\ fPc'[k] = "done"
      BY <1>0, <1>7 DEF F!Loop, F!Lock, F!Unlock, F!Threaded, fProg
    <2>3. FHeld(1)' = FHeld(1) /\ FHeld(2)' = FHeld(2)
      BY <1>0, <2>2 DEF FHeld
    <2>4. fPc'[i] = fPc[i] /\ FSingle(i)'
      BY <1>0, <1>2, <2>1, <2>2, FOther
    <2>5. fRc[k] = 0 => fOffset[k] = N /\ Len(fBuf[k]) = 0
      BY <1>2 DEF FSingle
    <2>6. FSingle(k)'
      BY <1>2, <2>2 DEF FSingle
    <2>7. fRc[k] \in {0, 1}
      BY DEF FTypes
    <2>8. FAlone(k)'
      BY <1>2, <2>2, <2>5, <2>6, <2>7 DEF FAlone
    <2>9. FAlone(i)'
      <3>1. fPc[i] \in {"read", "print", "printed", "unlock"} => fMutex' = i
        BY <1>2, <2>1, <2>2 DEF FAlone
      <3> QED BY <1>2, <2>2, <2>4, <3>1 DEF FAlone
    <2>10. FAlone(1)' /\ FAlone(2)' /\ fPc'[1] # "create" /\ fPc'[2] # "failed"
      <3>1. fPc[1] # "create"
        BY <1>1, <2>1, <2>2 DEF FLocked
      <3> QED BY <1>1, <2>1, <2>2, <2>4, <2>8, <2>9, <3>1
    <2> QED BY <1>4, <2>2, <2>3, <2>10 DEF FLocked
  <1> QED BY <1>3, <1>5, <1>6, <1>7 DEF F!Next, F!Step, F!Two

-----------------------------------------------------------------------------
(* app3: writing within what was written or from its end on.                *)
LEMMA OverwriteFacts ==
  ASSUME NEW f \in Seq(Nat), NEW h \in Seq(Nat), NEW s \in Seq(1 .. N), NEW o \in Nat, NEW m \in Nat,
         NEW e \in Nat, FBehind(f, h, m), o <= m, e = IF o + Len(s) > m THEN o + Len(s) ELSE m
  PROVE  \E g \in Seq(Nat) :
           /\ g = F!Overwrite(f, o, s)
           /\ FBehind(g, h, e)
           /\ \A n \in 1 .. e : g[n] = IF n > o /\ n <= o + Len(s) THEN s[n - o] ELSE f[n]
  <1>1. PICK a \in Nat, b \in Nat, c \in Nat, d \in Nat :
           /\ a = Len(f) /\ b = Len(s) /\ c = (IF o + b > a THEN o + b ELSE a) /\ d = Len(h)
           /\ a = (IF d > m THEN d ELSE m) /\ e = (IF o + b > m THEN o + b ELSE m)
           /\ \A n \in m + 1 .. d : f[n] = h[n]
    <2>1. Len(f) \in Nat /\ Len(s) \in Nat /\ Len(h) \in Nat
      BY LenProperties
    <2>2. (IF o + Len(s) > Len(f) THEN o + Len(s) ELSE Len(f)) \in Nat
      BY <2>1
    <2>3. Len(f) = (IF Len(h) > m THEN Len(h) ELSE m) /\ \A n \in m + 1 .. Len(h) : f[n] = h[n]
      BY DEF FBehind
    <2> QED BY <2>1, <2>2, <2>3, Zenon
  <1>2. PICK g : g = [n \in 1 .. c |-> IF n \in o + 1 .. o + b THEN s[n - o] ELSE f[n]]
    BY Zenon
  <1>3. g = F!Overwrite(f, o, s)
    BY <1>1, <1>2 DEF F!Overwrite
  <1>4. ASSUME NEW n \in 1 .. c
        PROVE  g[n] \in Nat /\ g[n] = IF n > o /\ n <= o + b THEN s[n - o] ELSE f[n]
    <2>1. g[n] = IF n \in o + 1 .. o + b THEN s[n - o] ELSE f[n]
      BY <1>2, <1>4
    <2>2. CASE n \in o + 1 .. o + b
      <3>1. n - o \in 1 .. b /\ n > o /\ n <= o + b
        BY <1>4, <2>2
      <3>2. n - o \in 1 .. Len(s)
        BY <1>1, <3>1, Zenon
      <3>3. s[n - o] \in 1 .. N
        BY <3>2, ElementOfSeq, Zenon
      <3>4. s[n - o] \in Nat
        BY <3>3
      <3> QED BY <2>1, <2>2, <3>1, <3>4, Zenon
    <2>3. CASE n \notin o + 1 .. o + b
      <3>1. n \in 1 .. a /\ ~ (n > o /\ n <= o + b)
        BY <1>1, <1>4, <2>3
      <3>2. n \in 1 .. Len(f)
        BY <1>1, <3>1, Zenon
      <3>3. f[n] \in Nat
        BY <3>2, ElementOfSeq, Zenon
      <3> QED BY <2>1, <2>3, <3>1, <3>3, Zenon
    <2> QED BY <2>2, <2>3
  <1>5. g \in Seq(Nat) /\ Len(g) = c
    <2>1. g \in [1 .. c -> Nat]
      BY <1>2, <1>4, Zenon
    <2>2. g \in Seq(Nat)
      <3>1. g \in UNION {[1 .. l -> Nat] : l \in Nat}
        BY <1>1, <2>1, Zenon
      <3>2. Seq(Nat) = UNION {[1 .. l -> Nat] : l \in Nat}
        BY SeqDef, Zenon
      <3> QED BY <3>1, <3>2, Zenon
    <2>3. DOMAIN g = 1 .. c /\ DOMAIN g = 1 .. Len(g) /\ Len(g) \in Nat
      BY <2>1, <2>2, LenProperties
    <2>4. Len(g) = c
      BY <1>1, <2>3
    <2> QED BY <2>2, <2>4
  <1>6. c = (IF d > e THEN d ELSE e) /\ e <= c /\ m <= e /\ o + b <= e
    BY <1>1
  <1>7. FBehind(g, h, e)
    <2>1. ASSUME NEW n \in e + 1 .. d PROVE g[n] = h[n]
      <3>1. n \in 1 .. c /\ n \in m + 1 .. d /\ ~ (n <= o + b)
        BY <1>6, <2>1
      <3> QED BY <1>1, <1>4, <3>1
    <2> QED BY <1>1, <1>5, <1>6, <2>1, Zenon DEF FBehind
  <1>8. ASSUME NEW n \in 1 .. e PROVE g[n] = IF n > o /\ n <= o + Len(s) THEN s[n - o] ELSE f[n]
    <2>1. n \in 1 .. c
      BY <1>6, <1>8
    <2> QED BY <1>1, <1>4, <2>1
  <1> QED BY <1>3, <1>5, <1>7, <1>8, Zenon

(* The writers only write and close, in that order.                         *)
LEMMA FWritesStep ==
  ASSUME FTypes, FWrites, fProg \in {"app3_buf", "app3_non_buf"}, F!Next, UNCHANGED program
  PROVE  /\ FWrites' /\ UNCHANGED <<fCh, fRc, fOut, fOld>> /\ fPc' \in [1 .. 2 -> FStates]
         /\ fLetter' \in 1 .. N + 1
         /\ \/ /\ F!WriteLetter /\ fLetter <= N /\ fLetter' = fLetter + 1
               /\ fPc[1] = "write" /\ fPc[2] = "write" /\ UNCHANGED fPc
            \/ \E k \in 1 .. 2 : /\ F!Close(k) /\ fLetter = N + 1 /\ fPc[k] = "write" /\ UNCHANGED fLetter
                                 /\ fPc' = [fPc EXCEPT ![k] = "done"] /\ (k = 2 => fPc[1] = "done")
  <1>0. /\ fPc \in [1 .. 2 -> FStates] /\ fLetter \in 1 .. N + 1 /\ N \in Nat
        /\ \A k \in 1 .. 2 : fPc[k] \in {"write", "done"}
    BY FSizes DEF FTypes, FWrites
  <1>1. F!WriteLetter \/ \E k \in 1 .. 2 : F!Close(k)
    BY <1>0 DEF F!Next, F!Step, F!Two, F!CreateThread, F!JoinUnset, F!Refill, F!EndOfFile,
              F!Take, F!SkipSpace, F!PrintLetter, F!Loop, F!Lock, F!Unlock
  <1>2. CASE F!WriteLetter
    <2>1. fLetter <= N /\ fLetter' = fLetter + 1 /\ UNCHANGED <<fPc, fCh, fRc, fOut, fOld>>
      BY <1>2 DEF F!WriteLetter
    <2>2. fPc[1] = "write" /\ fPc[2] = "write"
      BY <1>0, <2>1 DEF FWrites
    <2> QED BY <1>0, <1>2, <2>1, <2>2 DEF FWrites
  <1>3. ASSUME NEW k \in 1 .. 2, F!Close(k)
        PROVE  /\ FWrites' /\ UNCHANGED <<fCh, fRc, fOut, fOld, fLetter>> /\ fPc' \in [1 .. 2 -> FStates]
               /\ fLetter = N + 1 /\ fPc[k] = "write"
               /\ fPc' = [fPc EXCEPT ![k] = "done"] /\ (k = 2 => fPc[1] = "done")
    <2>1. /\ fLetter > N /\ fPc[k] = "write" /\ fPc' = [fPc EXCEPT ![k] = "done"]
          /\ k = 2 => fPc[1] = "done"
          /\ UNCHANGED <<fCh, fRc, fOut, fOld, fLetter>>
      BY <1>3 DEF F!Close
    <2>2. fLetter = N + 1
      BY <1>0, <2>1
    <2>3. fPc' \in [1 .. 2 -> FStates]
      BY <1>0, <2>1 DEF FStates
    <2> QED BY <1>0, <2>1, <2>2, <2>3 DEF FWrites
  <1> QED BY <1>0, <1>1, <1>2, <1>3

(* fprintf: the second FILE's letters replace those of the first.           *)
LEMMA FBufferedStep ==
  ASSUME FTypes, FWrites, FBuffered, fProg = "app3_buf", F!Next, UNCHANGED program
  PROVE  FTypes' /\ FBuffered'
  <1>0. /\ UNCHANGED <<fCh, fRc, fOut, fOld>> /\ fPc \in [1 .. 2 -> FStates] /\ fPc' \in [1 .. 2 -> FStates]
        /\ fLetter' \in 1 .. N + 1 /\ N \in Nat /\ fOffset[1] = 0 /\ fOffset[2] = 0
        /\ fBuf \in [1 .. 2 -> Seq(1 .. N)] /\ fFile \in Seq(Nat) /\ fOld \in Seq(Nat)
        /\ fLetter \in 1 .. N + 1 /\ fOffset \in [1 .. 2 -> 0 .. N]
    BY FWritesStep, FSizes DEF FTypes, FBuffered
  <1>1. PICK a \in Nat, b \in Nat : a = Len(fBuf[1]) /\ b = Len(fBuf[2])
    BY <1>0
  <1>2. CASE /\ F!WriteLetter /\ fLetter <= N /\ fLetter' = fLetter + 1
             /\ fPc[1] = "write" /\ fPc[2] = "write" /\ UNCHANGED fPc
    <2>1. a + b = fLetter - 1 /\ a \in {b, b + 1} /\ fLetter \in 1 .. N
      BY <1>0, <1>1, <1>2 DEF FBuffered
    <2>2. PICK w \in 1 .. 2 : /\ fBuf' = [fBuf EXCEPT ![w] = Append(fBuf[w], fLetter)]
                              /\ w = (IF fLetter % 2 = 1 THEN 1 ELSE 2) /\ UNCHANGED <<fOffset, fFile>>
      BY <1>0, <1>2 DEF F!WriteLetter, F!Writer, fProg
    <2>3. \/ w = 1 /\ a = b /\ fLetter = 2 * (a + 1) - 1
          \/ w = 2 /\ a = b + 1 /\ fLetter = 2 * (b + 1)
      BY <2>1, <2>2
    <2>4. PICK x \in Seq(1 .. N) : /\ fBuf' = [fBuf EXCEPT ![w] = x] /\ Len(x) = Len(fBuf[w]) + 1
                                   /\ \A n \in 1 .. Len(fBuf[w]) : x[n] = fBuf[w][n]
                                   /\ x[Len(fBuf[w]) + 1] = fLetter
      <3>1. PICK y \in Seq(1 .. N) : y = fBuf[w]
        BY <1>0
      <3>2. /\ Append(y, fLetter) \in Seq(1 .. N) /\ Len(Append(y, fLetter)) = Len(y) + 1
            /\ \A n \in 1 .. Len(y) : Append(y, fLetter)[n] = y[n]
            /\ Append(y, fLetter)[Len(y) + 1] = fLetter
        BY <2>1
      <3> QED BY <2>2, <3>1, <3>2, Zenon
    <2>5. FTypes'
      <3>1. fBuf' \in [1 .. 2 -> Seq(1 .. N)]
        BY <1>0, <2>4, Zenon
      <3> QED BY <1>0, <2>2, <3>1, Zenon DEF FTypes
    <2>6. /\ \A n \in 1 .. a : fBuf[1][n] = 2 * n - 1
          /\ \A n \in 1 .. b : fBuf[2][n] = 2 * n
      BY <1>1, <1>2 DEF FBuffered
    <2>61. fFile = fOld
      BY <1>2 DEF FBuffered
    <2>7. CASE w = 1
      <3>1. fBuf'[1] = x /\ fBuf'[2] = fBuf[2] /\ Len(x) = a + 1 /\ a = b /\ x[a + 1] = 2 * (a + 1) - 1
        <4>1. fBuf'[1] = x /\ fBuf'[2] = fBuf[2]
          BY <1>0, <2>4, <2>7
        <4>2. Len(x) = a + 1 /\ x[a + 1] = fLetter
          BY <1>1, <2>4, <2>7
        <4> QED BY <2>3, <2>7, <4>1, <4>2
      <3>2. ASSUME NEW n \in 1 .. a + 1 PROVE x[n] = 2 * n - 1
        <4>1. n \in 1 .. a \/ n = a + 1
          BY <3>2
        <4>2. \A i \in 1 .. a : x[i] = fBuf[1][i]
          BY <1>1, <2>4, <2>7
        <4>3. CASE n \in 1 .. a
          BY <2>6, <4>2, <4>3, Zenon
        <4>4. CASE n = a + 1
          BY <3>1, <4>4
        <4> QED BY <4>1, <4>3, <4>4
      <3>3. (a + 1) + b = fLetter' - 1
        BY <1>2, <2>1
      <3>4. Len(fBuf'[1]) = a + 1 /\ Len(fBuf'[2]) = b
        BY <1>1, <3>1
      <3>5. /\ Len(fBuf'[1]) + Len(fBuf'[2]) = fLetter' - 1
            /\ Len(fBuf'[1]) \in {Len(fBuf'[2]), Len(fBuf'[2]) + 1}
        BY <3>1, <3>3, <3>4
      <3>6. /\ \A n \in 1 .. Len(fBuf'[1]) : fBuf'[1][n] = 2 * n - 1
            /\ \A n \in 1 .. Len(fBuf'[2]) : fBuf'[2][n] = 2 * n
        BY <2>6, <3>1, <3>2, <3>4
      <3>7. fOffset'[1] = 0 /\ fOffset'[2] = 0 /\ fFile' = fOld' /\ fPc'[1] = "write" /\ fPc'[2] = "write"
        BY <1>0, <1>2, <2>2, <2>61
      <3> QED BY <2>5, <3>5, <3>6, <3>7, Zenon DEF FBuffered
    <2>8. CASE w = 2
      <3>1. fBuf'[2] = x /\ fBuf'[1] = fBuf[1] /\ Len(x) = b + 1 /\ a = b + 1 /\ x[b + 1] = 2 * (b + 1)
        <4>1. fBuf'[2] = x /\ fBuf'[1] = fBuf[1]
          BY <1>0, <2>4, <2>8
        <4>2. Len(x) = b + 1 /\ x[b + 1] = fLetter
          BY <1>1, <2>4, <2>8
        <4> QED BY <2>3, <2>8, <4>1, <4>2
      <3>2. ASSUME NEW n \in 1 .. b + 1 PROVE x[n] = 2 * n
        <4>1. n \in 1 .. b \/ n = b + 1
          BY <3>2
        <4>2. \A i \in 1 .. b : x[i] = fBuf[2][i]
          BY <1>1, <2>4, <2>8
        <4>3. CASE n \in 1 .. b
          BY <2>6, <4>2, <4>3, Zenon
        <4>4. CASE n = b + 1
          BY <3>1, <4>4
        <4> QED BY <4>1, <4>3, <4>4
      <3>3. a + (b + 1) = fLetter' - 1
        BY <1>2, <2>1
      <3>4. Len(fBuf'[1]) = a /\ Len(fBuf'[2]) = b + 1
        BY <1>1, <3>1
      <3>5. /\ Len(fBuf'[1]) + Len(fBuf'[2]) = fLetter' - 1
            /\ Len(fBuf'[1]) \in {Len(fBuf'[2]), Len(fBuf'[2]) + 1}
        BY <3>1, <3>3, <3>4
      <3>6. /\ \A n \in 1 .. Len(fBuf'[1]) : fBuf'[1][n] = 2 * n - 1
            /\ \A n \in 1 .. Len(fBuf'[2]) : fBuf'[2][n] = 2 * n
        BY <2>6, <3>1, <3>2, <3>4
      <3>7. fOffset'[1] = 0 /\ fOffset'[2] = 0 /\ fFile' = fOld' /\ fPc'[1] = "write" /\ fPc'[2] = "write"
        BY <1>0, <1>2, <2>2, <2>61
      <3> QED BY <2>5, <3>5, <3>6, <3>7, Zenon DEF FBuffered
    <2> QED BY <2>7, <2>8
  <1>3. ASSUME NEW k \in 1 .. 2, F!Close(k), fLetter = N + 1, fPc[k] = "write", UNCHANGED fLetter,
               fPc' = [fPc EXCEPT ![k] = "done"], k = 2 => fPc[1] = "done"
        PROVE  FTypes' /\ FBuffered'
    <2>1. /\ fFile' = F!Overwrite(fFile, 0, fBuf[k]) /\ fBuf' = [fBuf EXCEPT ![k] = <<>>] /\ UNCHANGED fOffset
      BY <1>0, <1>3 DEF F!Close
    <2>2. ASSUME NEW m \in Nat, NEW e \in Nat, FBehind(fFile, fOld, m),
                 e = IF Len(fBuf[k]) > m THEN Len(fBuf[k]) ELSE m
          PROVE  /\ fFile' \in Seq(Nat) /\ FBehind(fFile', fOld, e)
                 /\ \A n \in 1 .. Len(fBuf[k]) : fFile'[n] = fBuf[k][n]
      <3>1. PICK s \in Seq(1 .. N) : s = fBuf[k] /\ Len(s) \in Nat
        BY <1>0
      <3>2. 0 \in Nat /\ 0 <= m /\ e = IF 0 + Len(s) > m THEN 0 + Len(s) ELSE m
        BY <2>2, <3>1
      <3>3. fFile \in Seq(Nat) /\ fOld \in Seq(Nat) /\ FBehind(fFile, fOld, m) /\ m \in Nat /\ e \in Nat
        BY <1>0, <2>2
      <3>4. PICK g \in Seq(Nat) :
               /\ g = F!Overwrite(fFile, 0, s) /\ FBehind(g, fOld, e)
               /\ \A n \in 1 .. e : g[n] = IF n > 0 /\ n <= 0 + Len(s) THEN s[n - 0] ELSE fFile[n]
        BY <3>2, <3>3, OverwriteFacts
      <3>5. ASSUME NEW n \in 1 .. Len(s) PROVE g[n] = s[n]
        <4>1. n \in 1 .. e /\ n > 0 /\ n <= 0 + Len(s) /\ n - 0 = n
          BY <3>1, <3>2, <3>5
        <4> QED BY <3>4, <4>1
      <3> QED BY <2>1, <3>1, <3>4, <3>5, Zenon
    <2>3. ASSUME fFile' \in Seq(Nat) PROVE FTypes'
      BY <1>0, <1>3, <2>1, <2>3 DEF FTypes
    <2>4. CASE k = 1
      <3>1. fPc[2] = "write" /\ fPc'[1] = "done" /\ fPc'[2] = "write" /\ fBuf'[2] = fBuf[2]
        BY <1>0, <1>3, <2>1, <2>4 DEF FWrites
      <3>2. a + b = N /\ a \in {b, b + 1} /\ fFile = fOld
        BY <1>0, <1>1, <1>3, <2>4 DEF FBuffered
      <3>3. 2 * a = N /\ 2 * b = N /\ a = b
        BY <3>2, FSizes
      <3>4. FBehind(fFile, fOld, 0)
        <4>1. Len(fOld) \in Nat
          BY <1>0
        <4>2. Len(fOld) = IF Len(fOld) > 0 THEN Len(fOld) ELSE 0
          BY <4>1
        <4> QED BY <3>2, <4>2, Zenon DEF FBehind
      <3>5. fFile' \in Seq(Nat) /\ FBehind(fFile', fOld, b)
        <4>1. b = IF Len(fBuf[k]) > 0 THEN Len(fBuf[k]) ELSE 0
          BY <1>1, <2>4, <3>3
        <4> QED BY <1>1, <2>2, <3>4, <4>1
      <3>6. \A n \in 1 .. Len(fBuf[2]) : fBuf[2][n] = 2 * n
        BY <3>1 DEF FBuffered
      <3>7. FBehind(fFile, fOld, Len(fBuf[2]))'
        BY <1>0, <1>1, <3>1, <3>5
      <3> QED BY <1>0, <1>1, <2>1, <2>3, <3>1, <3>3, <3>5, <3>6, <3>7, Zenon DEF FBuffered
    <2>5. CASE k = 2
      <3>1. fPc[1] = "done" /\ fPc'[1] = "done" /\ fPc'[2] = "done"
        BY <1>0, <1>3, <2>5
      <3>2. FBehind(fFile, fOld, b) /\ 2 * b = N /\ \A n \in 1 .. b : fBuf[2][n] = 2 * n
        BY <1>1, <1>3, <2>5, <3>1 DEF FBuffered
      <3>3. b = N \div 2 /\ b = IF Len(fBuf[k]) > b THEN Len(fBuf[k]) ELSE b
        BY <1>1, <2>5, <3>2
      <3>4. fFile' \in Seq(Nat) /\ FBehind(fFile', fOld, b) /\ \A n \in 1 .. b : fFile'[n] = 2 * n
        BY <1>1, <2>2, <2>5, <3>2, <3>3
      <3>5. FBehind(fFile, fOld, N \div 2)'
        BY <1>0, <3>3, <3>4
      <3> QED BY <1>0, <2>1, <2>3, <3>1, <3>3, <3>4, <3>5, Zenon DEF FBuffered
    <2> QED BY <2>4, <2>5
  <1> QED BY <1>2, <1>3, FWritesStep

(* write: each writer's next letter goes to its own offset.                 *)
LEMMA FDirectStep ==
  ASSUME FTypes, FWrites, FDirect, fProg = "app3_non_buf", F!Next, UNCHANGED program
  PROVE  FTypes' /\ FDirect'
  <1>0. /\ UNCHANGED <<fCh, fRc, fOut, fOld>> /\ fPc' \in [1 .. 2 -> FStates]
        /\ fLetter' \in 1 .. N + 1 /\ N \in Nat /\ fFile \in Seq(Nat) /\ fOld \in Seq(Nat)
        /\ fLetter \in 1 .. N + 1
        /\ fBuf \in [1 .. 2 -> Seq(1 .. N)] /\ fOffset \in [1 .. 2 -> 0 .. N]
    BY FWritesStep, FSizes DEF FTypes
  <1>1. PICK a \in Nat, b \in Nat : /\ a = fOffset[1] /\ b = fOffset[2] /\ FBehind(fFile, fOld, a)
                                    /\ a + b = fLetter - 1 /\ a \in {b, b + 1} /\ a <= N /\ b <= N
    <2>1. fOffset[1] \in Nat /\ fOffset[2] \in Nat /\ fOffset[1] <= N /\ fOffset[2] <= N
      BY <1>0
    <2>2. /\ FBehind(fFile, fOld, fOffset[1]) /\ fOffset[1] + fOffset[2] = fLetter - 1
          /\ fOffset[1] \in {fOffset[2], fOffset[2] + 1}
      BY DEF FDirect
    <2> QED BY <2>1, <2>2
  <1>2. /\ Len(fBuf[1]) = 0 /\ Len(fBuf[2]) = 0
        /\ \A n \in 1 .. a : fFile[n] = IF n <= b THEN 2 * n ELSE 2 * n - 1
    BY <1>1 DEF FDirect
  <1>3. CASE F!WriteLetter /\ fLetter <= N /\ fLetter' = fLetter + 1
    <2>1. PICK w \in 1 .. 2, c \in 1 .. N :
             /\ c = fLetter /\ w = (IF c % 2 = 1 THEN 1 ELSE 2) /\ UNCHANGED fBuf
             /\ fFile' = F!Overwrite(fFile, fOffset[w], <<c>>)
             /\ fOffset' = [fOffset EXCEPT ![w] = fOffset[w] + 1]
      <3>1. fLetter \in 1 .. N
        BY <1>0, <1>3
      <3>2. PICK w \in 1 .. 2 : w = F!Writer /\ w = (IF fLetter % 2 = 1 THEN 1 ELSE 2)
        BY DEF F!Writer
      <3>3. /\ fFile' = F!Overwrite(fFile, fOffset[w], <<fLetter>>) /\ UNCHANGED fBuf
            /\ fOffset' = [fOffset EXCEPT ![w] = fOffset[w] + 1]
        BY <1>0, <1>3, <3>2 DEF F!WriteLetter, fProg
      <3> QED BY <3>1, <3>2, <3>3, Zenon
    <2>2. \/ w = 1 /\ a = b /\ c = 2 * (a + 1) - 1
          \/ w = 2 /\ a = b + 1 /\ c = 2 * (b + 1)
      <3>1. a + b = c - 1 /\ a \in {b, b + 1} /\ w = (IF c % 2 = 1 THEN 1 ELSE 2)
        BY <1>1, <2>1
      <3> QED BY <3>1
    <2>3. PICK o \in Nat : o = fOffset[w] /\ o <= a /\ o + 1 <= N
      <3>1. fOffset[w] = a \/ fOffset[w] = b
        BY <1>1
      <3>2. a <= a /\ b <= a
        BY <1>1
      <3>3. fOffset[w] + 1 <= N
        <4>1. w = 1 => a + 1 <= c
          BY <2>2
        <4>2. w = 2 => b + 1 <= c
          BY <2>2
        <4>3. c <= N /\ N \in Nat
          BY <1>0, <2>1
        <4> QED BY <1>1, <4>1, <4>2, <4>3
      <3> QED BY <1>1, <3>1, <3>2, <3>3
    <2>4. PICK e \in Nat :
             /\ e = (IF o + 1 > a THEN o + 1 ELSE a) /\ fFile' \in Seq(Nat) /\ FBehind(fFile', fOld, e)
             /\ \A n \in 1 .. e : fFile'[n] = IF n > o /\ n <= o + 1 THEN c ELSE fFile[n]
      <3>1. <<c>> \in Seq(1 .. N) /\ Len(<<c>>) = 1 /\ <<c>>[1] = c
        OBVIOUS
      <3>2. PICK s : s = <<c>>
        BY Zenon
      <3>3. PICK e \in Nat : e = (IF o + 1 > a THEN o + 1 ELSE a)
        BY <1>1
      <3>4. PICK g \in Seq(Nat) :
             /\ g = F!Overwrite(fFile, o, s) /\ FBehind(g, fOld, e)
             /\ \A n \in 1 .. e : g[n] = IF n > o /\ n <= o + Len(s) THEN s[n - o] ELSE fFile[n]
        <4>1. /\ fFile \in Seq(Nat) /\ fOld \in Seq(Nat) /\ s \in Seq(1 .. N)
              /\ o \in Nat /\ o <= a /\ a \in Nat /\ FBehind(fFile, fOld, a)
          BY <1>0, <1>1, <2>3, <3>1, <3>2
        <4>2. e = IF o + Len(s) > a THEN o + Len(s) ELSE a
          BY <3>1, <3>2, <3>3
        <4> QED BY <4>1, <4>2, OverwriteFacts
      <3>5. ASSUME NEW n \in 1 .. e PROVE g[n] = IF n > o /\ n <= o + 1 THEN c ELSE fFile[n]
        <4>1. n > o /\ n <= o + 1 => n - o = 1
          <5>1. n \in Nat /\ o \in Nat
            BY <2>3, <3>3
          <5> QED BY <5>1
        <4> QED BY <3>1, <3>2, <3>4, <4>1
      <3>6. g = fFile'
        BY <2>1, <2>3, <3>2, <3>4
      <3> QED BY <3>3, <3>4, <3>5, <3>6, Zenon
    <2>5. fOffset' \in [1 .. 2 -> 0 .. N]
      <3>1. o + 1 \in 0 .. N
        BY <1>0, <2>3
      <3> QED BY <1>0, <2>1, <2>3, <3>1
    <2>6. FTypes'
      BY <1>0, <2>1, <2>4, <2>5, Zenon DEF FTypes
    <2>7. CASE w = 1
      <3>1. /\ o = a /\ fOffset'[1] = a + 1 /\ fOffset'[2] = b /\ e = a + 1
            /\ a = b /\ c = 2 * (a + 1) - 1
        <4>1. o = a /\ fOffset'[1] = a + 1 /\ fOffset'[2] = b
          BY <1>0, <1>1, <2>1, <2>3, <2>7
        <4>2. a + 1 > a
          BY <1>1
        <4> QED BY <2>2, <2>4, <2>7, <4>1, <4>2
      <3>2. ASSUME NEW n \in 1 .. a + 1 PROVE fFile'[n] = IF n <= b THEN 2 * n ELSE 2 * n - 1
        <4>1. fFile'[n] = IF n > a /\ n <= a + 1 THEN c ELSE fFile[n]
          BY <2>4, <3>1, <3>2
        <4>2. CASE n = a + 1
          <5>0. a \in Nat /\ a = b
            BY <1>1, <3>1
          <5>1. n > a /\ n <= a + 1 /\ ~ (n <= b)
            BY <4>2, <5>0
          <5> QED BY <3>1, <4>1, <4>2, <5>1
        <4>3. CASE n \in 1 .. a
          <5>1. ~ (n > a)
            BY <1>1, <4>3
          <5> QED BY <1>2, <4>1, <4>3, <5>1
        <4>4. n = a + 1 \/ n \in 1 .. a
          <5>1. a \in Nat
            BY <1>1
          <5> QED BY <3>2, <5>1
        <4> QED BY <4>2, <4>3, <4>4
      <3>3. (a + 1) + b = fLetter' - 1 /\ a + 1 \in {b, b + 1}
        <4>1. a \in Nat /\ a = b /\ c \in Nat /\ c = 2 * (a + 1) - 1 /\ fLetter' = c + 1
          BY <1>1, <1>3, <2>1, <3>1
        <4> QED BY <4>1
      <3>4. FBehind(fFile, fOld, fOffset[1])'
        BY <1>0, <2>4, <3>1
      <3> QED BY <1>2, <2>1, <2>6, <3>1, <3>2, <3>3, <3>4, Zenon DEF FDirect
    <2>8. CASE w = 2
      <3>1. o = b /\ fOffset'[1] = a /\ fOffset'[2] = b + 1 /\ e = a /\ a = b + 1 /\ c = 2 * (b + 1)
        <4>1. o = b /\ fOffset'[1] = a /\ fOffset'[2] = b + 1
          BY <1>0, <1>1, <2>1, <2>3, <2>8
        <4>2. a = b + 1 /\ ~ (b + 1 > a)
          BY <1>1, <2>2, <2>8
        <4> QED BY <2>2, <2>4, <2>8, <4>1, <4>2
      <3>2. ASSUME NEW n \in 1 .. a PROVE fFile'[n] = IF n <= b + 1 THEN 2 * n ELSE 2 * n - 1
        <4>1. fFile'[n] = IF n > b /\ n <= b + 1 THEN c ELSE fFile[n]
          BY <2>4, <3>1, <3>2
        <4>2. n \in Nat /\ n <= b + 1 /\ b \in Nat
          BY <1>1, <3>1, <3>2
        <4>3. CASE n = b + 1
          <5>1. n > b
            BY <4>2, <4>3
          <5> QED BY <3>1, <4>1, <4>2, <4>3, <5>1
        <4>4. CASE n <= b
          <5>1. ~ (n > b)
            BY <4>2, <4>4
          <5>2. fFile[n] = 2 * n
            BY <1>2, <3>2, <4>4
          <5> QED BY <4>1, <4>2, <5>1, <5>2
        <4> QED BY <4>2, <4>3, <4>4
      <3>3. a + (b + 1) = fLetter' - 1 /\ a \in {b + 1, (b + 1) + 1}
        <4>1. b \in Nat /\ a = b + 1 /\ c \in Nat /\ c = 2 * (b + 1) /\ fLetter' = c + 1
          <5>1. b \in Nat /\ c \in Nat
            BY <1>1, <2>1
          <5>2. fLetter' = c + 1
            BY <1>3, <2>1
          <5> QED BY <3>1, <5>1, <5>2, Zenon
        <4> QED BY <4>1
      <3>4. FBehind(fFile, fOld, fOffset[1])'
        BY <1>0, <2>4, <3>1
      <3> QED BY <1>2, <2>1, <2>6, <3>1, <3>2, <3>3, <3>4, Zenon DEF FDirect
    <2> QED BY <2>7, <2>8
  <1>4. ASSUME NEW k \in 1 .. 2, F!Close(k), UNCHANGED fLetter PROVE FTypes' /\ FDirect'
    <2>1. /\ fFile' = F!Overwrite(fFile, fOffset[k], fBuf[k]) /\ fBuf' = [fBuf EXCEPT ![k] = <<>>]
          /\ UNCHANGED fOffset
      BY <1>4 DEF F!Close
    <2>2. PICK o \in Nat, s \in Seq(1 .. N) : o = fOffset[k] /\ s = fBuf[k] /\ Len(s) = 0 /\ o <= a
      <3>1. fOffset[k] \in Nat /\ fOffset[k] <= a
        BY <1>1
      <3>2. fBuf[k] \in Seq(1 .. N) /\ Len(fBuf[k]) = 0
        BY <1>0, <1>2
      <3> QED BY <3>1, <3>2
    <2>3. PICK g \in Seq(Nat) :
             /\ g = fFile' /\ FBehind(g, fOld, a)
             /\ \A n \in 1 .. a : g[n] = IF n > o /\ n <= o + Len(s) THEN s[n - o] ELSE fFile[n]
      <3>1. /\ fFile \in Seq(Nat) /\ fOld \in Seq(Nat) /\ s \in Seq(1 .. N)
            /\ o \in Nat /\ o <= a /\ a \in Nat /\ FBehind(fFile, fOld, a)
        BY <1>0, <1>1, <2>2
      <3>2. a = IF o + Len(s) > a THEN o + Len(s) ELSE a
        BY <2>2, <3>1
      <3>3. fFile' = F!Overwrite(fFile, o, s)
        BY <2>1, <2>2
      <3> QED BY <3>1, <3>2, <3>3, OverwriteFacts
    <2>5. ASSUME NEW n \in 1 .. a PROVE g[n] = fFile[n]
      <3>1. ~ (n > o /\ n <= o + 0)
        BY <1>1, <2>2, <2>5
      <3> QED BY <2>2, <2>3, <2>5, <3>1
    <2>6. /\ fBuf' \in [1 .. 2 -> Seq(1 .. N)]
          /\ Len(fBuf'[1]) = 0 /\ Len(fBuf'[2]) = 0
      BY <1>0, <1>2, <2>1
    <2>7. FTypes'
      BY <1>0, <2>1, <2>3, <2>6 DEF FTypes
    <2>8. FBehind(fFile, fOld, fOffset[1])'
      BY <1>0, <1>1, <2>1, <2>3
    <2> QED BY <1>1, <1>2, <1>4, <2>1, <2>3, <2>5, <2>6, <2>7, <2>8, Zenon DEF FDirect
  <1> QED BY <1>3, <1>4, FWritesStep

-----------------------------------------------------------------------------
(* The invariant holds at first, ...                                        *)
LEMMA FInitially == F!Init => FInv
  <1> SUFFICES ASSUME F!Init PROVE FInv
    OBVIOUS
  <1>0. /\ fOffset = <<0, 0>> /\ fBuf = << <<>>, <<>> >> /\ fCh = <<0, 0>> /\ fRc = <<1, 1>> /\ fLetter = 1
        /\ fOut = <<>> /\ fOld = fFile /\ fFile \in Seq(Nat) /\ N \in Nat
    <2>1. fFile \in F!Content /\ fOld = fFile
      BY DEF F!Init
    <2>2. OldFiles \subseteq Seq(Nat) /\ <<>> \in Seq(Nat)
      BY LabAssumption, EmptySeq
    <2>3. fFile \in Seq(Nat)
      BY <2>1, <2>2 DEF F!Content
    <2> QED BY <2>1, <2>3, FSizes DEF F!Init
  <1>1. /\ fProg \in FilePrograms
        /\ fProg \in {"app1", "app2"} => fPc = <<"read", "turn">>
        /\ fProg \in {"app1_threads", "app2_threads"} => fPc = <<"create", "none">>
        /\ fProg \in {"app3_buf", "app3_non_buf"} => fPc = <<"write", "write">>
    BY DEF F!Init, fProg, FilePrograms
  <1>2. FTypes
    <2>1. fPc \in [1 .. 2 -> FStates]
      BY <1>1 DEF FStates, FilePrograms
    <2>2. fOffset \in [1 .. 2 -> 0 .. N] /\ fCh \in [1 .. 2 -> 0 .. N]
      BY <1>0
    <2>3. fRc \in [1 .. 2 -> {0, 1}] /\ fLetter \in 1 .. N + 1
      BY <1>0
    <2>4. fBuf \in [1 .. 2 -> Seq(1 .. N)] /\ fOut \in Seq(1 .. N) /\ fFile \in Seq(Nat) /\ fOld \in Seq(Nat)
      <3>1. <<>> \in Seq(1 .. N)
        BY EmptySeq
      <3>2. fBuf \in [1 .. 2 -> Seq(1 .. N)]
        <4>1. PICK B, e : B = Seq(1 .. N) /\ e \in B /\ fBuf = <<e, e>>
          BY <1>0, <3>1, Zenon
        <4>2. e \in B /\ fBuf = <<e, e>>
          BY <4>1
        <4>3. fBuf \in [1 .. 2 -> B]
          BY <4>2
        <4> QED BY <4>1, <4>3, Zenon
      <3> QED BY <1>0, <3>1, <3>2
    <2> QED BY <2>1, <2>2, <2>3, <2>4 DEF FTypes
  <1>3. /\ fOffset[1] = 0 /\ fOffset[2] = 0 /\ Len(fBuf[1]) = 0 /\ Len(fBuf[2]) = 0
        /\ fRc[1] = 1 /\ fRc[2] = 1 /\ Len(fOut) = 0
    BY <1>0
  <1>4. fPc[1] \notin {"space", "print"} /\ fPc[2] \notin {"space", "print"}
    BY <1>1 DEF FilePrograms
  <1>5. FHeld(1) = 0 /\ FHeld(2) = 0 /\ FPrinted(1) = 0 /\ FPrinted(2) = 0
    <2>1. FHeld(1) = 0 /\ FHeld(2) = 0
      BY <1>4 DEF FHeld
    <2>2. FPrinted(1) = 0 - 0 - 0 /\ FPrinted(2) = 0 - 0 - 0
      BY <1>3, <2>1 DEF FPrinted
    <2> QED BY <2>1, <2>2
  <1>6. FSharing => FShared
    BY <1>1, <1>3, <1>5 DEF FSharing, FShared, FReader, FEnds
  <1>7. fProg = "app2" => FTurns
    BY <1>1, <1>3, <1>5 DEF FTurns, FSingle
  <1>8. fProg = "app2_threads" => FLocked
    BY <1>1, <1>3, <1>5 DEF FLocked, FAlone, FSingle
  <1>9. fProg \in {"app3_buf", "app3_non_buf"} => FWrites /\ FBuffered /\ FDirect
    <2>1. FBehind(fFile, fOld, 0)
      <3>1. Len(fFile) \in Nat /\ fOld = fFile
        BY <1>0
      <3>2. Len(fFile) = IF Len(fFile) > 0 THEN Len(fFile) ELSE 0
        BY <3>1
      <3> QED BY <3>1, <3>2, Zenon DEF FBehind
    <2> QED BY <1>0, <1>1, <1>3, <2>1 DEF FWrites, FBuffered, FDirect
  <1> QED BY <1>2, <1>6, <1>7, <1>8, <1>9 DEF FInv

(* ... and every step keeps it.                                             *)
LEMMA FInductive == FInv /\ [Next]_vars => FInv'
  <1> SUFFICES ASSUME FInv, [Next]_vars PROVE FInv'
    OBVIOUS
  <1>0. UNCHANGED program
    BY DEF Next, vars, InDaemon, InStreams, InDatagrams, InFiles, InCalculator, InTree
  <1>1. fProg' = fProg /\ FSharing' = FSharing /\ fProg \in FilePrograms /\ FTypes
    BY <1>0, FSame DEF FInv
  <1>2. CASE F!Next
    <2>1. CASE FSharing
      <3>1. FShared /\ FShared' /\ fProg \in F!Readers
        BY <1>0, <1>1, <1>2, <2>1, FSharedStep DEF FInv, FSharing, F!Readers
      <3>2. \A k \in 1 .. 2 : fPc[k] = "print" => fCh[k] \in 1 .. N
        BY <3>1 DEF FShared, FReader, FEnds, FHeld
      <3>3. FTypes'
        BY <1>0, <1>1, <1>2, <3>1, <3>2, FReadTypes
      <3> QED BY <1>1, <2>1, <3>1, <3>3 DEF FInv, FSharing
    <2>2. CASE fProg = "app2"
      <3>1. FTurns /\ FTurns' /\ fProg \in F!Readers
        BY <1>0, <1>1, <1>2, <2>2, FTurnsStep DEF FInv, F!Readers
      <3>2. \A k \in 1 .. 2 : fPc[k] = "print" => fCh[k] \in 1 .. N
        BY <1>1, <3>1 DEF FTurns, FSingle, FTypes
      <3>3. FTypes'
        BY <1>0, <1>1, <1>2, <3>1, <3>2, FReadTypes
      <3> QED BY <1>1, <2>2, <3>1, <3>3 DEF FInv, FSharing
    <2>3. CASE fProg = "app2_threads"
      <3>1. FLocked /\ FLocked' /\ fProg \in F!Readers
        BY <1>0, <1>1, <1>2, <2>3, FLockedStep DEF FInv, F!Readers
      <3>2. \A k \in 1 .. 2 : fPc[k] = "print" => fCh[k] \in 1 .. N
        BY <1>1, <3>1 DEF FLocked, FAlone, FSingle, FTypes
      <3>3. FTypes'
        BY <1>0, <1>1, <1>2, <3>1, <3>2, FReadTypes
      <3> QED BY <1>1, <2>3, <3>1, <3>3 DEF FInv, FSharing
    <2>4. CASE fProg = "app3_buf"
      <3>1. FWrites' /\ FBuffered' /\ FTypes'
        BY <1>0, <1>1, <1>2, <2>4, FWritesStep, FBufferedStep DEF FInv
      <3> QED BY <1>1, <2>4, <3>1 DEF FInv, FSharing
    <2>5. CASE fProg = "app3_non_buf"
      <3>1. FWrites' /\ FDirect' /\ FTypes'
        BY <1>0, <1>1, <1>2, <2>5, FWritesStep, FDirectStep DEF FInv
      <3> QED BY <1>1, <2>5, <3>1 DEF FInv, FSharing
    <2> QED BY <1>1, <2>1, <2>2, <2>3, <2>4, <2>5 DEF FSharing, FilePrograms
  <1>3. CASE UNCHANGED fVars
    <2>1. UNCHANGED <<fPc, fOffset, fBuf, fCh, fRc, fMutex, fLetter, fOut, fFile, fOld>>
      BY <1>3 DEF fVars
    <2>2. FTypes'
      BY <1>1, <2>1 DEF FTypes
    <2>3. \A k : FHeld(k)' = FHeld(k) /\ FPrinted(k)' = FPrinted(k)
      BY <2>1 DEF FHeld, FPrinted
    <2>4. FShared => FShared'
      <3>1. FReader(1) /\ FReader(2) => FReader(1)' /\ FReader(2)'
        BY <2>1, <2>3 DEF FReader, FEnds
      <3>2. (\A x \in 1 .. fOffset[1] : FHas(x)) => (\A x \in 1 .. fOffset[1] : FHas(x))'
        BY <2>1, <2>3 DEF FHas
      <3> QED BY <1>1, <2>1, <2>3, <3>1, <3>2 DEF FShared
    <2>5. FTurns => FTurns'
      BY <2>1, <2>3 DEF FTurns, FSingle
    <2>6. FLocked => FLocked'
      BY <2>1, <2>3 DEF FLocked, FAlone, FSingle
    <2>7. (FWrites => FWrites') /\ (FBuffered => FBuffered') /\ (FDirect => FDirect')
      BY <2>1, Zenon DEF FWrites, FBuffered, FDirect, FBehind
    <2> QED BY <1>1, <2>2, <2>4, <2>5, <2>6, <2>7 DEF FInv
  <1>4. F!Next \/ UNCHANGED fVars
    BY DEF Next, vars
  <1> QED BY <1>2, <1>3, <1>4

(* The invariant is what the programs promise.                              *)
LEMMA FImplies == FInv => F!EveryLetterPrinted /\ F!SecondCloseWins
  <1> SUFFICES ASSUME FInv PROVE F!EveryLetterPrinted /\ F!SecondCloseWins
    OBVIOUS
  <1>0. SUFFICES ASSUME F!Over PROVE F!EveryLetterPrinted /\ F!SecondCloseWins
    BY DEF F!EveryLetterPrinted, F!SecondCloseWins
  <1>1. fPc[1] = "done" /\ fPc[2] = "done" /\ FTypes /\ N \in Nat
    BY <1>0, FSizes DEF F!Over, FInv
  <1>2. Len(fOut) \in Nat /\ fOut \in Seq(1 .. N)
    BY <1>1 DEF FTypes
  <1>3. FHeld(1) = 0 /\ FHeld(2) = 0
    BY <1>1 DEF FHeld
  <1>4. FSharing => Len(fOut) = N /\ F!ToSet(fOut) = 1 .. N
    <2> SUFFICES ASSUME FSharing PROVE Len(fOut) = N /\ F!ToSet(fOut) = 1 .. N
      OBVIOUS
    <2>1. FShared
      BY DEF FInv
    <2>2. Len(fBuf[1]) = 0 /\ Len(fBuf[2]) = 0 /\ fOffset[1] = N
      BY <1>1, <2>1 DEF FShared, FReader, FEnds
    <2>3. Len(fOut) = N
      <3>1. Len(fOut) + 0 + 0 + 0 + 0 = N
        BY <1>3, <2>1, <2>2 DEF FShared
      <3> QED BY <1>2, <3>1
    <2>4. \A x \in 1 .. N : \E j \in 1 .. Len(fOut) : fOut[j] = x
      BY <1>3, <2>1, <2>2 DEF FShared, FHas
    <2>5. DOMAIN fOut = 1 .. Len(fOut) /\ \A j \in 1 .. Len(fOut) : fOut[j] \in 1 .. N
      BY <1>2, LenProperties, ElementOfSeq, Zenon
    <2>6. F!ToSet(fOut) = 1 .. N
      BY <2>4, <2>5, Zenon DEF F!ToSet
    <2> QED BY <2>3, <2>6
  <1>5. fProg = "app2" => fOut = [n \in 1 .. 2 * N |-> (n + 1) \div 2]
    <2> SUFFICES ASSUME fProg = "app2" PROVE fOut = [n \in 1 .. 2 * N |-> (n + 1) \div 2]
      OBVIOUS
    <2>1. FTurns
      BY DEF FInv
    <2>2. FPrinted(1) = N /\ FPrinted(2) = N
      BY <1>1, <2>1, FResting DEF FTurns, FSingle
    <2>3. Len(fOut) = 2 * N /\ \A n \in 1 .. 2 * N : fOut[n] = (n + 1) \div 2
      <3>1. N + N = 2 * N
        BY <1>1
      <3> QED BY <2>1, <2>2, <3>1 DEF FTurns
    <2>4. fOut = [n \in 1 .. Len(fOut) |-> fOut[n]]
      BY <1>2
    <2> QED BY <2>3, <2>4
  <1>6. fProg = "app2_threads" => fOut = F!Alphabet \o F!Alphabet
    <2> SUFFICES ASSUME fProg = "app2_threads" PROVE fOut = F!Alphabet \o F!Alphabet
      OBVIOUS
    <2>1. FLocked /\ FAlone(1) /\ FAlone(2) /\ FSingle(1) /\ FSingle(2)
      BY <1>1 DEF FInv, FLocked, FAlone
    <2>2. FPrinted(1) = N /\ FPrinted(2) = N
      BY <1>1, <2>1, FResting DEF FAlone
    <2>3. Len(fOut) = N + N /\ \A n \in 1 .. N + N : fOut[n] = IF n <= N THEN n ELSE n - N
      BY <1>1, <2>1, <2>2 DEF FLocked
    <2>4. PICK s \in Seq(1 .. N) : s = F!Alphabet /\ Len(s) = N /\ \A j \in 1 .. N : s[j] = j
      <3>1. F!Alphabet \in Seq(1 .. N) /\ Len(F!Alphabet) = N /\ \A j \in 1 .. N : F!Alphabet[j] = j
        BY FSizes DEF F!Alphabet
      <3> QED BY <3>1, Zenon
    <2>5. /\ s \o s \in Seq(1 .. N) /\ Len(s \o s) = Len(s) + Len(s)
          /\ \A i \in 1 .. Len(s) + Len(s) : (s \o s)[i] = IF i <= Len(s) THEN s[i] ELSE s[i - Len(s)]
      BY ConcatProperties, Zenon
    <2>6. ASSUME NEW i \in 1 .. N + N PROVE (s \o s)[i] = fOut[i]
      <3>1. (s \o s)[i] = IF i <= N THEN s[i] ELSE s[i - N]
        BY <2>4, <2>5, <2>6
      <3>2. CASE i <= N
        <4>1. i \in 1 .. N
          BY <1>1, <2>6, <3>2
        <4> QED BY <2>3, <2>4, <2>6, <3>1, <3>2, <4>1
      <3>3. CASE ~ (i <= N)
        <4>1. i - N \in 1 .. N
          BY <1>1, <2>6, <3>3
        <4> QED BY <2>3, <2>4, <2>6, <3>1, <3>3, <4>1
      <3> QED BY <3>2, <3>3, Zenon
    <2>7. fOut = s \o s
      <3>1. Len(fOut) = Len(s \o s) /\ \A i \in 1 .. Len(fOut) : fOut[i] = (s \o s)[i]
        BY <2>3, <2>4, <2>5, <2>6
      <3> QED BY <1>2, <2>5, <3>1, SeqEqual, Zenon
    <2> QED BY <2>4, <2>7
  <1>7. fProg \in {"app3_buf", "app3_non_buf"} =>
           FBehind(fFile, fOld, N \div 2) /\ \A n \in 1 .. N \div 2 : fFile[n] = 2 * n
    <2>1. CASE fProg = "app3_buf"
      BY <1>1, <2>1 DEF FInv, FBuffered
    <2>2. CASE fProg = "app3_non_buf"
      <3>1. FDirect /\ fLetter = N + 1
        BY <1>1, <2>2 DEF FInv, FWrites
      <3>2. PICK a \in Nat, b \in Nat : a = fOffset[1] /\ b = fOffset[2]
        BY <1>1 DEF FTypes
      <3>3. a + b = (N + 1) - 1 /\ a \in {b, b + 1}
        BY <3>1, <3>2 DEF FDirect
      <3>4. a = b /\ a = N \div 2
        BY <3>3, FSizes
      <3>5. FBehind(fFile, fOld, a) /\ \A n \in 1 .. a : fFile[n] = IF n <= b THEN 2 * n ELSE 2 * n - 1
        BY <3>1, <3>2 DEF FDirect
      <3> QED BY <3>4, <3>5
    <2> QED BY <2>1, <2>2
  <1>8. F!EveryLetterPrinted
    BY <1>4, <1>5, <1>6 DEF F!EveryLetterPrinted, FSharing, fProg
  <1>9. F!SecondCloseWins
    BY <1>7 DEF FBehind, F!SecondCloseWins, F!Readers, fProg, FilePrograms
  <1> QED BY <1>8, <1>9

(* What the programs of lab_buf_io have printed or written when they end:   *)
(* two FILEs over one descriptor give every letter once, two descriptors    *)
(* every letter twice, in turn or one alphabet after the other, and of two  *)
(* writers of one file the second alone is kept.  This is the safety part   *)
(* of LettersKept, for every alphabet of even size and every block size.    *)
THEOREM LettersAreKept == Spec => [](F!EveryLetterPrinted /\ F!SecondCloseWins)
  <1>1. Init => FInv
    BY FInitially DEF Init
  <1> QED BY <1>1, FInductive, FImplies, PTL DEF Spec
=============================================================================
