----------------------------- MODULE LabPrograms ------------------------------
(***************************************************************************)
(* The programs of the labs that run on their own, one of them at a time:  *)
(* the initial state says which one is started, and only its processes     *)
(* take steps.  The others stay where their Init puts them.                *)
(***************************************************************************)
EXTENDS Naturals, FiniteSets, Sequences

CONSTANTS
  NStarts, NEdits, NSignals, NBoots,   \* Daemon
  Message, Reply, AnswerRead,          \* Streams
  Clients, NRuns, NSigints,            \* Datagrams
  N, BufSize, OldFiles,                \* FileIo
  Users, NConns,                       \* Calculator
  Root, ParentOf, Above, Files, Special, Kinds, Home, Arguments    \* TreeWalk

ASSUME LabAssumption ==
  /\ {NStarts, NEdits, NSignals, NBoots, NRuns, NSigints, NConns} \subseteq Nat
  /\ N \in Nat /\ N % 2 = 0 /\ BufSize \in Nat \ {0} /\ OldFiles \subseteq Seq(Nat)
  /\ DOMAIN Message = {"lockstep", "race", "pipe", "signal"}
  /\ \A p \in DOMAIN Message : Message[p] \in Seq(Nat \ {0})
  /\ \A p \in {"lockstep", "race"} : Reply[p] \in Nat /\ AnswerRead[p] \in Nat
  /\ Reply["lockstep"] >= Len(Message["lockstep"]) * AnswerRead["lockstep"]
  /\ Reply["race"] = AnswerRead["race"]

(* The directory tree: each node but the root is once in the directory that *)
(* is its parent, and only directories have entries.                        *)
ASSUME TreeAssumption ==
  LET Nodes == DOMAIN ParentOf
  IN /\ ParentOf \in [Nodes -> Nodes \ Files] /\ IsFiniteSet(Nodes)
     /\ Nodes \subseteq STRING /\ {".", "..", "none"} \cap Nodes = {}
     /\ Root \in Nodes /\ ParentOf[Root] = Root
     /\ Above \in [Nodes -> SUBSET Nodes] /\ Above[Root] = {Root}
     /\ \A m \in Nodes \ {Root} : /\ m \notin Above[ParentOf[m]]
                                 /\ Above[m] = {m} \cup Above[ParentOf[m]]
     /\ Files \subseteq Nodes /\ {Special, Home} \subseteq Nodes \ Files
     /\ Kinds \subseteq {"dir", "dnr", "nox"}
     /\ Arguments \subseteq [absolute : BOOLEAN, steps : Seq(STRING) \ {<<>>}]

VARIABLES
  program,
  dPc, dThread, dPending, dLockfile, dLock, dConfig, dTried, dPassed, dBound,
  sMain, sI, sChild, sUp, sDown, sReply, sGot, sGlued, sFlag,
  gSrv, gHow, gName, gFiles, gFlag, gAlarm, gQueue, gTo, gCl, gMail, gAbandoned, gLeft,
  fPc, fOffset, fBuf, fCh, fRc, fMutex, fLetter, fOut, fFile, fOld,
  kUp, kXprt, kCall, kData, kWorker, kRes, kReply, kOpened, kCl, kConn, kResult, kFlag, kLate,
  tKind, tArgv, tWalk, tPc, tPath, tCwd, tStack, tLevel, tReport

StreamPrograms == DOMAIN Message
DatagramPrograms == {"alarm", "echo"}
FilePrograms == {"app1", "app1_threads", "app2", "app2_threads", "app3_buf", "app3_non_buf"}
Programs == {"daemon", "calculator", "ftw"} \cup StreamPrograms \cup DatagramPrograms \cup FilePrograms

D == INSTANCE Daemon WITH
       pc <- dPc, thread <- dThread, pending <- dPending, lockfile <- dLockfile, lock <- dLock,
       config <- dConfig, tried <- dTried, passed <- dPassed, bound <- dBound

S == INSTANCE Streams WITH
       prog <- IF program \in StreamPrograms THEN program ELSE "pipe",
       main <- sMain, i <- sI, child <- sChild, up <- sUp, down <- sDown, reply <- sReply,
       got <- sGot, glued <- sGlued, flag <- sFlag

G == INSTANCE Datagrams WITH
       prog <- IF program \in DatagramPrograms THEN program ELSE "alarm",
       srv <- gSrv, how <- gHow, name <- gName, files <- gFiles, flag <- gFlag, alarm <- gAlarm,
       queue <- gQueue, to <- gTo, cl <- gCl, mail <- gMail, abandoned <- gAbandoned,
       left <- gLeft

F == INSTANCE FileIo WITH
       prog <- IF program \in FilePrograms THEN program ELSE "app1",
       pc <- fPc, offset <- fOffset, buf <- fBuf, ch <- fCh, rc <- fRc, mutex <- fMutex,
       letter <- fLetter, out <- fOut, file <- fFile, old <- fOld

K == INSTANCE Calculator WITH
       up <- kUp, xprt <- kXprt, call <- kCall, data <- kData, worker <- kWorker, res <- kRes,
       reply <- kReply, opened <- kOpened, cl <- kCl, conn <- kConn,
       result <- kResult, flag <- kFlag, late <- kLate

T == INSTANCE TreeWalk WITH
       kind <- tKind, argv <- tArgv, walk <- tWalk, pc <- tPc, path <- tPath, cwd <- tCwd,
       stack <- tStack, level <- tLevel, report <- tReport

dVars == <<dPc, dThread, dPending, dLockfile, dLock, dConfig, dTried, dPassed, dBound>>
sVars == <<sMain, sI, sChild, sUp, sDown, sReply, sGot, sGlued, sFlag>>
gVars == <<gSrv, gHow, gName, gFiles, gFlag, gAlarm, gQueue, gTo, gCl, gMail, gAbandoned, gLeft>>
fVars == <<fPc, fOffset, fBuf, fCh, fRc, fMutex, fLetter, fOut, fFile, fOld>>
kVars == <<kUp, kXprt, kCall, kData, kWorker, kRes, kReply, kOpened, kCl, kConn, kResult,
           kFlag, kLate>>
tVars == <<tKind, tArgv, tWalk, tPc, tPath, tCwd, tStack, tLevel, tReport>>
vars == <<program, dVars, sVars, gVars, fVars, kVars, tVars>>

Init ==
  /\ program \in Programs
  /\ D!Init
  /\ S!Init
  /\ G!Init
  /\ F!Init
  /\ K!Init
  /\ T!Init

InDaemon     == program = "daemon" /\ UNCHANGED program
InStreams    == program \in StreamPrograms /\ UNCHANGED program
InDatagrams  == program \in DatagramPrograms /\ UNCHANGED program
InFiles      == program \in FilePrograms /\ UNCHANGED program
InCalculator == program = "calculator" /\ UNCHANGED program
InTree       == program = "ftw" /\ UNCHANGED program

Next ==
  \/ InDaemon /\ D!Next /\ UNCHANGED <<sVars, gVars, fVars, kVars, tVars>>
  \/ InStreams /\ S!Next /\ UNCHANGED <<dVars, gVars, fVars, kVars, tVars>>
  \/ InDatagrams /\ G!Next /\ UNCHANGED <<dVars, sVars, fVars, kVars, tVars>>
  \/ InFiles /\ F!Next /\ UNCHANGED <<dVars, sVars, gVars, kVars, tVars>>
  \/ InCalculator /\ K!Next /\ UNCHANGED <<dVars, sVars, gVars, fVars, tVars>>
  \/ InTree /\ T!Next /\ UNCHANGED <<dVars, sVars, gVars, fVars, kVars>>

(* The scheduler runs every thread and every process that can run; nobody   *)
(* has to start a program, to send a signal or to end a client.  A timer    *)
(* that was set goes off.                                                   *)
Spec ==
  /\ Init /\ [][Next]_vars
  /\ \A p \in 1 .. NStarts : /\ WF_dVars(InDaemon /\ D!Main(p))
                             /\ WF_dVars(InDaemon /\ D!Thread(p))
  /\ WF_sVars(InStreams /\ S!Parent)
  /\ \A c \in 1 .. 3 : WF_sVars(InStreams /\ c \in S!Children /\ S!Child(c))
  /\ WF_gVars(InDatagrams /\ G!Server)
  /\ WF_gVars(InDatagrams /\ G!Sigalrm)
  /\ \A c \in Clients : WF_gVars(InDatagrams /\ G!Client(c))
  /\ WF_fVars(InFiles /\ (F!CreateThread \/ F!JoinUnset \/ F!WriteLetter))
  /\ \A k \in {1, 2} : WF_fVars(InFiles /\ F!Step(k))
  /\ \A c \in Users : WF_kVars(InCalculator /\ K!Client(c))

-----------------------------------------------------------------------------
(* Properties.                                                              *)

TypeOK ==
  /\ program \in Programs
  /\ D!TypeOK /\ S!TypeOK /\ G!TypeOK /\ F!TypeOK /\ K!TypeOK /\ T!TypeOK

(* The daemon passes already_running() once between two boots, however      *)
(* starts race and whatever ends it.                                        *)
OncePerBoot == D!OncePerBoot

(* No signal that can be blocked ends a daemon that has its thread.         *)
ServiceOutlivesSignals == D!ServiceOutlivesSignals

(* A SIGHUP leads to a reread() of what the configuration then was.         *)
HupRereads == D!HupRereads

(* The parents end, with their pipe drained, unless a read glued messages;  *)
(* and in main.c of lab_01 every child's bytes come from the first answer.  *)
StreamsEnd == program \in StreamPrograms => S!StreamsEnd /\ []S!FirstAnswerServesAll

(* A server that ends frees SOCK_NAME, but for the ways that are named.     *)
NameFreedAtEnd == G!NameFreedAtEnd

(* A client gets its answer unless the server ended or it was killed.       *)
AnsweredOrAbandoned == G!AnsweredOrAbandoned

(* What the programs of lab_buf_io print or leave in the file, and that     *)
(* they end.                                                                *)
LettersKept == program \in FilePrograms => F!LettersRead /\ []F!SecondCloseWins

(* The three walks of ftw report the tree that was asked for, but for the   *)
(* arguments after which chdir("..") does not lead back.                    *)
TreeReported == T!TreeReported

(* A client of the calculator prints the result of its own call, as long as *)
(* no thread outlived its connection, and ends when it is asked to.         *)
OwnResultsAndStop == program = "calculator" => []K!OwnResult /\ K!ClientsStop
=============================================================================
