---------------------------- MODULE ReadersWriters ----------------------------
(***************************************************************************)
(* The two reader-writer monitors of lab_03, the one of System V           *)
(* semaphores (ReaderWriter) and the one of Windows events                 *)
(* (ReaderWriterWin), with the same writers and readers.  The initial      *)
(* state says which program is started; only its processes take steps.     *)
(***************************************************************************)
EXTENDS ReaderWriter

CONSTANTS WinL, WinRounds   \* L and Rounds of ReaderWriterWin

ASSUME WinAssumption == WinL \in Nat \ {0} /\ WinRounds \in Nat \ {0}

VARIABLES
  platform,
  can_read, can_write, bmutex, read_queue, write_queue, active_readers, tmp, symbol, cnt,
  wPc, wMain, wNext, break

W == INSTANCE ReaderWriterWin WITH
       L <- WinL, Rounds <- WinRounds, pc <- wPc, main <- wMain, next <- wNext

winVars == <<can_read, can_write, bmutex, read_queue, write_queue, active_readers, tmp, symbol,
             cnt, wPc, wMain, wNext, break>>
bothVars == <<platform, vars, winVars>>

BothInit == platform \in {"unix", "windows"} /\ Init /\ W!Init

OnUnix    == platform = "unix"
OnWindows == platform = "windows"

BothNext == /\ \/ OnUnix /\ Next /\ UNCHANGED winVars
               \/ OnWindows /\ W!Next /\ UNCHANGED vars
            /\ UNCHANGED platform

(* Every process or thread that can run is scheduled, and every signal or   *)
(* console event that was raised arrives.                                   *)
BothSpec ==
  /\ BothInit /\ [][BothNext]_bothVars
  /\ WF_vars(OnUnix /\ Parent) /\ WF_vars(OnUnix /\ DeliverMain)
  /\ \A c \in Children : WF_vars(OnUnix /\ Child(c)) /\ WF_vars(OnUnix /\ Deliver(c))
  /\ WF_winVars(OnWindows /\ W!MainThread) /\ WF_winVars(OnWindows /\ W!Break)
  /\ \A t \in W!Threads : WF_winVars(OnWindows /\ W!Thread(t))

-----------------------------------------------------------------------------
(* Properties, besides those of ReaderWriter.                               *)

(* main.c of reader-writer_win: one thread at a time has the token, it is   *)
(* lost only after the last round, and no update of active_readers, which   *)
(* stop_read changes without the mutex, gets lost.                          *)
OneToken == W!OneToken /\ W!ActiveReadersExact

(* On UNIX every process ends once a writer has counted two rounds, those   *)
(* asleep in semop and those forked after the signal included.  On Windows  *)
(* no hand-over is lost: the rounds are completed and the process ends.     *)
EndDue == OnWindows \/ \E w \in Writers : count[w] = 2
Ended  == IF OnWindows THEN wMain = "exited" ELSE AllGone
ProgramsEnd == EndDue ~> Ended
=============================================================================
