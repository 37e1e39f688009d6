--------------------------- MODULE ReaderWriterWin ---------------------------
(***************************************************************************)
(* sem_05/lab_03/reader-writer_win/main.c: the reader-writer monitor built *)
(* from two auto-reset events, a mutex and three counters.  A wait that    *)
(* succeeds on an auto-reset event resets it, so "the event is set" is a   *)
(* token that one thread takes.  Every access to a shared counter outside  *)
(* the Interlocked calls is a step of its own, and ++ and -- on            *)
(* active_readers are a load and a store: stop_read does not take bmutex.  *)
(*                                                                         *)
(* The third end of the alphabet raises CTRL_BREAK; no handler is          *)
(* installed, so the console ends the process some time later.             *)
(***************************************************************************)
EXTENDS Naturals, FiniteSets

CONSTANTS
  NWriters,   \* WRITER_COUNT (5 in the code)
  NReaders,   \* READER_COUNT (3 in the code)
  L,          \* letters of the alphabet (26 in the code)
  Rounds      \* the rounds after which the program ends (3 in the code)

Writers == 1 .. NWriters
Readers == NWriters + 1 .. NWriters + NReaders
Threads == Writers \cup Readers
NThreads == NWriters + NReaders
Nobody  == 0

VARIABLES
  can_read, can_write,      \* auto-reset events: signalled or not
  bmutex,                   \* its owner, or Nobody
  read_queue, write_queue,  \* LONG counters changed by Interlocked calls
  active_readers,           \* LONG counter changed by plain ++ and --
  tmp,                      \* the register of a thread's ++ or --
  symbol,                   \* 0 is 'a' - 1, L is 'z'
  cnt,                      \* rounds completed
  pc,                       \* where each thread is
  main,                     \* where main() is
  next,                     \* the thread main() creates next
  break                     \* CTRL_BREAK raised, process not yet ended

queueVars == <<read_queue, write_queue>>
readerVars == <<active_readers, tmp, bmutex>>
dataVars  == <<symbol, cnt, break>>
mainVars  == <<main, next>>
vars == <<can_read, can_write, queueVars, readerVars, dataVars, pc, mainVars>>

Init ==
  /\ can_read = FALSE
  /\ can_write = TRUE
  /\ bmutex = Nobody
  /\ read_queue = 0 /\ write_queue = 0
  /\ active_readers = 0
  /\ tmp = [t \in Threads |-> 0]
  /\ symbol = 0
  /\ cnt = 0
  /\ pc = [t \in Threads |-> "none"]
  /\ main = "init"
  /\ next = 1
  /\ break = FALSE

Running == main # "exited"
At(t, l) == Running /\ pc[t] = l
Goto(t, l) == pc' = [pc EXCEPT ![t] = l]

(* while (cnt < 3), at the head of both thread functions.                   *)
Loop(t) ==
  /\ At(t, "loop")
  /\ Goto(t, IF cnt < Rounds THEN "queue" ELSE "done")
  /\ UNCHANGED <<can_read, can_write, queueVars, readerVars, dataVars, mainVars>>

-----------------------------------------------------------------------------
(* start_read                                                               *)

(* InterlockedIncrement(&read_queue)                                        *)
ReadQueue(t) ==
  /\ At(t, "queue") /\ t \in Readers
  /\ read_queue' = read_queue + 1
  /\ Goto(t, "test")
  /\ UNCHANGED <<can_read, can_write, write_queue, readerVars, dataVars, mainVars>>

(* write_queue > 0 ||                                                       *)
ReadTest(t) ==
  /\ At(t, "test") /\ t \in Readers
  /\ Goto(t, IF write_queue > 0 THEN "wait" ELSE "try")
  /\ UNCHANGED <<can_read, can_write, queueVars, readerVars, dataVars, mainVars>>

(* || WaitForSingleObject(can_write, 0) != WAIT_OBJECT_0                    *)
ReadTry(t) ==
  /\ At(t, "try") /\ t \in Readers
  /\ can_write' = FALSE
  /\ Goto(t, IF can_write THEN "lock" ELSE "wait")
  /\ UNCHANGED <<can_read, queueVars, readerVars, dataVars, mainVars>>

(* WaitForSingleObject(can_read, INFINITE)                                  *)
ReadWait(t) ==
  /\ At(t, "wait") /\ t \in Readers
  /\ can_read
  /\ can_read' = FALSE
  /\ Goto(t, "lock")
  /\ UNCHANGED <<can_write, queueVars, readerVars, dataVars, mainVars>>

(* WaitForSingleObject(bmutex, INFINITE), and the load of active_readers++  *)
ReadLock(t) ==
  /\ At(t, "lock")
  /\ bmutex = Nobody
  /\ bmutex' = t
  /\ tmp' = [tmp EXCEPT ![t] = active_readers]
  /\ Goto(t, "enter")
  /\ UNCHANGED <<can_read, can_write, queueVars, active_readers, dataVars, mainVars>>

(* the store of active_readers++                                            *)
ReadEnter(t) ==
  /\ At(t, "enter")
  /\ active_readers' = tmp[t] + 1
  /\ Goto(t, "dequeue")
  /\ UNCHANGED <<can_read, can_write, queueVars, bmutex, tmp, dataVars, mainVars>>

(* InterlockedDecrement(&read_queue)                                        *)
ReadDequeue(t) ==
  /\ At(t, "dequeue") /\ t \in Readers
  /\ read_queue' = read_queue - 1
  /\ Goto(t, "unlock")
  /\ UNCHANGED <<can_read, can_write, write_queue, readerVars, dataVars, mainVars>>

(* ReleaseMutex(bmutex)                                                     *)
ReadUnlock(t) ==
  /\ At(t, "unlock")
  /\ bmutex' = Nobody
  /\ Goto(t, "print")
  /\ UNCHANGED <<can_read, can_write, queueVars, active_readers, tmp, dataVars, mainVars>>

(* reader() prints symbol.                                                  *)
ReadPrint(t) ==
  /\ At(t, "print")
  /\ Goto(t, "load")
  /\ UNCHANGED <<can_read, can_write, queueVars, readerVars, dataVars, mainVars>>

(* stop_read                                                                *)

(* active_readers--: load, store                                            *)
ReadLoad(t) ==
  /\ At(t, "load")
  /\ tmp' = [tmp EXCEPT ![t] = active_readers]
  /\ Goto(t, "store")
  /\ UNCHANGED <<can_read, can_write, queueVars, active_readers, bmutex, dataVars, mainVars>>

ReadStore(t) ==
  /\ At(t, "store")
  /\ active_readers' = tmp[t] - 1
  /\ Goto(t, "last")
  /\ UNCHANGED <<can_read, can_write, queueVars, bmutex, tmp, dataVars, mainVars>>

(* if (active_readers == 0) SetEvent(can_write)                             *)
ReadLast(t) ==
  /\ At(t, "last")
  /\ can_write' = (can_write \/ active_readers = 0)
  /\ Goto(t, "loop")
  /\ UNCHANGED <<can_read, queueVars, readerVars, dataVars, mainVars>>

Reader(t) ==
  \/ ReadQueue(t) \/ ReadTest(t) \/ ReadTry(t) \/ ReadWait(t) \/ ReadLock(t)
  \/ ReadEnter(t) \/ ReadDequeue(t) \/ ReadUnlock(t) \/ ReadPrint(t)
  \/ ReadLoad(t) \/ ReadStore(t) \/ ReadLast(t)

-----------------------------------------------------------------------------
(* start_write                                                              *)

(* InterlockedIncrement(&write_queue)                                       *)
WriteQueue(t) ==
  /\ At(t, "queue") /\ t \in Writers
  /\ write_queue' = write_queue + 1
  /\ Goto(t, "test")
  /\ UNCHANGED <<can_read, can_write, read_queue, readerVars, dataVars, mainVars>>

(* active_readers > 0 ||                                                    *)
WriteTest(t) ==
  /\ At(t, "test") /\ t \in Writers
  /\ Goto(t, IF active_readers > 0 THEN "wait" ELSE "try")
  /\ UNCHANGED <<can_read, can_write, queueVars, readerVars, dataVars, mainVars>>

(* || WaitForSingleObject(can_read, 0) != WAIT_OBJECT_0                     *)
WriteTry(t) ==
  /\ At(t, "try") /\ t \in Writers
  /\ can_read' = FALSE
  /\ Goto(t, IF can_read THEN "dequeue" ELSE "wait")
  /\ UNCHANGED <<can_write, queueVars, readerVars, dataVars, mainVars>>

(* WaitForSingleObject(can_write, INFINITE)                                 *)
WriteWait(t) ==
  /\ At(t, "wait") /\ t \in Writers
  /\ can_write
  /\ can_write' = FALSE
  /\ Goto(t, "dequeue")
  /\ UNCHANGED <<can_read, queueVars, readerVars, dataVars, mainVars>>

(* InterlockedDecrement(&write_queue)                                       *)
WriteDequeue(t) ==
  /\ At(t, "dequeue") /\ t \in Writers
  /\ write_queue' = write_queue - 1
  /\ Goto(t, "count")
  /\ UNCHANGED <<can_read, can_write, read_queue, readerVars, dataVars, mainVars>>

(* writer(): at 'z' count the round, and raise CTRL_BREAK after the last    *)
WriteCount(t) ==
  /\ At(t, "count")
  /\ cnt' = IF symbol = L THEN cnt + 1 ELSE cnt
  /\ break' = (break \/ (symbol = L /\ cnt + 1 >= Rounds))
  /\ Goto(t, "write")
  /\ UNCHANGED <<can_read, can_write, queueVars, readerVars, symbol, mainVars>>

(* the next letter, 'a' after 'z'                                           *)
WriteSymbol(t) ==
  /\ At(t, "write")
  /\ symbol' = IF symbol = L THEN 1 ELSE symbol + 1
  /\ Goto(t, "end")
  /\ UNCHANGED <<can_read, can_write, queueVars, readerVars, cnt, break, mainVars>>

(* if (cnt < 3) print and stop_write(); otherwise the token is dropped      *)
WriteEnd(t) ==
  /\ At(t, "end")
  /\ Goto(t, IF cnt < Rounds THEN "reset" ELSE "loop")
  /\ UNCHANGED <<can_read, can_write, queueVars, readerVars, dataVars, mainVars>>

(* stop_write: ResetEvent(can_write)                                        *)
WriteReset(t) ==
  /\ At(t, "reset")
  /\ can_write' = FALSE
  /\ Goto(t, "handoff")
  /\ UNCHANGED <<can_read, queueVars, readerVars, dataVars, mainVars>>

(* stop_write: SetEvent(can_read) if a reader is queued, else can_write     *)
FaultyHandoff(t) ==
  /\ At(t, "handoff")
  /\ can_read' = (can_read \/ read_queue > 0)
  /\ can_write' = TRUE
  /\ Goto(t, "loop")
  /\ UNCHANGED <<queueVars, readerVars, dataVars, mainVars>>
WriteHandoff(t) ==
  /\ At(t, "handoff")
  /\ IF read_queue > 0 THEN can_read' = TRUE /\ can_write' = can_write
                       ELSE can_write' = TRUE /\ can_read' = can_read
  /\ Goto(t, "loop")
  /\ UNCHANGED <<queueVars, readerVars, dataVars, mainVars>>

Writer(t) ==
  \/ WriteQueue(t) \/ WriteTest(t) \/ WriteTry(t) \/ WriteWait(t)
  \/ WriteDequeue(t) \/ WriteCount(t) \/ WriteSymbol(t) \/ WriteEnd(t)
  \/ WriteReset(t) \/ WriteHandoff(t)

Thread(t) == Loop(t) \/ Reader(t) \/ Writer(t)

-----------------------------------------------------------------------------
(* main()                                                                   *)

threadVars == <<can_read, can_write, queueVars, readerVars, symbol, cnt>>

(* CreateEvent, CreateEvent, CreateMutex; ExitProcess(1) if one fails.      *)
CreateObjects ==
  /\ main = "init"
  /\ main' \in {"create", "exited"}
  /\ UNCHANGED <<threadVars, pc, next, break>>

CreateThread ==
  /\ main = "create" /\ next <= NThreads
  /\ Goto(next, "loop")
  /\ next' = next + 1
  /\ UNCHANGED <<threadVars, main, break>>

(* CreateThread fails: ExitProcess(1) ends every thread.                    *)
CreateThreadFails ==
  /\ main = "create" /\ next <= NThreads
  /\ main' = "exited"
  /\ UNCHANGED <<threadVars, pc, next, break>>

(* WaitForMultipleObjects(all), the CloseHandles and return 0.              *)
Finish ==
  /\ main = "create" /\ next > NThreads
  /\ \A t \in Threads : pc[t] = "done"
  /\ main' = "exited"
  /\ UNCHANGED <<threadVars, pc, next, break>>

(* The default CTRL_BREAK handler calls ExitProcess.                        *)
Break ==
  /\ Running /\ break
  /\ main' = "exited"
  /\ UNCHANGED <<threadVars, pc, next, break>>

MainThread == CreateObjects \/ CreateThread \/ CreateThreadFails \/ Finish

Terminating == main = "exited" /\ UNCHANGED vars

Next == \/ MainThread \/ Break
        \/ \E t \in Threads : Thread(t)
        \/ Terminating

Spec == Init /\ [][Next]_vars

-----------------------------------------------------------------------------
(* Properties.                                                              *)

ReadHold  == {"lock", "enter", "dequeue", "unlock", "print", "load", "store", "last"}
WriteHold == {"dequeue", "count", "write", "end", "reset", "handoff"}

TypeOK ==
  /\ can_read \in BOOLEAN /\ can_write \in BOOLEAN
  /\ bmutex \in Threads \cup {Nobody}
  /\ read_queue \in 0 .. NReaders /\ write_queue \in 0 .. NWriters
  /\ active_readers \in 0 .. NReaders
  /\ tmp \in [Threads -> 0 .. NReaders]
  /\ symbol \in 0 .. L /\ cnt \in 0 .. Rounds
  /\ pc \in [Threads -> {"none", "loop", "queue", "test", "try", "wait", "done"}
                          \cup ReadHold \cup WriteHold]
  /\ main \in {"init", "create", "exited"}
  /\ next \in 1 .. NThreads + 1
  /\ break \in BOOLEAN

(* The threads that took a token and have not passed it on.                 *)
Holders == {r \in Readers : pc[r] \in ReadHold} \cup {w \in Writers : pc[w] \in WriteHold}

(* There is one token: can_read set, can_write set, or one thread at work.  *)
(* So a writer is alone - and readers, too, never work side by side.  The   *)
(* token disappears only with the writer that completed the last round.     *)
OneToken ==
  /\ ~ (can_read /\ can_write)
  /\ can_read \/ can_write => Holders = {}
  /\ \A s, t \in Holders : s = t
  /\ ~ can_read /\ ~ can_write /\ Holders = {} => cnt = Rounds

(* active_readers is changed without bmutex in stop_read, yet no update is  *)
(* lost: outside the two windows of its holder it is exact.                 *)
ActiveReadersExact ==
  active_readers =
    Cardinality({r \in Readers : pc[r] \in {"dequeue", "unlock", "print", "load", "store"}})
=============================================================================
