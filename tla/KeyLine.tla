------------------------------- MODULE KeyLine -------------------------------
(***************************************************************************)
(* The keyboard interrupt line (external) with both modules of lab_tasklet *)
(* on it.  Both request IRQ 1 with IRQF_SHARED, so one key calls both      *)
(* handlers, and each of them reads the same scancode from port 0x60.      *)
(* The modules are loaded and unloaded independently, at any time.         *)
(***************************************************************************)
EXTENDS Integers

CONSTANTS Codes,      \* scancodes the keyboard sends
          MaxKeys     \* bound: interrupts

ASSUME KeyLineAssumption == Codes \subseteq 1 .. 255 /\ MaxKeys \in Nat

VARIABLES
  irq, keys,
  tModule, tHandler, tStage, tMem, tData, tSched, tRun, tArg, tCode, tName, tLate,
  wModule, wHandler, wStage, wMem, wItem, wPending, wRun, wPress, wCode, wName

T == INSTANCE KeyTasklet WITH
       module <- tModule, handler <- tHandler, stage <- tStage, mem <- tMem, data <- tData,
       sched <- tSched, run <- tRun, arg <- tArg, last_key_code <- tCode,
       last_key_name <- tName, late <- tLate

W == INSTANCE KeyWorkqueue WITH
       module <- wModule, handler <- wHandler, stage <- wStage, mem <- wMem, code <- wItem,
       pending <- wPending, run <- wRun, press <- wPress, last_code <- wCode,
       last_key_name <- wName

tVars == <<tModule, tHandler, tStage, tMem, tData, tSched, tRun, tArg, tCode, tName, tLate>>
wVars == <<wModule, wHandler, wStage, wMem, wItem, wPending, wRun, wPress, wCode, wName>>
vars == <<irq, keys, tVars, wVars>>

Init ==
  /\ irq = [todo |-> {}, code |-> 0]
  /\ keys = 0
  /\ T!Init
  /\ W!Init

(* A key: the line calls every handler registered now, if there is one (the *)
(* keyboard's own driver is not modelled).  The next interrupt              *)
(* is served when the handlers have returned.                               *)
Key ==
  /\ irq.todo = {} /\ keys < MaxKeys
  /\ tHandler \/ wHandler
  /\ \E k \in Codes :
       irq' = [todo |-> {h \in {"tasklet", "workqueue"} :
                           IF h = "tasklet" THEN tHandler ELSE wHandler},
               code |-> k]
  /\ keys' = keys + 1
  /\ UNCHANGED <<tVars, wVars>>

TaskletStep   == (T!Irq \/ T!Bottom \/ T!Module) /\ UNCHANGED <<keys, wVars>>
WorkqueueStep == (W!Irq \/ W!Module \/ \E w \in W!Works : W!Work(w)) /\ UNCHANGED <<keys, tVars>>
Rmmod == \/ T!ExitSync /\ UNCHANGED <<keys, wVars>>
         \/ W!ExitSync /\ UNCHANGED <<keys, tVars>>

Next == Key \/ TaskletStep \/ WorkqueueStep \/ Rmmod

Spec == Init /\ [][Next]_vars

-----------------------------------------------------------------------------
(* Properties.                                                              *)

TypeOK ==
  /\ irq.todo \subseteq {"tasklet", "workqueue"}
  /\ T!TypeOK
  /\ W!TypeOK

(* No release is lost: when nothing of a module is under way, what its file *)
(* in /proc shows is the last release that was stored, code and name, also  *)
(* when it came while the bottom half was scheduled or running.  The two    *)
(* work items read the code twice, 10 ms apart in work2_fn, and write the   *)
(* same two variables without a lock: a pair of different keys is shown     *)
(* only while an item is queued or running.                                 *)
BottomHalvesSettle ==
  /\ T!Quiet /\ tData # 0 => tCode = tData /\ tName = T!press_code(tData)
  /\ W!Quiet /\ wItem[1] # 0 => wCode = wItem[1] /\ wName = W!press_code(wItem[1])

(* my_exit of the tasklet module kills the tasklet before it frees the      *)
(* interrupt: the tasklet is scheduled or running in freed memory only if a *)
(* key was handled after tasklet_kill returned, in my_exit or in the error  *)
(* path of my_init.  The workqueue module stops the interrupt, drains the   *)
(* queue and frees the items, in this order, but in a load that fails in    *)
(* proc_create, where kfree comes before destroy_workqueue.                 *)
NothingRunsInFreedMemory ==
  /\ tMem = "freed" /\ ~ T!Quiet => tLate \/ tModule = "undo_irq"
  /\ wMem = "freed" /\ ~ W!Quiet => wModule = "undo_destroy"
=============================================================================
