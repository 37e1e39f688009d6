--------------------------- MODULE LabModulesProofs ---------------------------
(***************************************************************************)
(* The safety properties of the loadable modules, for every set of         *)
(* scancodes, processes, cached objects and mount points, every pot size   *)
(* and every bound on keys and calls.  Each module has an inductive        *)
(* invariant that says what exists at each point of its init and exit.     *)
(***************************************************************************)
EXTENDS LabModules, WellFoundedInduction, TLAPS

-----------------------------------------------------------------------------
(* my_vfs.c                                                                 *)

(* What exists at each point of myfs_init and myfs_exit.                    *)
VStages ==
  /\ vModule \in {"register", "kmalloc", "failed", "load_failed", "unregister", "absent"}
       => vArea = FALSE
  /\ vModule \in {"register", "kmalloc", "cache", "failed", "load_failed"} => vCache = "null"
  /\ vModule \in {"fill", "loaded", "empty", "oops"} => vCache = "created"
  /\ vModule = "unregister" => vCache = "destroyed"
  /\ vModule = "absent" => vRegistered = FALSE /\ vCache # "created"
  /\ vModule \in {"kmalloc", "cache", "failed", "load_failed"} => vRegistered = TRUE

(* The loop of myfs_exit has still to free every object that is allocated:  *)
(* it starts with all of them, and none is allocated after it starts.       *)
VObjects ==
  /\ vModule = "loaded" => vTodo = Objects
  /\ vModule = "empty" => vTmp \subseteq vTodo
  /\ vCache = "destroyed" => vTmp = {}

(* Nothing is mounted before the module can be used or once it goes away.   *)
VMounts == vModule \in {"register", "empty", "oops", "unregister", "absent"} => ~ V!Pinned

VInv == V!TypeOK /\ VStages /\ VObjects /\ VMounts

LEMMA VInvInit == V!Init => VInv
  BY DEF V!Init, VInv, V!TypeOK, VStages, VObjects, VMounts, V!Pinned

LEMMA VInvInits == ASSUME VInv, V!Register \/ V!Kmalloc \/ V!CreateCache PROVE VInv'
  BY DEF VInv, V!TypeOK, VStages, VObjects, VMounts, V!Pinned, V!Register, V!Kmalloc,
         V!CreateCache, V!Goto

LEMMA VInvLoop == ASSUME VInv, NEW o \in Objects, V!Alloc(o) \/ V!Free(o) PROVE VInv'
<1>1. VMounts'
  BY DEF VInv, V!TypeOK, VMounts, V!Pinned, V!Alloc, V!Free
<1>2. V!TypeOK' /\ VStages' /\ VObjects'
  BY DEF VInv, V!TypeOK, VStages, VObjects, V!Alloc, V!Free
<1> QED
  BY <1>1, <1>2 DEF VInv

LEMMA VInvModule ==
  ASSUME VInv, V!Loaded \/ V!LoadFails \/ V!Rmmod \/ V!Destroy \/ V!Unregister
  PROVE  VInv'
<1>1. VMounts'
  BY DEF VInv, V!TypeOK, VMounts, V!Pinned, V!Loaded, V!LoadFails, V!Rmmod, V!Destroy,
         V!Unregister, V!Goto
<1>2. V!TypeOK' /\ VStages' /\ VObjects'
  BY DEF VInv, V!TypeOK, VStages, VObjects, V!Loaded, V!LoadFails, V!Rmmod, V!Destroy,
         V!Unregister, V!Goto
<1> QED
  BY <1>1, <1>2 DEF VInv

LEMMA VInvMount == ASSUME VInv, NEW m \in Mounts, V!Mount(m) PROVE VInv'
<1>1. VMounts'
  BY DEF VInv, V!TypeOK, VMounts, V!Pinned, V!Mount, V!MountStart, V!FillSb, V!KillSuper, V!Usable
<1>2. V!TypeOK' /\ VStages' /\ VObjects'
  BY DEF VInv, V!TypeOK, VStages, VObjects, V!Mount, V!MountStart, V!FillSb, V!KillSuper
<1> QED
  BY <1>1, <1>2 DEF VInv

LEMMA VInvNext == ASSUME VInv, V!Next PROVE VInv'
  BY VInvInits, VInvLoop, VInvModule, VInvMount DEF V!Next, V!Module

LEMMA VInvStutter == ASSUME VInv, UNCHANGED vVars PROVE VInv'
  BY DEF VInv, V!TypeOK, VStages, VObjects, VMounts, V!Pinned, vVars

(* my_vfs.c: rmmod leaves nothing behind, whatever failed in myfs_init and  *)
(* however mounts came and went.                                            *)
THEOREM VfsUnloadsCleanly == LabSpec => []CleanUnload
<1>1. LabInit => VInv
  BY VInvInit DEF LabInit
<1>2. VInv /\ [LabNext]_allVars => VInv'
  BY VInvNext, VInvStutter DEF LabNext, allVars, vVars
<1>3. VInv => CleanUnload
  BY DEF VInv, V!TypeOK, VStages, VObjects, VMounts, CleanUnload, V!CleanUnload
<1> QED
  BY <1>1, <1>2, <1>3, PTL DEF LabSpec

-----------------------------------------------------------------------------
(* tasklet.c on the keyboard line                                           *)

(* The states of my_init and my_exit in which the handler is registered.    *)
TOnLine == {"proc_create", "loaded", "kill", "free_irq", "undo_kill", "undo_kfree", "undo_irq"}

(* The types the argument needs.                                            *)
TTypes ==
  /\ tModule \in TOnLine \cup {"kmalloc", "request_irq", "kfree", "absent"}
  /\ tModule \in TOnLine => tHandler = TRUE
  /\ tModule \notin TOnLine => tHandler = FALSE
  /\ tStage \in BOOLEAN /\ tSched \in BOOLEAN /\ tLate \in BOOLEAN
  /\ tRun \in {"none", "code", "name"}

(* The line waits for the module's handler only while it is registered, and *)
(* the handler has stored a code only while the line waits for it.          *)
TLine ==
  /\ "tasklet" \in irq.todo => tModule \in TOnLine
  /\ tStage = TRUE => "tasklet" \in irq.todo

(* The tasklet is freed in the last step of either way out, and before it   *)
(* the tasklet is idle unless a key came late.                              *)
TFreed ==
  /\ tMem = "freed" => tModule \in {"undo_irq", "absent"}
  /\ tModule \in {"kmalloc", "request_irq"} => tSched = FALSE /\ tRun = "none"
  /\ tModule \in {"free_irq", "kfree", "undo_kfree", "undo_irq", "absent"} =>
       tLate = TRUE \/ (tSched = FALSE /\ tRun = "none")

(* When the handler is through and the tasklet is not scheduled, its        *)
(* function works, or has worked, on the last data stored.                  *)
TSettle ==
  tStage = FALSE /\ tSched = FALSE /\ tData # 0 =>
    /\ tRun \in {"code", "name"} => tArg = tData
    /\ tRun \in {"name", "none"} => tCode = tData
    /\ tRun = "none" => tName = T!press_code(tData)

TInv == TTypes /\ TLine /\ TFreed /\ TSettle

LEMMA TInvInit == Init => TInv
<1> SUFFICES ASSUME Init PROVE TInv
  OBVIOUS
<1>1. tStage \in BOOLEAN /\ tSched \in BOOLEAN /\ tLate \in BOOLEAN
  BY Zenon DEF Init, T!Init
<1>2. TTypes
  BY <1>1 DEF Init, T!Init, TTypes, TOnLine
<1>3. TLine /\ TFreed /\ TSettle
  BY DEF Init, T!Init, TLine, TFreed, TSettle
<1> QED
  BY <1>2, <1>3 DEF TInv

LEMMA TInvIrq == ASSUME TInv, T!Irq PROVE TInv'
<1>1. TTypes' /\ TFreed'
  <2>1. tLate' \in BOOLEAN /\ tStage' \in BOOLEAN /\ tSched' \in BOOLEAN
    BY Zenon DEF TInv, TTypes, T!Irq, T!IrqStore, T!IrqSchedule
  <2>2. TTypes'
    BY <2>1 DEF TInv, TTypes, TOnLine, T!Irq, T!IrqStore, T!IrqSchedule
  <2>3. tLate' = TRUE \/ UNCHANGED <<tLate, tSched>>
        \/ tModule \in {"proc_create", "loaded", "kill", "undo_kill"}
    BY <2>1 DEF TInv, TTypes, TLine, TOnLine, T!Irq, T!IrqStore, T!IrqSchedule
  <2>4. tStage = FALSE \/ tModule \in TOnLine
    BY DEF TInv, TTypes, TLine
  <2> QED
    BY <2>2, <2>3, <2>4 DEF TInv, TTypes, TFreed, TOnLine, T!Irq, T!IrqStore, T!IrqSchedule
<1>2. CASE T!IrqStore
  <2>1. TLine'
    BY <1>2 DEF TInv, TTypes, TLine, TOnLine, T!IrqStore, T!Return
  <2>2. TSettle'
    BY <1>2 DEF TInv, TTypes, TSettle, T!IrqStore
  <2> QED
    BY <1>1, <2>1, <2>2 DEF TInv
<1>3. CASE T!IrqSchedule
  <2>1. TLine'
    BY <1>3 DEF TInv, TTypes, TLine, TOnLine, T!IrqSchedule, T!Return
  <2>2. TSettle'
    BY <1>3 DEF TInv, TTypes, TSettle, T!IrqSchedule
  <2> QED
    BY <1>1, <2>1, <2>2 DEF TInv
<1> QED
  BY <1>2, <1>3 DEF T!Irq

LEMMA TInvBottom == ASSUME TInv, T!Bottom PROVE TInv'
<1>1. TTypes' /\ TFreed' /\ TLine'
  BY DEF TInv, TTypes, TFreed, TLine, TOnLine, T!Bottom, T!SoftIrq, T!FunCode, T!FunName
<1>2. TSettle'
  BY DEF TInv, TTypes, TSettle, T!Bottom, T!SoftIrq, T!FunCode, T!FunName
<1> QED
  BY <1>1, <1>2 DEF TInv

LEMMA TInvModule == ASSUME TInv, T!Module \/ T!ExitSync PROVE TInv'
<1>1. TSettle'
  BY DEF TInv, TSettle, T!Module, T!ExitSync, T!Kmalloc, T!RequestIrq, T!ProcCreate, T!Kill,
         T!FreeIrq, T!Kfree, T!rest
<1>2. TTypes' /\ TFreed' /\ TLine'
  BY DEF TInv, TTypes, TFreed, TLine, TOnLine, T!Module, T!ExitSync, T!Kmalloc, T!RequestIrq,
         T!ProcCreate, T!Kill, T!FreeIrq, T!Kfree, T!Goto, T!rest
<1> QED
  BY <1>1, <1>2 DEF TInv

(* A step of the other module only answers for that module's handler.       *)
LEMMA TInvOther ==
  ASSUME TInv, UNCHANGED tVars, "tasklet" \in irq'.todo <=> "tasklet" \in irq.todo
  PROVE  TInv'
  BY DEF TInv, TTypes, TLine, TFreed, TSettle, TOnLine, tVars

LEMMA TInvKey == ASSUME TInv, Key PROVE TInv'
<1>1. TLine'
  BY DEF Key, TInv, TTypes, TLine, tVars
<1>2. TTypes' /\ TFreed' /\ TSettle'
  BY DEF Key, TInv, TTypes, TFreed, TSettle, tVars
<1> QED
  BY <1>1, <1>2 DEF TInv

-----------------------------------------------------------------------------
(* my_workqueue.c on the keyboard line                                      *)

WOnLine == {"proc_create", "loaded", "free_irq", "undo_irq"}

WTypes ==
  /\ wModule \in WOnLine \cup {"alloc", "request_irq", "flush", "kfree", "undo_kfree",
                               "undo_destroy", "absent"}
  /\ wModule \in WOnLine => wHandler = TRUE
  /\ wModule \notin WOnLine => wHandler = FALSE
  /\ wStage \in {"none", "queue1", "queue2"}
  /\ wPending \in [W!Works -> BOOLEAN]
  /\ wRun \in [W!Works -> {"none", "code", "name"}]
  /\ wPress = [w \in W!Works |-> wPress[w]]

WLine ==
  /\ "workqueue" \in irq.todo => wModule \in WOnLine
  /\ wStage # "none" => "workqueue" \in irq.todo

(* The items are freed when nothing is queued or running, but for the error *)
(* path of my_init.                                                         *)
WFreed ==
  /\ wMem = "freed" => wModule \in {"undo_destroy", "absent"}
  /\ wModule \in {"alloc", "request_irq", "kfree", "absent"} =>
       \A w \in W!Works : wPending[w] = FALSE /\ wRun[w] = "none"

(* The item w will be run, from its start, after the last store.            *)
WAhead(w) == wStage = "queue1" \/ (wStage = "queue2" /\ w = 2) \/ wPending[w] = TRUE

(* Both items hold the same code.  An item that runs and is not queued      *)
(* again has read that code; when no item is queued, the code shown is that *)
(* one once no item has still to store it, and so is the name.              *)
WSettle ==
  /\ wItem = [w \in W!Works |-> wItem[1]]
  /\ \A w \in W!Works : ~ WAhead(w) /\ wRun[w] # "none" => wPress[w] = W!press_code(wItem[1])
  /\ wItem[1] # 0 /\ (\A w \in W!Works : ~ WAhead(w)) =>
       /\ (\A w \in W!Works : wRun[w] # "code") => wCode = wItem[1]
       /\ (\A w \in W!Works : wRun[w] = "none") => wName = W!press_code(wItem[1])

WInv == WTypes /\ WLine /\ WFreed /\ WSettle

LEMMA WInvInit == Init => WInv
  BY DEF Init, W!Init, WInv, WTypes, WLine, WFreed, WSettle, WAhead, WOnLine, W!Works

LEMMA WInvStore == ASSUME WInv, W!IrqStore PROVE WInv'
<1>1. WTypes' /\ WFreed'
  BY DEF WInv, WTypes, WFreed, WOnLine, W!IrqStore
<1>2. WLine'
  BY DEF WInv, WTypes, WLine, WOnLine, W!IrqStore, W!Return
<1>3. WSettle'
  BY DEF WInv, WTypes, WSettle, WAhead, W!IrqStore, W!Works
<1> QED
  BY <1>1, <1>2, <1>3 DEF WInv

LEMMA WInvQueue == ASSUME WInv, W!IrqQueue PROVE WInv'
<1>1. WTypes'
  BY DEF WInv, WTypes, WOnLine, W!IrqQueue, W!Works
<1>2. WLine' /\ WFreed'
  BY DEF WInv, WTypes, WLine, WFreed, WOnLine, W!IrqQueue, W!Return, W!Works
<1>3. WSettle'
  BY DEF WInv, WTypes, WSettle, WAhead, W!IrqQueue, W!Works
<1> QED
  BY <1>1, <1>2, <1>3 DEF WInv

LEMMA WInvWork == ASSUME WInv, NEW w \in W!Works, W!Work(w) PROVE WInv'
<1>1. WTypes' /\ WLine' /\ WFreed'
  BY DEF WInv, WTypes, WLine, WFreed, WOnLine, W!Work, W!WorkStart, W!WorkCode, W!WorkName
<1>2. WSettle'
  BY DEF WInv, WTypes, WSettle, WAhead, W!Work, W!WorkStart, W!WorkCode, W!WorkName, W!Works
<1> QED
  BY <1>1, <1>2 DEF WInv

LEMMA WInvModule == ASSUME WInv, W!Module \/ W!ExitSync PROVE WInv'
<1>1. WSettle'
  BY DEF WInv, WSettle, WAhead, W!Module, W!ExitSync, W!Alloc, W!RequestIrq, W!ProcCreate,
         W!FreeIrq, W!Flush, W!Kfree, W!UndoDestroy, W!rest
<1>2. WTypes' /\ WLine' /\ WFreed'
  BY DEF WInv, WTypes, WLine, WFreed, WOnLine, W!Module, W!ExitSync, W!Alloc, W!RequestIrq,
         W!ProcCreate, W!FreeIrq, W!Flush, W!Kfree, W!UndoDestroy, W!Goto, W!rest
<1> QED
  BY <1>1, <1>2 DEF WInv

LEMMA WInvOther ==
  ASSUME WInv, UNCHANGED wVars, "workqueue" \in irq'.todo <=> "workqueue" \in irq.todo
  PROVE  WInv'
  BY DEF WInv, WTypes, WLine, WFreed, WSettle, WAhead, WOnLine, wVars

LEMMA WInvKey == ASSUME WInv, Key PROVE WInv'
<1>1. WLine'
  BY DEF Key, WInv, WTypes, WLine, wVars
<1>2. WTypes' /\ WFreed' /\ WSettle'
  BY DEF Key, WInv, WTypes, WFreed, WSettle, WAhead, wVars
<1> QED
  BY <1>1, <1>2 DEF WInv

-----------------------------------------------------------------------------
(* The line: one step is a key, or a step of one of the modules.            *)

LEMMA OtherHandlers ==
  /\ T!Irq \/ T!Bottom \/ T!Module \/ T!ExitSync =>
       ("workqueue" \in irq'.todo <=> "workqueue" \in irq.todo)
  /\ W!Irq \/ W!Module \/ W!ExitSync \/ (\E w \in W!Works : W!Work(w)) =>
       ("tasklet" \in irq'.todo <=> "tasklet" \in irq.todo)
<1>1. T!Return => ("workqueue" \in irq'.todo <=> "workqueue" \in irq.todo)
  BY DEF T!Return
<1>2. W!Return => ("tasklet" \in irq'.todo <=> "tasklet" \in irq.todo)
  BY DEF W!Return
<1>3. T!Irq \/ T!Bottom \/ T!Module \/ T!ExitSync => T!Return \/ UNCHANGED irq
  BY DEF T!Irq, T!IrqStore, T!IrqSchedule, T!Bottom, T!SoftIrq, T!FunCode, T!FunName, T!Module,
         T!ExitSync, T!Kmalloc, T!RequestIrq, T!ProcCreate, T!Kill, T!FreeIrq, T!Kfree
<1>4. W!Irq \/ W!Module \/ W!ExitSync \/ (\E w \in W!Works : W!Work(w)) => W!Return \/ UNCHANGED irq
  BY DEF W!Irq, W!IrqStore, W!IrqQueue, W!Work, W!WorkStart, W!WorkCode, W!WorkName, W!Module,
         W!ExitSync, W!Alloc, W!RequestIrq, W!ProcCreate, W!FreeIrq, W!Flush, W!Kfree, W!UndoDestroy
<1> QED
  BY <1>1, <1>2, <1>3, <1>4

LEMMA KeyLineNext == ASSUME TInv, WInv, Next PROVE TInv' /\ WInv'
<1>1. CASE Key
  BY <1>1, TInvKey, WInvKey
<1>2. CASE TaskletStep \/ (T!ExitSync /\ UNCHANGED <<keys, wVars>>)
  BY <1>2, TInvIrq, TInvBottom, TInvModule, WInvOther, OtherHandlers DEF TaskletStep
<1>3. CASE WorkqueueStep \/ (W!ExitSync /\ UNCHANGED <<keys, tVars>>)
  <2>1. UNCHANGED tVars
    BY <1>3 DEF WorkqueueStep
  <2>2. W!Irq \/ W!Module \/ W!ExitSync \/ (\E w \in W!Works : W!Work(w))
    BY <1>3 DEF WorkqueueStep
  <2>3. WInv'
    BY <2>2, WInvStore, WInvQueue, WInvModule, WInvWork DEF W!Irq
  <2> QED
    BY <2>1, <2>2, <2>3, TInvOther, OtherHandlers
<1> QED
  BY <1>1, <1>2, <1>3 DEF Next, Rmmod

LEMMA KeyLineStutter == ASSUME TInv, WInv, UNCHANGED vars PROVE TInv' /\ WInv'
  BY TInvOther, WInvOther DEF vars

(* No release is lost by the tasklet or by the two work items, whenever it  *)
(* comes.                                                                   *)
THEOREM NoReleaseLost == LabSpec => []BottomHalvesSettle
<1>1. LabInit => TInv /\ WInv
  BY TInvInit, WInvInit DEF LabInit
<1>2. TInv /\ WInv /\ [LabNext]_allVars => TInv' /\ WInv'
  BY KeyLineNext, KeyLineStutter DEF LabNext, allVars
<1>3. TInv /\ WInv => BottomHalvesSettle
  BY DEF TInv, TTypes, TSettle, WInv, WTypes, WSettle, WAhead, BottomHalvesSettle, T!Quiet,
         W!Quiet, W!Works
<1> QED
  BY <1>1, <1>2, <1>3, PTL DEF LabSpec

-----------------------------------------------------------------------------
(* fortune.c: the pot and the calls                                         *)

(* What exists at each point of md_init and md_exit; a call in progress     *)
(* keeps the file.                                                          *)
CStages ==
  /\ cModule \in {"vmalloc", "mkdir", "create", "symlink", "indices", "loaded", "remove", "vfree",
                  "absent"}
  /\ cFile = TRUE => cModule \in {"symlink", "indices", "loaded", "remove"}
  /\ cModule \in {"mkdir", "create", "symlink", "indices", "loaded", "remove", "vfree"}
       => cMem = "alloc"
  /\ cCall \in [Callers -> {"closed", "open", "copy", "count", "end", "print", "format", "copied"}]
  /\ cModule \notin {"symlink", "indices", "loaded", "remove"} => \A c \in Callers : ~ C!Busy(c)

LEMMA CStagesInit == C!Init => CStages
  BY DEF C!Init, CStages, C!Busy

LEMMA CStagesModule == ASSUME CStages, C!Module PROVE CStages'
  BY DEF CStages, C!Busy, C!Module, C!Vmalloc, C!Mkdir, C!Create, C!Symlink, C!Indices, C!Rmmod,
         C!RemoveFile, C!Vfree, C!Step, C!rest

LEMMA CStagesCaller == ASSUME CStages, NEW c \in Callers, C!Caller(c) PROVE CStages'
<1>1. PICK there \in {"closed", "open", "copy", "count", "end", "print", "format", "copied"} :
        cCall' = [cCall EXCEPT ![c] = there]
  BY DEF C!Caller, C!Open, C!Release, C!WriteCheck, C!WriteCopy, C!WriteCount, C!WriteEnd, C!WritePrint,
         C!ReadStart, C!ReadFormat, C!ReadEnd, C!Goto
<1>2. C!Busy(c)' => C!Busy(c) \/ cFile = TRUE
  BY DEF CStages, C!Busy, C!Caller, C!Open, C!Release, C!WriteCheck, C!WriteCopy, C!WriteCount,
         C!WriteEnd, C!WritePrint, C!ReadStart, C!ReadFormat, C!ReadEnd, C!Goto, C!Enter
<1>3. UNCHANGED <<cModule, cFile, cMem>>
  BY DEF C!Caller, C!Open, C!Release, C!WriteCheck, C!WriteCopy, C!WriteCount, C!WriteEnd, C!WritePrint,
         C!ReadStart, C!ReadFormat, C!ReadEnd, C!load
<1> QED
  BY <1>1, <1>2, <1>3 DEF CStages, C!Busy

LEMMA CStagesNext == ASSUME CStages, [LabNext]_allVars PROVE CStages'
<1>1. ASSUME UNCHANGED cVars PROVE CStages'
  BY <1>1 DEF CStages, C!Busy, cVars
<1> QED
  BY <1>1, CStagesModule, CStagesCaller DEF LabNext, allVars, C!Next, cVars

(* Nothing runs in freed memory: the tasklet only in the windows tLate      *)
(* records, the work items only in the error path of my_init, a call on the *)
(* cookie file never.                                                       *)
THEOREM MemoryFreedWhenUnused == LabSpec => []FreedWhenUnused
<1>1. LabInit => TInv /\ WInv /\ CStages
  BY TInvInit, WInvInit, CStagesInit DEF LabInit
<1>2. TInv /\ WInv /\ CStages /\ [LabNext]_allVars => TInv' /\ WInv' /\ CStages'
  BY KeyLineNext, KeyLineStutter, CStagesNext DEF LabNext, allVars
<1>3. TInv => (tMem = "freed" /\ ~ T!Quiet => tLate \/ tModule = "undo_irq")
  BY DEF TInv, TTypes, TLine, TFreed, TOnLine, T!Quiet
<1>4. WInv => (wMem = "freed" /\ ~ W!Quiet => wModule = "undo_destroy")
  BY DEF WInv, WTypes, WLine, WFreed, WOnLine, W!Quiet
<1>5. CStages => C!PotOutlivesCalls
  BY DEF CStages, C!PotOutlivesCalls
<1>6. TInv /\ WInv /\ CStages => FreedWhenUnused
  BY <1>3, <1>4, <1>5 DEF FreedWhenUnused, NothingRunsInFreedMemory
<1> QED
  BY <1>1, <1>2, <1>6, PTL DEF LabSpec

-----------------------------------------------------------------------------
(* fortune.c: the indices, when calls do not overlap                        *)

CTypes ==
  /\ cReadInd \in Nat /\ cWriteInd \in Nat
  /\ cLen \in [Callers -> Nat]
  /\ cMixed \in BOOLEAN /\ cEarly \in BOOLEAN

(* Until two calls overlap, at most one is in progress.                     *)
CAlone ==
  cMixed = FALSE => \A c, d \in Callers : C!Busy(c) /\ C!Busy(d) => c = d

(* Until a call comes too early, the pot is untouched while md_init runs.   *)
CUntouched ==
  cEarly = FALSE /\ cModule \in {"vmalloc", "mkdir", "create", "symlink", "indices"} =>
    /\ \A c \in Callers : ~ C!Busy(c)
    /\ cReadInd = 0 /\ cWriteInd = 0

(* What a call knows of the indices at each of its steps.                   *)
CCall(c) ==
  /\ cCall[c] = "copy" => cWriteInd + cLen[c] <= PotSize + 1
  /\ cCall[c] = "count" => cWriteInd + cLen[c] <= PotSize
  /\ cCall[c] \in {"end", "print"} => cLen[c] <= cWriteInd
  /\ cCall[c] = "format" => cReadInd < cWriteInd
  /\ cCall[c] = "copied" => /\ cLen[c] >= 1 /\ cReadInd + cLen[c] <= cWriteInd
                            /\ cReadInd + cLen[c] - 1 \notin cText

(* A 0 is in front of both indices; the one of writeInd is missing while a  *)
(* cookie is stored.                                                        *)
CZeros ==
  /\ cWriteInd <= PotSize /\ cReadInd <= cWriteInd
  /\ cReadInd > 0 => cReadInd - 1 \notin cText
  /\ (\A c \in Callers : cCall[c] \notin {"count", "end"}) /\ cWriteInd > 0
       => cWriteInd - 1 \notin cText

(* The last byte of the pot is not 0 only while the cookie that fills the   *)
(* pot is stored; a copy that fails leaves a 0 there.                       *)
CLast ==
  PotSize - 1 \in cText =>
    \E c \in Callers : \/ cCall[c] = "count" /\ cWriteInd + cLen[c] = PotSize
                       \/ cCall[c] = "end" /\ cWriteInd = PotSize

CSafe == cFault = C!NoFault /\ cMixed = FALSE /\ cEarly = FALSE

CInv ==
  /\ CStages /\ CTypes /\ CAlone /\ CUntouched
  /\ CSafe => CZeros /\ CLast /\ \A c \in Callers : CCall(c)
  /\ StoresInside

LEMMA CInvInit == C!Init => CInv
<1> SUFFICES ASSUME C!Init PROVE CInv
  OBVIOUS
<1>1. cMixed \in BOOLEAN /\ cEarly \in BOOLEAN
  BY Zenon DEF C!Init
<1>2. CStages /\ CTypes /\ CAlone /\ CUntouched
  BY <1>1, CStagesInit DEF C!Init, CTypes, CAlone, CUntouched, C!Busy
<1>3. CZeros /\ CLast /\ \A c \in Callers : CCall(c)
  BY LabModulesAssumption DEF C!Init, CZeros, CLast, CCall
<1>4. StoresInside
  BY DEF C!Init, StoresInside, C!StoresInside
<1> QED
  BY <1>2, <1>3, <1>4 DEF CInv

(* snprintf stops at the first 0.                                           *)
LEMMA FirstZero ==
  ASSUME NEW Z \in SUBSET Nat, Z # {}
  PROVE  C!Min(Z) \in Z /\ \A n \in Z : C!Min(Z) <= n
<1> DEFINE R == OpToRel(<, Nat)
<1>2. IsWellFoundedOn(R, Nat)
  BY NatLessThanWellFounded, Zenon
<1>3. \A i, j \in Nat : i < j => <<i, j>> \in R
  BY DEF OpToRel
<1> HIDE DEF R
<1>4. PICK x \in Z : \A y \in Z : ~ (<<y, x>> \in R)
  BY <1>2, WFMin
<1>5. \A y \in Z : x <= y
  <2> TAKE y \in Z
  <2>1. x \in Nat /\ y \in Nat
    OBVIOUS
  <2>2. ~ (y < x)
    BY <2>1, <1>3, <1>4
  <2> QED
    BY <2>1, <2>2
<1> QED
  BY <1>5 DEF C!Min

(* The modes of a step of a call: it moves one process, and the histories   *)
(* only become true.                                                        *)
LEMMA CallerMode ==
  ASSUME CInv, NEW c \in Callers, C!Caller(c)
  PROVE  /\ cFault = C!NoFault
         /\ cMixed' \in BOOLEAN /\ cEarly' \in BOOLEAN
         /\ cMixed' = FALSE => cMixed = FALSE
         /\ cEarly' = FALSE => cEarly = FALSE
         /\ \A d \in Callers \ {c} : cCall'[d] = cCall[d]
         /\ CAlone' /\ CUntouched'
         /\ cMixed' = FALSE /\ (C!Busy(c) \/ C!Busy(c)') => \A d \in Callers \ {c} : ~ C!Busy(d)
<1> USE DEF C!Caller, C!Open, C!Release, C!WriteCheck, C!WriteCopy, C!WriteCount, C!WriteEnd, C!WritePrint,
            C!ReadStart, C!ReadFormat, C!ReadEnd, C!Goto
<1>1. cFault = C!NoFault
  OBVIOUS
<1>2. C!Enter(c) \/ (UNCHANGED <<cMixed, cEarly>> /\ (C!Busy(c)' => C!Busy(c)))
  BY DEF C!history, C!Busy, CInv, CStages
<1>3. UNCHANGED <<cModule, cFile>> /\ \A d \in Callers \ {c} : cCall'[d] = cCall[d]
  BY DEF C!load, CInv, CStages
<1>4. ~ C!Enter(c) /\ ~ C!Busy(c) => UNCHANGED <<cReadInd, cWriteInd>>
  BY DEF C!Busy, CInv, CStages, C!indices
<1> HIDE DEF C!Caller, C!Open, C!Release, C!WriteCheck, C!WriteCopy, C!WriteCount, C!WriteEnd, C!WritePrint,
             C!ReadStart, C!ReadFormat, C!ReadEnd, C!Goto
<1>5. cMixed' \in BOOLEAN /\ cEarly' \in BOOLEAN
  BY <1>2, Zenon DEF CInv, CTypes, C!Enter
<1>6. (cMixed' = FALSE => cMixed = FALSE) /\ (cEarly' = FALSE => cEarly = FALSE)
  BY <1>2 DEF CInv, CTypes, C!Enter
<1>7. ASSUME cMixed' = FALSE, C!Busy(c) \/ C!Busy(c)' PROVE \A d \in Callers \ {c} : ~ C!Busy(d)
  <2>1. CASE C!Enter(c)
    BY <1>7, <2>1 DEF C!Enter
  <2>2. CASE C!Busy(c) /\ cMixed = FALSE
    BY <2>2 DEF CInv, CAlone
  <2> QED
    BY <1>2, <1>6, <1>7, <2>1, <2>2
<1>8. CAlone'
  <2> SUFFICES ASSUME cMixed' = FALSE, NEW d \in Callers, NEW e \in Callers, C!Busy(d)', C!Busy(e)'
               PROVE  d = e
    BY DEF CAlone
  <2>1. \A f \in Callers \ {c} : C!Busy(f)' <=> C!Busy(f)
    BY <1>3 DEF C!Busy
  <2> QED
    BY <2>1, <1>6, <1>7 DEF CInv, CAlone
<1>9. CUntouched'
  <2> SUFFICES ASSUME cEarly' = FALSE,
                      cModule' \in {"vmalloc", "mkdir", "create", "symlink", "indices"}
               PROVE  (\A d \in Callers : ~ C!Busy(d)') /\ cReadInd' = 0 /\ cWriteInd' = 0
    BY DEF CUntouched
  <2>1. (\A d \in Callers : ~ C!Busy(d)) /\ cReadInd = 0 /\ cWriteInd = 0
    BY <1>3, <1>6 DEF CInv, CUntouched
  <2>2. ~ C!Enter(c)
    BY <1>3 DEF C!Enter, CInv, CStages
  <2> QED
    BY <1>2, <1>3, <1>4, <2>1, <2>2 DEF C!Busy
<1> QED
  BY <1>1, <1>3, <1>5, <1>6, <1>7, <1>8, <1>9

(* A step of a call that is alone disturbs no other call.                   *)
LEMMA CallerOthers ==
  ASSUME CInv, NEW c \in Callers, C!Caller(c), CSafe', NEW d \in Callers, d # c
  PROVE  CSafe /\ CCall(d)'
<1>1. CSafe /\ cCall'[d] = cCall[d]
  BY CallerMode DEF CSafe
<1>2. CCall(d)
  BY <1>1 DEF CInv
<1>3. CASE ~ C!Busy(d)
  BY <1>1, <1>3 DEF C!Busy, CCall
<1>4. CASE C!Busy(d)
  <2>1. ~ C!Busy(c) /\ ~ C!Busy(c)' /\ cMixed' = FALSE
    BY <1>4, CallerMode DEF CSafe
  <2>2. ~ C!Enter(c)
    BY <1>4, <2>1 DEF C!Enter
  <2>3. UNCHANGED <<cReadInd, cWriteInd, cText, cLen>>
    BY <2>1, <2>2 DEF C!Caller, C!Open, C!Release, C!WriteCheck, C!WriteCopy, C!WriteCount,
           C!WriteEnd, C!WritePrint, C!ReadStart, C!ReadFormat, C!ReadEnd, C!Goto, C!Busy, C!indices
  <2> QED
    BY <1>1, <1>2, <2>3 DEF CCall
<1> QED
  BY <1>3, <1>4

LEMMA COpen ==
  ASSUME CInv, NEW c \in Callers, C!Open(c) \/ C!Release(c)
  PROVE  /\ UNCHANGED <<cReadInd, cWriteInd, cLen>>
         /\ CSafe /\ CSafe' => CZeros' /\ CLast' /\ CCall(c)'
         /\ StoresInside'
  BY DEF CInv, CStages, CSafe, CZeros, CLast, CCall, StoresInside, C!StoresInside, C!Open, C!Release,
         C!Goto, C!indices, C!history

LEMMA CWriteCheck ==
  ASSUME CInv, NEW c \in Callers, NEW n \in 0 .. PotSize + 1, C!WriteCheck(c, n)
  PROVE  /\ UNCHANGED <<cReadInd, cWriteInd>> /\ cLen' \in [Callers -> Nat]
         /\ CSafe /\ CSafe' => CZeros' /\ CLast' /\ CCall(c)'
         /\ StoresInside'
<1> USE LabModulesAssumption
<1>1. cLen' = [cLen EXCEPT ![c] = n] /\ n \in Nat /\ UNCHANGED <<cReadInd, cWriteInd, cText, cFault>>
  BY DEF C!WriteCheck, C!indices
<1>2. cLen' \in [Callers -> Nat] /\ cLen'[c] = n
  BY <1>1 DEF CInv, CTypes
<1>3. cCall' = [cCall EXCEPT ![c] = IF C!Fits(n) THEN "copy" ELSE "open"] /\ cCall[c] = "open"
      /\ cFault = C!NoFault
  BY DEF C!WriteCheck, C!Goto
<1>4. ASSUME CSafe PROVE CZeros' /\ CLast' /\ CCall(c)'
  <2>1. CZeros /\ CLast
    BY <1>4 DEF CInv
  <2>2. CZeros' /\ CLast'
    <3>1. \A d \in Callers : cCall[d] \in {"count", "end"} => cCall'[d] = cCall[d] /\ cLen'[d] = cLen[d]
      BY <1>1, <1>3 DEF CInv, CStages, CTypes
    <3> QED
      BY <2>1, <3>1, <1>1, <1>3 DEF CZeros, CLast, CInv, CStages
  <2>3. CCall(c)'
    BY <2>1, <1>1, <1>2, <1>3 DEF CZeros, CCall, CInv, CStages, CTypes, C!Fits
  <2> QED
    BY <2>2, <2>3
<1>5. StoresInside'
  BY <1>1, <1>3 DEF StoresInside, C!StoresInside
<1> QED
  BY <1>1, <1>2, <1>4, <1>5

LEMMA CWriteCopy ==
  ASSUME CInv, NEW c \in Callers, C!WriteCopy(c), CSafe => \A d \in Callers \ {c} : ~ C!Busy(d)
  PROVE  /\ UNCHANGED <<cReadInd, cWriteInd, cLen, cMixed, cEarly>>
         /\ CSafe /\ CSafe' => CZeros' /\ CLast' /\ CCall(c)'
         /\ CSafe => StoresInside'
<1> USE LabModulesAssumption
<1>1. /\ UNCHANGED <<cReadInd, cWriteInd, cLen, cMixed, cEarly>> /\ cFault = C!NoFault
      /\ cCall[c] = "copy" /\ cLen[c] \in Nat /\ cReadInd \in Nat /\ cWriteInd \in Nat
  BY DEF C!WriteCopy, C!Goto, C!history, CInv, CTypes
<1> DEFINE ind == cWriteInd .. cWriteInd + cLen[c] - 1
           end == cWriteInd + cLen[c] - 1
<1>2. /\ \/ /\ cCall' = [cCall EXCEPT ![c] = "count"]
            /\ cText' \subseteq (cText \ ind) \cup ind
         \/ /\ cCall' = [cCall EXCEPT ![c] = "open"]
            /\ cText' \subseteq (cText \ ind) \cup (ind \ {end})
      /\ \/ ind \subseteq C!Pot /\ cFault' = cFault
         \/ ~ (ind \subseteq C!Pot) /\ cFault' = [op |-> "copy", ind |-> cWriteInd, len |-> cLen[c]]
  <2>1. ASSUME NEW z, C!Copy(c, z)
        PROVE  /\ cText' \subseteq (cText \ ind) \cup (ind \ z)
               /\ \/ ind \subseteq C!Pot /\ cFault' = cFault
                  \/ /\ ~ (ind \subseteq C!Pot)
                     /\ cFault' = [op |-> "copy", ind |-> cWriteInd, len |-> cLen[c]]
    BY <2>1 DEF C!Copy, C!Fault
  <2>2. \/ cCall' = [cCall EXCEPT ![c] = "count"] /\ C!Copy(c, {})
        \/ cCall' = [cCall EXCEPT ![c] = "open"] /\ C!Copy(c, {end})
    BY DEF C!WriteCopy, C!Goto
  <2> HIDE DEF ind, end
  <2> QED
    BY <2>1, <2>2
<1>3. ASSUME CSafe PROVE (CSafe' => CZeros' /\ CLast' /\ CCall(c)') /\ StoresInside'
  <2>1. CZeros /\ CLast /\ CCall(c)
    BY <1>3 DEF CInv
  <2>2. cWriteInd <= PotSize /\ cWriteInd + cLen[c] <= PotSize + 1
    BY <2>1, <1>1 DEF CZeros, CCall
  <2>3. \A d \in Callers : cCall[d] \notin {"count", "end"}
    BY <1>1, <1>3 DEF C!Busy
  <2>4. cReadInd - 1 \notin ind /\ cWriteInd - 1 \notin ind /\ PotSize - 1 \notin cText
    BY <2>1, <2>3, <1>1 DEF CZeros, CLast
  <2>5. CASE ~ (ind \subseteq C!Pot) /\ cFault' = [op |-> "copy", ind |-> cWriteInd, len |-> cLen[c]]
    <3>1. cWriteInd + cLen[c] = PotSize + 1
      BY <2>2, <2>5, <1>1 DEF C!Pot
    <3> QED
      BY <2>5, <3>1 DEF CSafe, C!NoFault, StoresInside, C!StoresInside
  <2>6. CASE ind \subseteq C!Pot /\ cFault' = cFault
    <3>1. cWriteInd + cLen[c] <= PotSize
      BY <2>2, <2>6, <1>1 DEF C!Pot
    <3>2. CASE /\ cCall' = [cCall EXCEPT ![c] = "count"]
               /\ cText' \subseteq (cText \ ind) \cup ind
      <4>1. cCall'[c] = "count"
        BY <3>2 DEF CInv, CStages
      <4>2. CZeros'
        BY <2>1, <2>4, <3>2, <4>1, <1>1 DEF CZeros
      <4>3. PotSize - 1 \in ind => cWriteInd + cLen[c] = PotSize
        BY <3>1, <1>1
      <4>4. CLast' /\ CCall(c)'
        BY <2>4, <3>1, <3>2, <4>1, <4>3, <1>1 DEF CLast, CCall
      <4> QED
        BY <4>2, <4>4, <2>6, <1>1 DEF StoresInside, C!StoresInside
    <3>3. CASE /\ cCall' = [cCall EXCEPT ![c] = "open"]
               /\ cText' \subseteq (cText \ ind) \cup (ind \ {end})
      <4>1. cCall'[c] = "open"
        BY <3>3 DEF CInv, CStages
      <4>2. PotSize - 1 \notin ind \ {end}
        <5>1. ASSUME PotSize - 1 \in ind PROVE PotSize - 1 = end
          <6>1. PotSize - 1 <= cWriteInd + cLen[c] - 1
            BY <5>1, <1>1
          <6> QED
            BY <3>1, <6>1, <1>1
        <5> QED
          BY <5>1
      <4>3. cReadInd - 1 \in cText' => cReadInd - 1 \in cText
        BY <2>4, <3>3
      <4>4. cWriteInd - 1 \in cText' => cWriteInd - 1 \in cText
        BY <2>4, <3>3
      <4>5. PotSize - 1 \notin cText'
        BY <2>4, <3>3, <4>2
      <4> HIDE DEF ind, end
      <4>6. CZeros' /\ CLast' /\ CCall(c)'
        BY <2>1, <2>3, <4>1, <4>3, <4>4, <4>5, <1>1 DEF CZeros, CLast, CCall
      <4> QED
        BY <4>6, <2>6, <1>1 DEF StoresInside, C!StoresInside
    <3> QED
      BY <1>2, <3>2, <3>3
  <2> QED
    BY <1>2, <2>5, <2>6
<1> QED
  BY <1>1, <1>3

LEMMA CWriteCount ==
  ASSUME CInv, NEW c \in Callers, C!WriteCount(c), CSafe => \A d \in Callers \ {c} : ~ C!Busy(d)
  PROVE  /\ cReadInd' = cReadInd /\ cWriteInd' \in Nat /\ cLen' = cLen
         /\ CSafe /\ CSafe' => CZeros' /\ CLast' /\ CCall(c)'
         /\ StoresInside'
<1>1. /\ cCall[c] = "count" /\ cCall' = [cCall EXCEPT ![c] = "end"]
      /\ cWriteInd' = cWriteInd + cLen[c]
      /\ UNCHANGED <<cText, cReadInd, cLen, cFault>> /\ cFault = C!NoFault
  BY DEF C!WriteCount, C!Goto
<1>2. cLen[c] \in Nat /\ cWriteInd \in Nat /\ cReadInd \in Nat /\ cCall'[c] = "end"
  BY <1>1 DEF CInv, CTypes, CStages
<1>3. ASSUME CSafe PROVE CZeros' /\ CLast' /\ CCall(c)'
  <2>1. CZeros /\ CLast /\ CCall(c)
    BY <1>3 DEF CInv
  <2>2. CZeros' /\ CCall(c)'
    BY <2>1, <1>1, <1>2, LabModulesAssumption DEF CZeros, CCall
  <2>3. \A d \in Callers \ {c} : cCall[d] \notin {"count", "end"}
    BY <1>3 DEF C!Busy
  <2>4. CLast'
    BY <2>1, <2>3, <1>1, <1>2 DEF CLast
  <2> QED
    BY <2>2, <2>4
<1>4. StoresInside'
  BY <1>1 DEF StoresInside, C!StoresInside
<1> QED
  BY <1>1, <1>2, <1>3, <1>4

LEMMA CWriteEnd ==
  ASSUME CInv, NEW c \in Callers, C!WriteEnd(c), CSafe' => CSafe,
         CSafe => \A d \in Callers \ {c} : ~ C!Busy(d)
  PROVE  /\ UNCHANGED <<cReadInd, cWriteInd, cLen>>
         /\ CSafe /\ CSafe' => CZeros' /\ CLast' /\ CCall(c)'
         /\ CSafe => StoresInside'
<1>1. /\ cCall[c] = "end" /\ cCall' = [cCall EXCEPT ![c] = "print"]
      /\ cText' = cText \ {cWriteInd - 1}
      /\ IF cWriteInd - 1 \in C!Pot THEN cFault' = cFault
         ELSE cFault' = [op |-> "end", ind |-> cWriteInd, len |-> cLen[c]]
      /\ UNCHANGED <<cReadInd, cWriteInd, cLen>> /\ cFault = C!NoFault
  BY DEF C!WriteEnd, C!Goto, C!Fault
<1>2. cLen[c] \in Nat /\ cWriteInd \in Nat /\ cReadInd \in Nat /\ cCall'[c] = "print"
  BY <1>1 DEF CInv, CTypes, CStages
<1>3. ASSUME CSafe PROVE CZeros' /\ CLast' /\ CCall(c)' /\ StoresInside'
  <2>1. CZeros /\ CLast /\ CCall(c)
    BY <1>3 DEF CInv
  <2>0. \A d \in Callers \ {c} : cCall[d] \notin {"count", "end"}
    BY <1>3 DEF C!Busy
  <2>2. CZeros' /\ CLast' /\ CCall(c)'
    BY <2>0, <2>1, <1>1, <1>2 DEF CZeros, CLast, CCall
  <2>3. cWriteInd - 1 \notin C!Pot => cWriteInd = 0 /\ cLen[c] = 0
    BY <2>1, <1>1, <1>2, LabModulesAssumption DEF CZeros, CCall, C!Pot
  <2>4. StoresInside'
    BY <2>3, <1>1 DEF StoresInside, C!StoresInside
  <2> QED
    BY <2>2, <2>4
<1> QED
  BY <1>1, <1>3

LEMMA CWritePrint ==
  ASSUME CInv, NEW c \in Callers, C!WritePrint(c), CSafe => \A d \in Callers \ {c} : ~ C!Busy(d)
  PROVE  /\ UNCHANGED <<cReadInd, cWriteInd, cLen>>
         /\ CSafe /\ CSafe' => CZeros' /\ CLast' /\ CCall(c)'
         /\ CSafe => StoresInside'
<1> DEFINE start == cWriteInd - cLen[c]
<1>1. /\ cCall[c] = "print" /\ cCall' = [cCall EXCEPT ![c] = "open"]
      /\ UNCHANGED <<cText, cReadInd, cWriteInd, cLen>> /\ cFault = C!NoFault
      /\ IF C!Zeros(start) = {} THEN cFault' = [op |-> "print", ind |-> cWriteInd, len |-> cLen[c]]
         ELSE cFault' = cFault
  BY DEF C!WritePrint, C!Goto, C!Fault, C!indices
<1>2. cLen[c] \in Nat /\ cWriteInd \in Nat /\ cReadInd \in Nat /\ cCall'[c] = "open"
  BY <1>1 DEF CInv, CTypes, CStages
<1>3. ASSUME CSafe PROVE CZeros' /\ CLast' /\ CCall(c)' /\ StoresInside'
  <2>1. CZeros /\ CLast /\ CCall(c)
    BY <1>3 DEF CInv
  <2>2. \A d \in Callers : cCall[d] \notin {"count", "end"}
    BY <1>1, <1>3 DEF C!Busy
  <2>3. CZeros' /\ CLast' /\ CCall(c)'
    BY <2>1, <2>2, <1>1, <1>2 DEF CZeros, CLast, CCall
  <2>4. start \in Nat /\ cWriteInd <= PotSize /\ PotSize - 1 \notin cText
    BY <2>1, <2>2, <1>1, <1>2 DEF CZeros, CLast, CCall
  <2>5. cLen[c] > 0 => cWriteInd - 1 \in C!Zeros(start)
    BY <2>1, <2>2, <2>4, <1>2, LabModulesAssumption DEF CZeros, C!Zeros, C!Pot
  <2>6. cLen[c] = 0 /\ cWriteInd < PotSize => PotSize - 1 \in C!Zeros(start)
    BY <2>4, <1>2, LabModulesAssumption DEF C!Zeros, C!Pot
  <2>7. C!Zeros(start) = {} => cWriteInd = PotSize /\ cLen[c] = 0
    BY <2>4, <2>5, <2>6, <1>2, LabModulesAssumption
  <2>8. StoresInside'
    BY <2>7, <1>1 DEF StoresInside, C!StoresInside
  <2> QED
    BY <2>3, <2>8
<1> QED
  BY <1>1, <1>3

LEMMA CReadStart ==
  ASSUME CInv, NEW c \in Callers, C!ReadStart(c)
  PROVE  /\ cReadInd' \in Nat /\ UNCHANGED <<cWriteInd, cLen>>
         /\ CSafe /\ CSafe' => CZeros' /\ CLast' /\ CCall(c)'
         /\ StoresInside'
<1>1. /\ cCall[c] = "open" /\ UNCHANGED <<cText, cWriteInd, cLen, cFault>> /\ cFault = C!NoFault
      /\ \/ cCall' = [cCall EXCEPT ![c] = "open"] /\ UNCHANGED cReadInd
         \/ /\ cCall' = [cCall EXCEPT ![c] = "format"] /\ cWriteInd # 0
            /\ cReadInd' = IF cReadInd >= cWriteInd THEN 0 ELSE cReadInd
  BY DEF C!ReadStart, C!Goto
<1>2. cWriteInd \in Nat /\ cReadInd \in Nat /\ cReadInd' \in Nat
  BY <1>1 DEF CInv, CTypes
<1>3. ASSUME CSafe PROVE CZeros' /\ CLast' /\ CCall(c)'
  <2>1. CZeros /\ CLast
    BY <1>3 DEF CInv
  <2>2. CZeros' /\ CLast'
    BY <2>1, <1>1, <1>2, LabModulesAssumption DEF CZeros, CLast, CInv, CStages
  <2>3. CCall(c)'
    BY <1>1, <1>2 DEF CCall, CInv, CStages
  <2> QED
    BY <2>2, <2>3
<1>4. StoresInside'
  BY <1>1 DEF StoresInside, C!StoresInside
<1> QED
  BY <1>1, <1>2, <1>3, <1>4

LEMMA CReadFormat ==
  ASSUME CInv, NEW c \in Callers, C!ReadFormat(c), CSafe => \A d \in Callers \ {c} : ~ C!Busy(d)
  PROVE  /\ cLen' \in [Callers -> Nat] /\ UNCHANGED <<cReadInd, cWriteInd>>
         /\ CSafe /\ CSafe' => CZeros' /\ CLast' /\ CCall(c)'
         /\ CSafe => StoresInside'
<1> DEFINE Z == C!Zeros(cReadInd)
           zero == C!Min(Z)
<1>1. /\ cCall[c] = "format" /\ cCall' = [cCall EXCEPT ![c] = "copied"]
      /\ UNCHANGED <<cText, cReadInd, cWriteInd>> /\ cFault = C!NoFault
      /\ Z = {} => cLen' = cLen
      /\ Z # {} => cLen' = [cLen EXCEPT ![c] = zero - cReadInd + 1] /\ cFault' = cFault
  BY DEF C!ReadFormat, C!Goto, C!Length, C!indices
<1>2. cWriteInd \in Nat /\ cReadInd \in Nat /\ cCall'[c] = "copied" /\ cLen \in [Callers -> Nat]
  BY <1>1 DEF CInv, CTypes, CStages
<1>3. Z # {} => /\ zero \in Nat /\ zero >= cReadInd /\ zero \notin cText
                      /\ \A n \in Z : zero <= n
  <2>1. Z \in SUBSET Nat /\ \A n \in Z : n >= cReadInd /\ n \notin cText
    BY <1>2, LabModulesAssumption DEF C!Zeros, C!Pot
  <2> HIDE DEF Z
  <2>2. Z # {} => zero \in Z /\ \A n \in Z : zero <= n
    BY <2>1, FirstZero
  <2> QED
    BY <2>1, <2>2
<1> HIDE DEF zero
<1>4. cLen' \in [Callers -> Nat]
  BY <1>1, <1>2, <1>3
<1>5. ASSUME CSafe PROVE Z # {} /\ CZeros' /\ CLast' /\ CCall(c)' /\ StoresInside'
  <2>1. CZeros /\ CLast /\ CCall(c)
    BY <1>5 DEF CInv
  <2>2. \A d \in Callers : cCall[d] \notin {"count", "end"}
    BY <1>1, <1>5 DEF C!Busy
  <2>3. cReadInd <= cWriteInd - 1 /\ cWriteInd - 1 \in Nat /\ cWriteInd - 1 \notin cText
        /\ cWriteInd - 1 < PotSize
    BY <2>1, <2>2, <1>1, <1>2, LabModulesAssumption DEF CZeros, CCall
  <2>4. cWriteInd - 1 \in Z
    BY <2>3, <1>2, LabModulesAssumption DEF C!Zeros, C!Pot
  <2>5. zero <= cWriteInd - 1 /\ cLen'[c] = zero - cReadInd + 1
    BY <2>4, <1>1, <1>2, <1>3
  <2>6. CCall(c)'
    BY <2>4, <2>5, <1>1, <1>2, <1>3 DEF CCall
  <2>7. CZeros' /\ CLast'
    BY <2>1, <2>2, <2>3, <1>1 DEF CZeros, CLast
  <2>8. StoresInside'
    BY <2>4, <1>1 DEF StoresInside, C!StoresInside
  <2> QED
    BY <2>4, <2>6, <2>7, <2>8
<1> QED
  BY <1>1, <1>4, <1>5

LEMMA CReadEnd ==
  ASSUME CInv, NEW c \in Callers, C!ReadEnd(c), CSafe => \A d \in Callers \ {c} : ~ C!Busy(d)
  PROVE  /\ cReadInd' \in Nat /\ UNCHANGED <<cLen, cWriteInd>>
         /\ CSafe /\ CSafe' => CZeros' /\ CLast' /\ CCall(c)'
         /\ StoresInside'
<1>1. /\ cCall[c] = "copied" /\ cCall' = [cCall EXCEPT ![c] = "open"]
      /\ UNCHANGED <<cText, cWriteInd, cLen, cFault>> /\ cFault = C!NoFault
      /\ cReadInd' \in {cReadInd, cReadInd + cLen[c]}
  BY DEF C!ReadEnd, C!Goto
<1>2. cLen[c] \in Nat /\ cWriteInd \in Nat /\ cReadInd \in Nat /\ cCall'[c] = "open"
  BY <1>1 DEF CInv, CTypes, CStages
<1>3. ASSUME CSafe PROVE CZeros' /\ CLast' /\ CCall(c)'
  <2>1. CZeros /\ CLast /\ CCall(c)
    BY <1>3 DEF CInv
  <2>2. \A d \in Callers : cCall[d] \notin {"count", "end"}
    BY <1>1, <1>3 DEF C!Busy
  <2> QED
    BY <2>1, <2>2, <1>1, <1>2, LabModulesAssumption DEF CZeros, CLast, CCall
<1>4. StoresInside'
  BY <1>1 DEF StoresInside, C!StoresInside
<1> QED
  BY <1>1, <1>2, <1>3, <1>4

LEMMA CInvCaller == ASSUME CInv, NEW c \in Callers, C!Caller(c) PROVE CInv'
<1>1. CStages' /\ CAlone' /\ CUntouched'
  BY CStagesCaller, CallerMode DEF CInv
<1>2. (CSafe' => CSafe) /\ (CSafe' => \A d \in Callers \ {c} : CCall(d)')
  BY CallerMode, CallerOthers DEF CSafe
<1>3. CSafe /\ (C!Busy(c) /\ cMixed' = cMixed) => \A d \in Callers \ {c} : ~ C!Busy(d)
  BY CallerMode DEF CSafe
<1>4. cFault = C!NoFault /\ (CSafe \/ StoresInside' \/ cMixed' = TRUE \/ cEarly' = TRUE)
  BY CallerMode DEF CSafe, CInv, CTypes
<1>5. /\ cReadInd' \in Nat /\ cWriteInd' \in Nat /\ cLen' \in [Callers -> Nat]
      /\ CSafe /\ CSafe' => CZeros' /\ CLast' /\ CCall(c)'
      /\ CSafe => StoresInside'
  <2> USE DEF CInv, CTypes
  <2>1. CASE C!Open(c) \/ C!Release(c)
    BY <2>1, COpen
  <2>2. CASE \E n \in 0 .. PotSize + 1 : C!WriteCheck(c, n)
    BY <2>2, CWriteCheck
  <2>3. CASE C!WriteCopy(c)
    <3>1. C!Busy(c) /\ cMixed' = cMixed
      BY <2>3 DEF C!WriteCopy, C!Goto, C!Busy, C!history
    <3> QED
      BY <2>3, <3>1, <1>2, <1>3, CWriteCopy
  <2>4. CASE C!WriteCount(c)
    <3>1. C!Busy(c) /\ cMixed' = cMixed
      BY <2>4 DEF C!WriteCount, C!Goto, C!Busy, C!history
    <3> QED
      BY <2>4, <3>1, <1>2, <1>3, CWriteCount
  <2>5. CASE C!WriteEnd(c)
    <3>1. C!Busy(c) /\ cMixed' = cMixed
      BY <2>5 DEF C!WriteEnd, C!Goto, C!Busy, C!history
    <3> QED
      BY <2>5, <3>1, <1>2, <1>3, CWriteEnd
  <2>6. CASE C!ReadStart(c)
    BY <2>6, CReadStart
  <2>7. CASE C!ReadFormat(c)
    <3>1. C!Busy(c) /\ cMixed' = cMixed
      BY <2>7 DEF C!ReadFormat, C!Goto, C!Busy, C!history
    <3> QED
      BY <2>7, <3>1, <1>2, <1>3, CReadFormat
  <2>8. CASE C!ReadEnd(c)
    <3>1. C!Busy(c) /\ cMixed' = cMixed
      BY <2>8 DEF C!ReadEnd, C!Goto, C!Busy, C!history
    <3> QED
      BY <2>8, <3>1, <1>2, <1>3, CReadEnd
  <2>9. CASE C!WritePrint(c)
    <3>1. C!Busy(c) /\ cMixed' = cMixed
      BY <2>9 DEF C!WritePrint, C!Goto, C!Busy, C!history
    <3> QED
      BY <2>9, <3>1, <1>2, <1>3, CWritePrint
  <2> QED
    BY <2>1, <2>2, <2>3, <2>4, <2>5, <2>6, <2>7, <2>8, <2>9 DEF C!Caller
<1>6. StoresInside'
  BY <1>4, <1>5 DEF StoresInside, C!StoresInside
<1>7. CTypes'
  BY <1>5, CallerMode DEF CTypes
<1> QED
  BY <1>1, <1>2, <1>5, <1>6, <1>7 DEF CInv

LEMMA CInvModule == ASSUME CInv, C!Module PROVE CInv'
<1> USE DEF C!Module, C!Vmalloc, C!Mkdir, C!Create, C!Symlink, C!Indices, C!Rmmod, C!RemoveFile,
            C!Vfree, C!Step, C!rest, C!indices, C!history
<1>1. UNCHANGED <<cText, cCall, cLen, cMixed, cEarly, cFault>> /\ cFault = C!NoFault
  OBVIOUS
<1>2. \/ UNCHANGED <<cReadInd, cWriteInd>>
      \/ cModule = "indices" /\ cModule' = "loaded" /\ cReadInd' = 0 /\ cWriteInd' = 0
  OBVIOUS
<1>3. cModule' \in {"vmalloc", "mkdir", "create", "symlink", "indices"} =>
        cModule \in {"vmalloc", "mkdir", "create", "symlink", "indices"}
  OBVIOUS
<1> HIDE DEF C!Module, C!Vmalloc, C!Mkdir, C!Create, C!Symlink, C!Indices, C!Rmmod, C!RemoveFile,
             C!Vfree, C!Step, C!rest, C!indices, C!history
<1>4. CStages'
  BY CStagesModule DEF CInv
<1>5. CAlone' /\ CUntouched'
  BY <1>1, <1>2, <1>3 DEF CInv, CAlone, CUntouched, C!Busy
<1>6. CTypes' /\ StoresInside'
  BY <1>1, <1>2 DEF CInv, CTypes, StoresInside, C!StoresInside
<1>7. CSafe' => UNCHANGED <<cReadInd, cWriteInd>>
  BY <1>1, <1>2 DEF CInv, CUntouched, CSafe
<1>8. CSafe' => CZeros' /\ CLast' /\ \A c \in Callers : CCall(c)'
  BY <1>1, <1>7 DEF CInv, CSafe, CZeros, CLast, CCall
<1> QED
  BY <1>4, <1>5, <1>6, <1>8 DEF CInv

LEMMA CInvNext == ASSUME CInv, [LabNext]_allVars PROVE CInv'
<1>1. ASSUME UNCHANGED cVars PROVE CInv'
  BY <1>1 DEF cVars, CInv, CStages, CTypes, CAlone, CUntouched, CSafe, CZeros, CLast, CCall, C!Busy,
         StoresInside, C!StoresInside
<1> QED
  BY <1>1, CInvModule, CInvCaller DEF LabNext, allVars, C!Next, cVars

(* fortune.c, calls that do not overlap and come after md_init: a read      *)
(* starts after the end of a string that was written, whatever the lengths  *)
(* and whichever copies fail half way.                                      *)
THEOREM ReadsStartAtCookies == LabSpec => []CookiesInOrder
<1>1. LabInit => CInv
  BY CInvInit DEF LabInit
<1>2. CInv /\ [LabNext]_allVars => CInv'
  BY CInvNext
<1>3. CInv => CookiesInOrder
  <2> SUFFICES ASSUME CInv, CSafe, cReadInd # 0
               PROVE  cReadInd - 1 \in C!Pot /\ cReadInd - 1 \notin cText /\ cReadInd <= cWriteInd
    BY DEF CInv, CTypes, CSafe, CookiesInOrder, C!CookiesInOrder
  <2> QED
    BY LabModulesAssumption DEF CInv, CTypes, CZeros, C!Pot
<1> QED
  BY <1>1, <1>2, <1>3, PTL DEF LabSpec

(* fortune.c: such a call leaves the pot, if it does, by the byte the       *)
(* length test allows too much, by the byte before an empty pot, or with    *)
(* the string it prints behind a full one.                                  *)
THEOREM StoresStayInside == LabSpec => []StoresInside
<1>1. LabInit => CInv
  BY CInvInit DEF LabInit
<1>2. CInv /\ [LabNext]_allVars => CInv'
  BY CInvNext
<1>3. CInv => StoresInside
  BY DEF CInv
<1> QED
  BY <1>1, <1>2, <1>3, PTL DEF LabSpec
=============================================================================
