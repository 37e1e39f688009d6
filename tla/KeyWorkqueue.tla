---------------------------- MODULE KeyWorkqueue -----------------------------
(***************************************************************************)
(* lab_tasklet/my_workqueue.c: an interrupt handler on the shared keyboard *)
(* line stores the scancode in two work items and queues both; each item   *)
(* puts code and name where /proc/irq_handler_workqueue shows them, the    *)
(* second after a sleep.                                                   *)
(*                                                                         *)
(* Workqueues are the kernel's (external): an item that is pending is not  *)
(* queued twice, its pending bit is cleared before its function is called, *)
(* and one item never runs twice at a time.  The queue is per CPU (no      *)
(* WQ_UNBOUND), so the two items do run at the same time when interrupts   *)
(* are served by different CPUs.                                           *)
(***************************************************************************)
EXTENDS Integers

CONSTANT Codes

VARIABLES
  irq,
  module,     \* where my_init or my_exit is
  handler,    \* irq_handler is registered
  stage,      \* irq_handler: "none", then the item to be queued next
  mem,        \* the two items: "null", "alloc" or "freed"
  code,       \* work1->code and work2->code
  pending,    \* the items' pending bits
  run,        \* each item's function: "none" or what it does next
  press,      \* each function's local press_code
  last_code, last_key_name

Works == {1, 2}

Init ==
  /\ module = "alloc"
  /\ handler = FALSE
  /\ stage = "none"
  /\ mem = "null"
  /\ code = [w \in Works |-> 0]
  /\ pending = [w \in Works |-> FALSE]
  /\ run = [w \in Works |-> "none"]
  /\ press = [w \in Works |-> -1]
  /\ last_code = -1
  /\ last_key_name = -1

press_code(c) == c % 128
is_release(c) == c >= 128
Handled(c) == is_release(c) /\ press_code(c) < 84 /\ press_code(c) # 28

-----------------------------------------------------------------------------
(* The handler returns; the scancode is gone with the last one.             *)
Return == irq' = IF irq.todo = {"workqueue"} THEN [todo |-> {}, code |-> 0]
                 ELSE [irq EXCEPT !.todo = @ \ {"workqueue"}]

(* irq_handler stores the code in both items ...                            *)
IrqStore ==
  /\ handler /\ "workqueue" \in irq.todo /\ stage = "none"
  /\ IF Handled(irq.code) THEN /\ code' = [w \in Works |-> irq.code]
                               /\ stage' = "queue1"
                               /\ UNCHANGED irq
                          ELSE /\ Return
                               /\ UNCHANGED <<code, stage>>
  /\ UNCHANGED <<module, handler, mem, pending, run, press, last_code, last_key_name>>

(* ... and queues one after the other.                                      *)
DroppedIrqQueue ==
  /\ \/ stage = "queue1" /\ stage' = "queue2" /\ UNCHANGED irq
        /\ pending' = [pending EXCEPT ![1] = (@ \/ run[1] = "none")]
     \/ stage = "queue2" /\ stage' = "none" /\ Return
        /\ pending' = [pending EXCEPT ![2] = (@ \/ run[2] = "none")]
  /\ UNCHANGED <<module, handler, mem, code, run, press, last_code, last_key_name>>
IrqQueue ==
  /\ \/ stage = "queue1" /\ stage' = "queue2" /\ UNCHANGED irq
        /\ pending' = [pending EXCEPT ![1] = TRUE]
     \/ stage = "queue2" /\ stage' = "none" /\ Return
        /\ pending' = [pending EXCEPT ![2] = TRUE]
  /\ UNCHANGED <<module, handler, mem, code, run, press, last_code, last_key_name>>

(* A worker takes the item and calls its function, which first reads        *)
(* iw->code for press_code.                                                 *)
WorkStart(w) ==
  /\ pending[w] /\ run[w] = "none"
  /\ pending' = [pending EXCEPT ![w] = FALSE]
  /\ run' = [run EXCEPT ![w] = "code"]
  /\ press' = [press EXCEPT ![w] = press_code(code[w])]
  /\ UNCHANGED <<irq, module, handler, stage, mem, code, last_code, last_key_name>>

(* last_code = iw->code: a second read, in work2_fn after msleep.           *)
WorkCode(w) ==
  /\ run[w] = "code"
  /\ last_code' = code[w]
  /\ run' = [run EXCEPT ![w] = "name"]
  /\ UNCHANGED <<irq, module, handler, stage, mem, code, pending, press, last_key_name>>

WorkName(w) ==
  /\ run[w] = "name"
  /\ last_key_name' = press[w]
  /\ run' = [run EXCEPT ![w] = "none"]
  /\ press' = [press EXCEPT ![w] = -1]
  /\ UNCHANGED <<irq, module, handler, stage, mem, code, pending, last_code>>

-----------------------------------------------------------------------------
(* my_init and my_exit.                                                     *)

Goto(here, there) == module = here /\ module' = there
rest == <<stage, code, pending, run, press, last_code, last_key_name>>

(* alloc_workqueue and the two kmallocs; what exists is freed on failure.   *)
Alloc ==
  /\ \/ Goto("alloc", "request_irq") /\ mem' = "alloc"
     \/ Goto("alloc", "absent") /\ mem' \in {"null", "freed"}
  /\ UNCHANGED <<irq, handler, rest>>

RequestIrq ==
  /\ \/ Goto("request_irq", "proc_create") /\ handler' = TRUE /\ mem' = mem
     \/ Goto("request_irq", "absent") /\ handler' = handler /\ mem' = "freed"
  /\ UNCHANGED <<irq, rest>>

ProcCreate ==
  /\ Goto("proc_create", "loaded") \/ Goto("proc_create", "undo_irq")
  /\ UNCHANGED <<irq, handler, mem, rest>>

(* rmmod; remove_proc_entry, synchronize_irq.                               *)
ExitSync ==
  /\ Goto("loaded", "free_irq") /\ "workqueue" \notin irq.todo
  /\ UNCHANGED <<irq, handler, mem, rest>>

(* free_irq, of my_exit and of the error path of my_init.                   *)
FreeIrq ==
  /\ Goto("free_irq", "flush") \/ Goto("undo_irq", "undo_kfree")
  /\ "workqueue" \notin irq.todo
  /\ handler' = FALSE
  /\ UNCHANGED <<irq, mem, rest>>

(* flush_workqueue and destroy_workqueue wait until nothing is queued or    *)
(* running.                                                                 *)
FaultyFlush ==
  /\ Goto("flush", "kfree")
  /\ UNCHANGED <<irq, handler, mem, rest>>
Flush ==
  /\ \A w \in Works : ~ pending[w] /\ run[w] = "none"
  /\ Goto("flush", "kfree")
  /\ UNCHANGED <<irq, handler, mem, rest>>

(* kfree of both items.  The error path of my_init frees them while the     *)
(* queue may still hold them, and then destroys (drains) the queue.         *)
Kfree ==
  /\ Goto("kfree", "absent") \/ Goto("undo_kfree", "undo_destroy")
  /\ mem' = "freed"
  /\ UNCHANGED <<irq, handler, rest>>

UndoDestroy ==
  /\ Goto("undo_destroy", "absent")
  /\ \A w \in Works : ~ pending[w] /\ run[w] = "none"
  /\ UNCHANGED <<irq, handler, mem, rest>>

Module == Alloc \/ RequestIrq \/ ProcCreate \/ FreeIrq \/ Flush \/ Kfree \/ UndoDestroy
Work(w) == WorkStart(w) \/ WorkCode(w) \/ WorkName(w)
Irq == IrqStore \/ IrqQueue

-----------------------------------------------------------------------------
TypeOK ==
  /\ module \in {"alloc", "request_irq", "proc_create", "loaded", "free_irq", "flush", "kfree",
                 "undo_irq", "undo_kfree", "undo_destroy", "absent"}
  /\ handler \in BOOLEAN
  /\ stage \in {"none", "queue1", "queue2"}
  /\ mem \in {"null", "alloc", "freed"}
  /\ code \in [Works -> Codes \cup {0}]
  /\ pending \in [Works -> BOOLEAN]
  /\ run \in [Works -> {"none", "code", "name"}]
  /\ press \in [Works -> 0 .. 83 \cup {-1}]
  /\ last_code \in Codes \cup {-1}
  /\ last_key_name \in 0 .. 83 \cup {-1}

(* Nothing of this module is under way.                                     *)
Quiet == stage = "none" /\ \A w \in Works : ~ pending[w] /\ run[w] = "none"
=============================================================================
