----------------------------- MODULE KeyTasklet ------------------------------
(***************************************************************************)
(* lab_tasklet/tasklet.c: an interrupt handler on the shared keyboard line *)
(* stores the scancode in a tasklet and schedules it; the tasklet puts the *)
(* code and the key's name where /proc/key_buf shows them.                 *)
(*                                                                         *)
(* Tasklets and interrupt lines are the kernel's (external): a scheduled   *)
(* tasklet is not scheduled twice; its SCHED bit is cleared before its     *)
(* function is called with the data of that moment; tasklet_kill waits     *)
(* until it is neither scheduled nor running; free_irq waits for a handler *)
(* under way.                                                              *)
(*                                                                         *)
(* The variable irq belongs to the line: the handlers still to be called   *)
(* for the interrupt being served, and its scancode (module KeyLine).      *)
(***************************************************************************)
EXTENDS Integers

CONSTANT Codes          \* scancodes the keyboard sends

VARIABLES
  irq,
  module,     \* where my_init or my_exit is
  handler,    \* my_irq_handler is registered
  stage,      \* my_irq_handler has stored the data and not yet scheduled
  mem,        \* the tasklet: "null", "alloc" or "freed"
  data,       \* tasklet->data
  sched,      \* its SCHED bit
  run,        \* its function: "none" or what it does next
  arg,        \* the function's local code
  last_key_code, last_key_name,
  late        \* history: scheduled after tasklet_kill had returned

Init ==
  /\ module = "kmalloc"
  /\ handler = FALSE
  /\ stage = FALSE
  /\ mem = "null"
  /\ data = 0
  /\ sched = FALSE
  /\ run = "none"
  /\ arg = -1
  /\ last_key_code = -1
  /\ last_key_name = -1
  /\ late = FALSE

press_code(code) == code % 128
is_release(code) == code >= 128

(* The releases that are handled: the 84 keys of the table but Enter.       *)
Handled(code) == is_release(code) /\ press_code(code) < 84 /\ press_code(code) # 28

-----------------------------------------------------------------------------
(* The handler returns; the scancode is gone with the last one.             *)
Return == irq' = IF irq.todo = {"tasklet"} THEN [todo |-> {}, code |-> 0]
                 ELSE [irq EXCEPT !.todo = @ \ {"tasklet"}]

(* my_irq_handler: the store ...                                            *)
IrqStore ==
  /\ handler /\ "tasklet" \in irq.todo /\ ~ stage
  /\ IF Handled(irq.code) THEN /\ data' = irq.code
                               /\ stage' = TRUE
                               /\ UNCHANGED irq
                          ELSE /\ Return
                               /\ UNCHANGED <<data, stage>>
  /\ UNCHANGED <<module, handler, mem, sched, run, arg, last_key_code, last_key_name, late>>

(* ... and tasklet_schedule.                                                *)
IrqSchedule ==
  /\ stage
  /\ stage' = FALSE
  /\ Return
  /\ sched' = TRUE
  /\ late' = (late \/ module \in {"free_irq", "kfree", "undo_kfree", "undo_irq"})
  /\ UNCHANGED <<module, handler, mem, data, run, arg, last_key_code, last_key_name>>

(* The softirq calls my_tasklet_fun(tasklet->data).                         *)
SoftIrq ==
  /\ sched /\ run = "none"
  /\ sched' = FALSE
  /\ run' = "code"
  /\ arg' = data
  /\ UNCHANGED <<irq, module, handler, stage, mem, data, last_key_code, last_key_name, late>>

(* my_tasklet_fun stores the code, then the name.                           *)
FunCode ==
  /\ run = "code"
  /\ last_key_code' = arg
  /\ run' = "name"
  /\ UNCHANGED <<irq, module, handler, stage, mem, data, sched, arg, last_key_name, late>>

FunName ==
  /\ run = "name"
  /\ last_key_name' = press_code(arg)
  /\ run' = "none" /\ arg' = -1
  /\ UNCHANGED <<irq, module, handler, stage, mem, data, sched, last_key_code, late>>

-----------------------------------------------------------------------------
(* my_init and my_exit, one call a step; any call of my_init may fail.      *)

Goto(here, there) == module = here /\ module' = there

rest == <<stage, data, sched, run, arg, last_key_code, last_key_name, late>>

Kmalloc ==
  /\ \/ Goto("kmalloc", "request_irq") /\ mem' = "alloc"
     \/ Goto("kmalloc", "absent") /\ mem' = mem
  /\ UNCHANGED <<irq, handler, rest>>

RequestIrq ==
  /\ \/ Goto("request_irq", "proc_create") /\ handler' = TRUE /\ mem' = mem
     \/ Goto("request_irq", "absent") /\ handler' = handler /\ mem' = "freed"
  /\ UNCHANGED <<irq, rest>>

ProcCreate ==
  /\ Goto("proc_create", "loaded") \/ Goto("proc_create", "undo_kill")
  /\ UNCHANGED <<irq, handler, mem, rest>>

(* rmmod; remove_proc_entry, synchronize_irq.                               *)
ExitSync ==
  /\ Goto("loaded", "kill") /\ "tasklet" \notin irq.todo
  /\ UNCHANGED <<irq, handler, mem, rest>>

(* tasklet_kill, of my_exit and of the error path of my_init.               *)
Kill ==
  /\ ~ sched /\ run = "none"
  /\ Goto("kill", "free_irq") \/ Goto("undo_kill", "undo_kfree")
  /\ UNCHANGED <<irq, handler, mem, rest>>

(* free_irq.  The error path of my_init frees the tasklet before it.        *)
FreeIrq ==
  /\ Goto("free_irq", "kfree") \/ Goto("undo_irq", "absent")
  /\ "tasklet" \notin irq.todo
  /\ handler' = FALSE
  /\ UNCHANGED <<irq, mem, rest>>

Kfree ==
  /\ Goto("kfree", "absent") \/ Goto("undo_kfree", "undo_irq")
  /\ mem' = "freed"
  /\ UNCHANGED <<irq, handler, rest>>

Module == Kmalloc \/ RequestIrq \/ ProcCreate \/ Kill \/ FreeIrq \/ Kfree
Bottom == SoftIrq \/ FunCode \/ FunName
Irq    == IrqStore \/ IrqSchedule

-----------------------------------------------------------------------------
TypeOK ==
  /\ module \in {"kmalloc", "request_irq", "proc_create", "loaded", "kill", "free_irq",
                 "kfree", "undo_kill", "undo_kfree", "undo_irq", "absent"}
  /\ handler \in BOOLEAN /\ stage \in BOOLEAN /\ sched \in BOOLEAN /\ late \in BOOLEAN
  /\ mem \in {"null", "alloc", "freed"}
  /\ data \in Codes \cup {0}
  /\ run \in {"none", "code", "name"}
  /\ arg \in Codes \cup {-1}
  /\ last_key_code \in Codes \cup {-1}
  /\ last_key_name \in 0 .. 83 \cup {-1}

(* Nothing of this module is under way.                                     *)
Quiet == ~ stage /\ ~ sched /\ run = "none"
=============================================================================
