------------------------------- MODULE Fortune --------------------------------
(***************************************************************************)
(* lab_module/task_03/fortune.c: cookies are written to and read from      *)
(* /proc/fortuneDir/fortuneFile and kept in one page, the cookie pot.      *)
(* Nothing in the module locks: the steps of calls that are in progress at *)
(* the same time interleave.                                               *)
(*                                                                         *)
(* A byte of the pot is text or 0; the vmalloc'ed page is all 0 at first.  *)
(* What a store or a string outside the page does is undefined: the model  *)
(* records it and stops there.  remove_proc_entry (external) waits for the *)
(* calls in progress; a call on a file that is removed fails.              *)
(***************************************************************************)
EXTENDS Integers, FiniteSets, FiniteSetsExt

CONSTANTS Callers,    \* processes with the file open
          PotSize,    \* COOKIE_POT_SIZE (4096 in the code)
          NCalls      \* bound: write and read calls

VARIABLES
  module,     \* where md_init or md_exit is
  file,       \* fortuneFile exists
  mem,        \* cookiePot: "null", "alloc" or "freed"
  text,       \* the positions of the pot that do not hold 0
  readInd, writeInd,
  call,       \* what each process does
  fPos,       \* the position of its open file
  len,        \* fortuneWrite: len; fortuneRead: readLen
  calls,      \* calls that are left
  mixed,      \* history: two calls were in progress at the same time
  early,      \* history: a call came before md_init set the indices
  fault       \* the store or string outside the pot, or NoFault

vars == <<module, file, mem, text, readInd, writeInd, call, fPos, len, calls, mixed, early, fault>>
indices == <<text, readInd, writeInd>>
load == <<module, file, mem>>
history == <<calls, mixed, early>>

Pot == 0 .. PotSize - 1
NoFault == [op |-> "none", ind |-> 0, len |-> 0]
Fault(c, op) == fault' = [op |-> op, ind |-> writeInd, len |-> len[c]]

Init ==
  /\ module = "vmalloc" /\ file = FALSE /\ mem = "null"
  /\ text = {} /\ readInd = 0 /\ writeInd = 0
  /\ call = [c \in Callers |-> "closed"]
  /\ fPos = [c \in Callers |-> 0]
  /\ len = [c \in Callers |-> 0]
  /\ calls = NCalls
  /\ mixed = FALSE /\ early = FALSE
  /\ fault = NoFault

Busy(c) == call[c] \notin {"closed", "open"}
Goto(c, here, there) == fault = NoFault /\ call[c] = here /\ call' = [call EXCEPT ![c] = there]

-----------------------------------------------------------------------------
(* The file operations.                                                     *)

Open(c) ==
  /\ file /\ calls > 0 /\ Goto(c, "closed", "open")
  /\ fPos' = [fPos EXCEPT ![c] = 0]
  /\ UNCHANGED <<load, indices, len, history, fault>>

Release(c) ==
  /\ Goto(c, "open", "closed")
  /\ UNCHANGED <<load, indices, fPos, len, history, fault>>

Enter(c) ==
  /\ file /\ calls > 0
  /\ calls' = calls - 1
  /\ mixed' = (mixed \/ \E d \in Callers \ {c} : Busy(d))
  /\ early' = (early \/ module \in {"symlink", "indices"})

(* fortuneWrite: len > COOKIE_POT_SIZE - writeInd + 1, where a negative     *)
(* difference is a huge unsigned number.                                    *)
FaultyFits(n) == n <= PotSize
Fits(n) == LET room == PotSize - writeInd + 1 IN room < 0 \/ n <= room

WriteCheck(c, n) ==
  /\ Enter(c)
  /\ Goto(c, "open", IF Fits(n) THEN "copy" ELSE "open")
  /\ len' = [len EXCEPT ![c] = n]
  /\ UNCHANGED <<load, indices, fPos, fault>>

(* copy_from_user to &cookiePot[writeInd]: bytes of the user, 0 or not.  If *)
(* it fails, some were copied and the rest, the last at least, is set to 0. *)
Copy(c, zeroed) ==
  LET ind == writeInd .. writeInd + len[c] - 1
  IN /\ \E s \in SUBSET ((ind \ zeroed) \cap Pot) : text' = (text \ ind) \cup s
     /\ IF ind \subseteq Pot THEN fault' = fault ELSE Fault(c, "copy")

WriteCopy(c) ==
  /\ \/ Goto(c, "copy", "count") /\ Copy(c, {})
     \/ len[c] > 0 /\ Goto(c, "copy", "open") /\ Copy(c, {writeInd + len[c] - 1})
  /\ UNCHANGED <<load, readInd, writeInd, fPos, len, history>>

(* writeInd += len                                                          *)
WriteCount(c) ==
  /\ Goto(c, "count", "end")
  /\ writeInd' = writeInd + len[c]
  /\ UNCHANGED <<load, text, readInd, fPos, len, history, fault>>

(* cookiePot[writeInd - 1] = 0                                              *)
WriteEnd(c) ==
  /\ Goto(c, "end", "print")
  /\ text' = text \ {writeInd - 1}
  /\ IF writeInd - 1 \in Pot THEN fault' = fault ELSE Fault(c, "end")
  /\ UNCHANGED <<load, readInd, writeInd, fPos, len, history>>

(* Where a string of the pot that starts at i may end.                      *)
Zeros(i) == {n \in Pot \ text : 0 <= i /\ i <= n}

(* printk of the string at &cookiePot[writeInd - len]                       *)
WritePrint(c) ==
  /\ Goto(c, "print", "open")
  /\ IF Zeros(writeInd - len[c]) = {} THEN Fault(c, "print") ELSE fault' = fault
  /\ UNCHANGED <<load, indices, fPos, len, history>>

(* fortuneRead: 0 at the second call or with an empty pot, and back to the  *)
(* first cookie after the last.                                             *)
ReadStart(c) ==
  /\ Enter(c)
  /\ IF fPos[c] > 0 \/ writeInd = 0
     THEN Goto(c, "open", "open") /\ UNCHANGED readInd
     ELSE Goto(c, "open", "format") /\ readInd' = IF readInd >= writeInd THEN 0 ELSE readInd
  /\ UNCHANGED <<load, text, writeInd, fPos, len, fault>>

(* readLen = snprintf("%s\n"): the string up to the next 0, and a newline.  *)
ShortLength == Min(Zeros(readInd)) - readInd
Length == Min(Zeros(readInd)) - readInd + 1
ReadFormat(c) ==
  /\ Goto(c, "format", "copied")
  /\ IF Zeros(readInd) = {} THEN len' = len /\ Fault(c, "format")
                            ELSE len' = [len EXCEPT ![c] = Length] /\ fault' = fault
  /\ UNCHANGED <<load, indices, fPos, history>>

(* copy_to_user fails, or readInd += readLen and *fPos += readLen.          *)
ReadEnd(c) ==
  /\ Goto(c, "copied", "open")
  /\ \/ /\ readInd' = readInd + len[c]
        /\ fPos' = [fPos EXCEPT ![c] = @ + len[c]]
     \/ UNCHANGED <<readInd, fPos>>
  /\ UNCHANGED <<load, text, writeInd, len, history, fault>>

Caller(c) == \/ Open(c) \/ Release(c) \/ \E n \in 0 .. PotSize + 1 : WriteCheck(c, n)
             \/ WriteCopy(c) \/ WriteCount(c) \/ WriteEnd(c) \/ WritePrint(c)
             \/ ReadStart(c) \/ ReadFormat(c) \/ ReadEnd(c)

-----------------------------------------------------------------------------
(* md_init and md_exit.                                                     *)

Step(here, there) == fault = NoFault /\ module = here /\ module' = there
rest == <<indices, call, fPos, len, history, fault>>

Vmalloc ==
  /\ \/ Step("vmalloc", "mkdir") /\ mem' = "alloc"
     \/ Step("vmalloc", "absent") /\ mem' = "null"
  /\ UNCHANGED <<file, rest>>

(* proc_mkdir, proc_create, proc_symlink; freeMemory() if one fails.        *)
Mkdir ==
  /\ Step("mkdir", "create") \/ Step("mkdir", "vfree")
  /\ UNCHANGED <<file, mem, rest>>

Create ==
  /\ \/ Step("create", "symlink") /\ file' = TRUE
     \/ Step("create", "vfree") /\ file' = FALSE
  /\ UNCHANGED <<mem, rest>>

Symlink ==
  /\ Step("symlink", "indices") \/ Step("symlink", "remove")
  /\ UNCHANGED <<file, mem, rest>>

(* readInd = 0; writeInd = 0, when the file can already be used.            *)
Indices ==
  /\ Step("indices", "loaded")
  /\ readInd' = 0 /\ writeInd' = 0
  /\ UNCHANGED <<file, mem, text, call, fPos, len, history, fault>>

Rmmod ==
  /\ Step("loaded", "remove")
  /\ UNCHANGED <<file, mem, rest>>

(* freeMemory: the link, the file and the directory are removed, and then   *)
(* the pot is freed.                                                        *)
RemoveFile ==
  /\ Step("remove", "vfree")
  /\ \A c \in Callers : ~ Busy(c)
  /\ file' = FALSE
  /\ UNCHANGED <<mem, rest>>

Vfree ==
  /\ Step("vfree", "absent")
  /\ mem' = "freed"
  /\ UNCHANGED <<file, rest>>

Module == Vmalloc \/ Mkdir \/ Create \/ Symlink \/ Indices \/ Rmmod \/ RemoveFile \/ Vfree

Next == Module \/ \E c \in Callers : Caller(c)

-----------------------------------------------------------------------------
(* Properties.                                                              *)

TypeOK ==
  /\ module \in {"vmalloc", "mkdir", "create", "symlink", "indices", "loaded", "remove", "vfree",
                 "absent"}
  /\ file \in BOOLEAN /\ mem \in {"null", "alloc", "freed"}
  /\ text \subseteq Pot /\ readInd \in Nat /\ writeInd \in Nat
  /\ call \in [Callers -> {"closed", "open", "copy", "count", "end", "print", "format", "copied"}]
  /\ fPos \in [Callers -> Nat] /\ len \in [Callers -> Nat]

(* Reads go round the cookies: the next one starts after the end of a       *)
(* string that was written (or at the beginning), never inside one or in    *)
(* what is not written yet, however reads, writes of any length, refused    *)
(* writes and copies that fail half way follow each other.  Calls that      *)
(* overlap, or that come before md_init is through, may break it.           *)
CookiesInOrder ==
  fault = NoFault /\ ~ mixed /\ ~ early =>
    readInd = 0 \/ (readInd - 1 \in Pot /\ readInd - 1 \notin text /\ readInd <= writeInd)

(* A call that is alone leaves the pot in three cases only: it stores the   *)
(* one byte that the test allows beyond the PotSize - writeInd the code's   *)
(* own message calls available; it stores the byte before the pot, when     *)
(* nothing is written to an empty one; or it prints the string that starts  *)
(* behind the pot, when nothing is written to a full one.                   *)
StoresInside ==
  fault # NoFault /\ ~ mixed /\ ~ early =>
    \/ fault.op = "copy" /\ fault.ind + fault.len = PotSize + 1
    \/ fault.op = "end" /\ fault.ind = 0 /\ fault.len = 0
    \/ fault.op = "print" /\ fault.ind = PotSize /\ fault.len = 0

(* The pot is there as long as a call is in progress.                       *)
PotOutlivesCalls == (\E c \in Callers : Busy(c)) => mem = "alloc"
=============================================================================
