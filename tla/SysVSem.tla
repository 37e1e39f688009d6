------------------------------- MODULE SysVSem -------------------------------
(***************************************************************************)
(* System V semaphore arrays, as the programs of this repository use them. *)
(* The kernel is not part of the repository: this is the contract of       *)
(* semop(2).  All operations of one call are tried in order on a copy of   *)
(* the set; if each can run the whole result is installed in one step,     *)
(* otherwise nothing is changed and the caller sleeps (or gets EAGAIN when *)
(* the operation carries IPC_NOWAIT).                                      *)
(*                                                                         *)
(* An array of struct sembuf is written as a chain,                        *)
(*     sem ## <<BUFFER_EMPTY, -1>> ## <<BIN_SEM, -1>>                      *)
(* whose value is the new set, or Blocked.                                 *)
(***************************************************************************)
EXTENDS Integers

(* The result of an array one of whose operations cannot run now.  It is   *)
(* a function with an empty domain, so it differs from every semaphore set *)
(* that has at least one member.                                           *)
Blocked == [n \in {} |-> 0]

(* One struct sembuf {num, op}: sem_op > 0 adds, sem_op = 0 waits for zero, *)
(* sem_op < 0 subtracts when the value stays non-negative.                 *)
Operation(s, num, op) ==
  IF s = Blocked \/ (op = 0 /\ s[num] # 0) \/ (op < 0 /\ s[num] + op < 0)
  THEN Blocked
  ELSE [s EXCEPT ![num] = @ + op]

s ## o == Operation(s, o[1], o[2])
=============================================================================
