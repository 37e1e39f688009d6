------------------------------ MODULE LabModules ------------------------------
(***************************************************************************)
(* The loadable modules of the labs: the two on the keyboard line, which   *)
(* interact (KeyLine), and two that have nothing in common with others,    *)
(* the cookie pot and the file system.  The initial state says which of    *)
(* the three is loaded; only its code runs.                                *)
(***************************************************************************)
EXTENDS KeyLine, FiniteSets

CONSTANTS Callers, PotSize, NCalls,   \* Fortune
          Objects, Mounts             \* MyVfs

ASSUME LabModulesAssumption ==
  /\ PotSize \in Nat \ {0} /\ NCalls \in Nat
  /\ IsFiniteSet(Callers) /\ IsFiniteSet(Objects) /\ IsFiniteSet(Mounts)

VARIABLES
  system,
  cModule, cFile, cMem, cText, cReadInd, cWriteInd, cCall, cPos, cLen, cCalls, cMixed, cEarly,
  cFault,
  vModule, vRegistered, vArea, vCache, vTodo, vTmp, vMount

C == INSTANCE Fortune WITH
       module <- cModule, file <- cFile, mem <- cMem, text <- cText, readInd <- cReadInd,
       writeInd <- cWriteInd, call <- cCall, fPos <- cPos, len <- cLen, calls <- cCalls,
       mixed <- cMixed, early <- cEarly, fault <- cFault

V == INSTANCE MyVfs WITH
       module <- vModule, registered <- vRegistered, area <- vArea, cache <- vCache,
       todo <- vTodo, tmp <- vTmp, mount <- vMount

cVars == <<cModule, cFile, cMem, cText, cReadInd, cWriteInd, cCall, cPos, cLen, cCalls, cMixed,
           cEarly, cFault>>
vVars == <<vModule, vRegistered, vArea, vCache, vTodo, vTmp, vMount>>
allVars == <<system, vars, cVars, vVars>>

LabInit ==
  /\ system \in {"keyboard", "fortune", "myfs"}
  /\ Init
  /\ C!Init
  /\ V!Init

LabNext ==
  /\ \/ system = "keyboard" /\ Next /\ UNCHANGED <<cVars, vVars>>
     \/ system = "fortune" /\ C!Next /\ UNCHANGED <<vars, vVars>>
     \/ system = "myfs" /\ V!Next /\ UNCHANGED <<vars, cVars>>
  /\ UNCHANGED system

LabSpec == LabInit /\ [][LabNext]_allVars

-----------------------------------------------------------------------------
(* Properties, besides those of KeyLine.                                    *)

LabTypeOK == TypeOK /\ C!TypeOK /\ V!TypeOK

(* fortune.c: reads start after the end of a string that was written.       *)
CookiesInOrder == C!CookiesInOrder

(* fortune.c: a call that is alone leaves the pot in three cases only.      *)
StoresInside == C!StoresInside

(* Every module frees what it allocated when nothing uses it any more, but  *)
(* for the windows NothingRunsInFreedMemory names; the pot of fortune.c has *)
(* none.                                                                    *)
FreedWhenUnused == NothingRunsInFreedMemory /\ C!PotOutlivesCalls

(* my_vfs.c: rmmod leaves nothing behind.                                   *)
CleanUnload == V!CleanUnload
=============================================================================
