------------------------------- MODULE TreeWalk -------------------------------
(***************************************************************************)
(* lab_fs/main.c: the directory argv[1] is walked three times, with chdir  *)
(* (and printed), without and again with chdir, and the times of the last  *)
(* two are compared.                                                       *)
(*                                                                         *)
(* The recursion is a stack of the directories that are open.  The global  *)
(* buffer (filename or fullpath) and the working directory are shared by   *)
(* all levels and by all walks.  A path is a sequence of names; the tree   *)
(* (external) does not change while the program runs, every node has its   *)
(* own name, and readdir gives the entries in any order.                   *)
(***************************************************************************)
EXTENDS Naturals, FiniteSets, Sequences, SequencesExt

CONSTANTS Root, ParentOf,    \* the tree: ParentOf[Root] = Root
          Above,           \* of every node, the nodes from it up to the root
          Files,           \* the nodes that are no directories
          Special, Kinds,  \* a directory, and what it may be like: "dir", "dnr"
                           \* (cannot be read) or "nox" (cannot be searched)
          Home, Arguments  \* the working directory at first; what argv[1] may be

Nodes == DOMAIN ParentOf
None == "none"
Walks == 1 .. 3
Variant(w) == IF w = 2 THEN "no" ELSE "chdir"

VARIABLES
  kind,     \* of every node
  argv,     \* argv[1]
  walk,     \* the walk that is going on
  pc,       \* "start", "call", "loop", "end", or over: "exit" or "failed"
  path,     \* filename or fullpath
  cwd,      \* the working directory
  stack,    \* per open directory (dp) itself, the entries to come, and n
  level,
  report    \* per walk the calls of myfunc: name, type, level

vars == <<kind, argv, walk, pc, path, cwd, stack, level, report>>

NoPath == [absolute |-> FALSE, steps |-> <<>>]

Init ==
  /\ kind = [m \in Nodes |-> IF m \in Files THEN "file" ELSE "dir"]
  /\ argv = NoPath
  /\ walk = 1 /\ pc = "start" /\ path = NoPath
  /\ cwd = Home /\ stack = <<>> /\ level = 0
  /\ report = [w \in Walks |-> <<>>]

-----------------------------------------------------------------------------
(* What a path names: the kernel's walk from the root or from directory d.  *)
Kind(d) == IF d = None THEN "missing" ELSE kind[d]
Entries(d) == {m \in Nodes \ {Root} : ParentOf[m] = d}
Step(d, s) == CASE Kind(d) \in {"dir", "dnr"} /\ s = "."  -> d
                [] Kind(d) \in {"dir", "dnr"} /\ s = ".." -> ParentOf[d]
                [] Kind(d) \in {"dir", "dnr"} /\ s \in Entries(d) -> s
                [] OTHER -> None
Named(p, d) ==
  LET at[k \in 0 .. Len(p.steps)] ==
        IF k = 0 THEN IF p.absolute THEN Root ELSE d ELSE Step(at[k - 1], p.steps[k])
  IN at[Len(p.steps)]

Target == Named(path, cwd)
Entry(type) == <<Last(path.steps), type, level>>
Reports(types) == report' = [report EXCEPT ![walk] = @ \o types]
Return == pc' = IF stack = <<>> THEN "end" ELSE "loop"

(* The user starts the program with an argument, in one of several trees.   *)
Start ==
  /\ pc = "start" /\ pc' = "call"
  /\ argv' \in Arguments /\ path' = argv'
  /\ \E k \in Kinds : kind' = [kind EXCEPT ![Special] = k]
  /\ UNCHANGED <<walk, cwd, stack, level, report>>

(* lstat fails (FTW_NS), or finds no directory (FTW_F).                     *)
NoDirectory ==
  /\ pc = "call" /\ Kind(Target) \in {"missing", "file"}
  /\ Reports(<<Entry(IF Target = None THEN "NS" ELSE "F")>>)
  /\ Return
  /\ UNCHANGED <<kind, argv, walk, path, cwd, stack, level>>

(* A directory that opendir cannot open: FTW_D and FTW_DNR.                 *)
Unreadable ==
  /\ pc = "call" /\ Kind(Target) = "dnr"
  /\ Reports(<<Entry("D"), Entry("DNR")>>)
  /\ Return
  /\ UNCHANGED <<kind, argv, walk, path, cwd, stack, level>>

(* opendir, and chdir in dopath_chdir; err_sys if that fails.               *)
Descend ==
  /\ pc = "call" /\ Kind(Target) \in {"dir", "nox"}
  /\ Reports(<<Entry("D")>>)
  /\ IF Variant(walk) = "chdir" /\ kind[Target] = "nox"
     THEN pc' = "failed" /\ UNCHANGED <<cwd, stack, level>>
     ELSE /\ pc' = "loop" /\ level' = level + 1
          /\ stack' = Append(stack, [dir |-> Target, todo |-> Entries(Target),
                                     n |-> Len(path.steps)])
          /\ cwd' = IF Variant(walk) = "chdir" THEN Target ELSE cwd
  /\ UNCHANGED <<kind, argv, walk, path>>

Top == Last(stack)

(* readdir, and the name into the buffer: dopath_chdir keeps only the name, *)
(* dopath_no puts it behind the path of the directory.                      *)
Readdir ==
  /\ pc = "loop"
  /\ \E e \in Top.todo :
       /\ stack' = [stack EXCEPT ![Len(stack)].todo = @ \ {e}]
       /\ path' = IF Variant(walk) = "chdir" THEN [absolute |-> FALSE, steps |-> <<e>>]
                  ELSE [path EXCEPT !.steps = Append(SubSeq(@, 1, Top.n), e)]
  /\ pc' = "call"
  /\ UNCHANGED <<kind, argv, walk, cwd, level, report>>

(* The end of the directory: chdir(".."), or the path cut off again.        *)
FaultyLeave ==
  /\ pc = "loop" /\ Top.todo = {}
  /\ level' = level - 1
  /\ stack' = Front(stack)
  /\ pc' = IF Len(stack) = 1 THEN "end" ELSE "loop"
  /\ UNCHANGED <<kind, argv, walk, path, cwd, report>>
Leave ==
  /\ pc = "loop" /\ Top.todo = {}
  /\ level' = level - 1
  /\ stack' = Front(stack)
  /\ pc' = IF Len(stack) = 1 THEN "end" ELSE "loop"
  /\ IF Variant(walk) = "chdir"
     THEN cwd' = ParentOf[cwd] /\ path' = path
     ELSE cwd' = cwd /\ path' = [path EXCEPT !.steps = SubSeq(@, 1, Top.n)]
  /\ UNCHANGED <<kind, argv, walk, report>>

(* main and compare: the next walk starts with argv[1] again.               *)
NextWalk ==
  /\ pc = "end"
  /\ IF walk = 3 THEN pc' = "exit" /\ UNCHANGED <<walk, path>>
                 ELSE pc' = "call" /\ walk' = walk + 1 /\ path' = argv
  /\ UNCHANGED <<kind, argv, cwd, stack, level, report>>

Next == Start \/ NoDirectory \/ Unreadable \/ Descend \/ Readdir \/ Leave \/ NextWalk

-----------------------------------------------------------------------------
(* Properties.                                                              *)

TypeOK ==
  /\ argv \in Arguments \cup {NoPath} /\ walk \in Walks
  /\ pc \in {"start", "call", "loop", "end", "exit", "failed"}
  /\ cwd \in Nodes /\ level \in 0 .. Cardinality(Nodes)
  /\ \A k \in DOMAIN stack : stack[k].todo \subseteq Entries(stack[k].dir) /\ stack[k].n \in Nat

(* What the walk of a tree should report: every node at or below the top    *)
(* whose directories can all be read, with its distance from the top.       *)
(* (Where one cannot be searched the first walk ends the program.)          *)
Way(top, m) == {a \in Above[m] \ {m} : top \in Above[a]}
Shown(top) == {m \in Nodes : top \in Above[m] /\ \A a \in Way(top, m) : kind[a] # "dnr"}
Types(m) == CASE kind[m] = "file" -> {"F"}
              [] kind[m] = "dnr"  -> {"D", "DNR"}
              [] OTHER            -> {"D"}
Lines(top, last, m) ==
  {<<IF m = top THEN last ELSE m, t, Cardinality(Way(top, m))>> : t \in Types(m)}
Expected ==
  LET top  == Named(argv, Home)
      last == Last(argv.steps)
  IN IF top = None THEN {<<last, "NS", 0>>} ELSE UNION {Lines(top, last, m) : m \in Shown(top)}

(* An argument after which chdir("..") leads back to where it started, or   *)
(* that does not depend on that.                                            *)
Homing == argv.absolute \/ (Len(argv.steps) = 1 /\ argv.steps[1] \notin {".", ".."})

(* Each walk that ends has reported every entry of the tree argv[1] named   *)
(* at first, once and with its level: the first walk always, the two that   *)
(* are compared if argv[1] is absolute or a single name.  Otherwise chdir   *)
(* leaves the program elsewhere, and they walk another tree or none.        *)
TreeReported ==
  \A w \in Walks :
    (w < walk \/ (w = walk /\ pc \in {"end", "exit"})) /\ (w = 1 \/ Homing)
      => IsInjective(report[w]) /\ ToSet(report[w]) = Expected
=============================================================================
