-------------------------------- MODULE FileIo --------------------------------
(***************************************************************************)
(* lab_buf_io/src: what becomes of an alphabet that is read, or written,   *)
(* through two streams or two descriptors.                                 *)
(*   "app1", "app1_threads"  two FILEs over one descriptor, alternately    *)
(*                           and in two threads                            *)
(*   "app2", "app2_threads"  read() of two descriptors, alternately and in *)
(*                           two threads (app2_threads_right.c)            *)
(*   "app3_buf"              fprintf to two FILEs of one file              *)
(*   "app3_non_buf"          write() to two descriptors of one file        *)
(* The files exist and can be opened; 3.txt is not truncated and may hold  *)
(* anything.  An open file (external) keeps its offset; a FILE reads and   *)
(* writes it in blocks.                                                    *)
(***************************************************************************)
EXTENDS Naturals, Sequences, SequencesExt

CONSTANTS N,        \* letters of the alphabet (26 in the code)
          BufSize,  \* size of a FILE's input buffer (20 in the code)
          OldFiles  \* what 3.txt may hold before app3 is started

VARIABLES
  prog,
  pc,       \* where each of the two readers or writers is
  offset,   \* the offset of each open file
  buf,      \* the letters in each FILE's buffer
  ch,       \* the letter each reader has to print
  rc,       \* result of each reader's last fscanf or read
  mutex,    \* app2_threads: the reader that has it, or 0
  letter,   \* app3: the loop's letter
  out,      \* what was printed
  file,     \* the content of 3.txt
  old       \* what it was at the start

vars == <<prog, pc, offset, buf, ch, rc, mutex, letter, out, file, old>>

Two == {1, 2}
Other(k) == 3 - k
Alphabet == [n \in 1 .. N |-> n]
Readers == {"app1", "app1_threads", "app2", "app2_threads"}
Threaded == prog \in {"app1_threads", "app2_threads"}

(* Which open file a reader or writer uses, and how much a read() takes.    *)
SeparateFiles(k) == k
Fd(k) == IF prog \in {"app1", "app1_threads"} THEN 1 ELSE k
Block == IF prog \in {"app1", "app1_threads"} THEN BufSize ELSE 1

(* "r+" and O_RDWR leave the file as it is.                                  *)
Content == IF prog \in Readers THEN {<<>>} ELSE OldFiles

Init ==
  /\ prog \in Readers \cup {"app3_buf", "app3_non_buf"}
  /\ pc = CASE prog \in {"app1", "app2"} -> <<"read", "turn">>
            [] prog \in {"app1_threads", "app2_threads"} -> <<"create", "none">>
            [] OTHER -> <<"write", "write">>
  /\ offset = <<0, 0>>
  /\ buf = << <<>>, <<>> >>
  /\ ch = <<0, 0>>
  /\ rc = <<1, 1>>
  /\ mutex = 0
  /\ letter = 1
  /\ out = <<>>
  /\ file \in Content /\ old = file

Over == pc = <<"done", "done">>

-----------------------------------------------------------------------------
(* Reading.                                                                 *)

(* pthread_create, which may fail: app1_threads ignores that and goes on    *)
(* alone, the other program ends.                                           *)
ThreadStart == IF prog = "app2_threads" THEN "lock" ELSE "read"
CreateThread ==
  /\ pc[1] = "create"
  /\ \/ pc' = <<ThreadStart, ThreadStart>>
     \/ pc' = IF prog = "app2_threads" THEN <<"done", "failed">> ELSE <<ThreadStart, "unset">>
  /\ UNCHANGED <<prog, offset, buf, ch, rc, mutex, letter, out, file, old>>

(* app1_threads then joins a pthread_t that nothing was stored in, which is *)
(* undefined: the call returns, kills the process or never returns.         *)
JoinUnset ==
  /\ pc = <<"done", "unset">>
  /\ \E end \in {"done", "failed", "stuck"} : pc' = <<"done", end>>
  /\ UNCHANGED <<prog, offset, buf, ch, rc, mutex, letter, out, file, old>>

(* read() into the buffer: a block from the offset on, or nothing at the    *)
(* end of the file.                                                         *)
Filled(k) == SubSeq(Alphabet, offset[Fd(k)] + 1,
                    IF offset[Fd(k)] + Block < N THEN offset[Fd(k)] + Block ELSE N)
Fill(k) == /\ buf' = [buf EXCEPT ![k] = Filled(k)]
           /\ offset' = [offset EXCEPT ![Fd(k)] = @ + Len(Filled(k))]

(* fscanf or read when the buffer is empty ...                              *)
Refill(k) ==
  /\ pc[k] = "read" /\ buf[k] = <<>> /\ Filled(k) # <<>>
  /\ Fill(k)
  /\ UNCHANGED <<prog, pc, ch, rc, mutex, letter, out, file, old>>

(* ... finds the end of the file ...                                        *)
EndOfFile(k) ==
  /\ pc[k] = "read" /\ buf[k] = <<>> /\ Filled(k) = <<>>
  /\ rc' = [rc EXCEPT ![k] = 0]
  /\ pc' = [pc EXCEPT ![k] = "printed"]
  /\ UNCHANGED <<prog, offset, buf, ch, mutex, letter, out, file, old>>

(* ... or gives the next letter.                                            *)
Take(k) ==
  /\ pc[k] = "read" /\ buf[k] # <<>>
  /\ ch' = [ch EXCEPT ![k] = Head(buf[k])]
  /\ buf' = [buf EXCEPT ![k] = Tail(@)]
  /\ pc' = [pc EXCEPT ![k] = IF prog = "app1_threads" THEN "space" ELSE "print"]
  /\ UNCHANGED <<prog, offset, rc, mutex, letter, out, file, old>>

(* "%c\n" of app1_threads: fscanf looks for white space after the letter,   *)
(* and fills an empty buffer for that.                                      *)
SkipSpace(k) ==
  /\ pc[k] = "space"
  /\ IF buf[k] = <<>> THEN Fill(k) ELSE UNCHANGED <<buf, offset>>
  /\ pc' = [pc EXCEPT ![k] = "print"]
  /\ UNCHANGED <<prog, ch, rc, mutex, letter, out, file, old>>

PrintLetter(k) ==
  /\ pc[k] = "print"
  /\ out' = Append(out, ch[k])
  /\ pc' = [pc EXCEPT ![k] = "printed"]
  /\ UNCHANGED <<prog, offset, buf, ch, rc, mutex, letter, file, old>>

(* The head of the loops: a thread goes on while its own rc is 1; app1 and  *)
(* app2 turn to the other stream, and go on after the second while either   *)
(* rc is 1.                                                                 *)
Loop(k) ==
  /\ pc[k] = "printed"
  /\ IF Threaded
     THEN pc' = [pc EXCEPT ![k] = IF rc[k] = 1 THEN "read"
                                  ELSE IF prog = "app2_threads" THEN "unlock" ELSE "done"]
     ELSE pc' = IF k = 2 /\ rc = <<0, 0>> THEN <<"done", "done">>
                ELSE [pc EXCEPT ![k] = "turn", ![Other(k)] = "read"]
  /\ UNCHANGED <<prog, offset, buf, ch, rc, mutex, letter, out, file, old>>

(* app2_threads: the mutex is held over the whole loop.                     *)
Lock(k) ==
  /\ pc[k] = "lock" /\ mutex = 0
  /\ mutex' = k
  /\ pc' = [pc EXCEPT ![k] = "read"]
  /\ UNCHANGED <<prog, offset, buf, ch, rc, letter, out, file, old>>

Unlock(k) ==
  /\ pc[k] = "unlock"
  /\ mutex' = 0
  /\ pc' = [pc EXCEPT ![k] = "done"]
  /\ UNCHANGED <<prog, offset, buf, ch, rc, letter, out, file, old>>

-----------------------------------------------------------------------------
(* Writing: the letters go to the two files in turn ('a' is odd).           *)

Writer == IF letter % 2 = 1 THEN 1 ELSE 2

(* Letters s from offset o on, over what is there.                          *)
Overwrite(f, o, s) ==
  [n \in 1 .. (IF o + Len(s) > Len(f) THEN o + Len(s) ELSE Len(f)) |->
     IF n \in o + 1 .. o + Len(s) THEN s[n - o] ELSE f[n]]

WriteLetter ==
  /\ prog \notin Readers /\ letter <= N
  /\ letter' = letter + 1
  /\ IF prog = "app3_buf"
     THEN buf' = [buf EXCEPT ![Writer] = Append(@, letter)] /\ UNCHANGED <<offset, file>>
     ELSE /\ file' = Overwrite(file, offset[Writer], <<letter>>)
          /\ offset' = [offset EXCEPT ![Writer] = @ + 1]
          /\ UNCHANGED buf
  /\ UNCHANGED <<prog, pc, ch, rc, mutex, out, old>>

(* fclose or close, of the first and then of the second.                    *)
Close(k) ==
  /\ prog \notin Readers /\ letter > N /\ pc[k] = "write"
  /\ k = 2 => pc[1] = "done"
  /\ file' = Overwrite(file, offset[k], buf[k])
  /\ buf' = [buf EXCEPT ![k] = <<>>]
  /\ pc' = [pc EXCEPT ![k] = "done"]
  /\ UNCHANGED <<prog, offset, ch, rc, mutex, letter, out, old>>

Step(k) == \/ Refill(k) \/ EndOfFile(k) \/ Take(k) \/ SkipSpace(k) \/ PrintLetter(k) \/ Loop(k)
           \/ Lock(k) \/ Unlock(k) \/ Close(k)
Next == CreateThread \/ JoinUnset \/ WriteLetter \/ \E k \in Two : Step(k)

-----------------------------------------------------------------------------
(* Properties.                                                              *)

TypeOK ==
  /\ offset \in [Two -> 0 .. N]
  /\ \A k \in Two : buf[k] \in Seq(1 .. N) /\ ch[k] \in 0 .. N /\ rc[k] \in {0, 1}
  /\ mutex \in {0} \cup Two /\ letter \in 1 .. N + 1
  /\ out \in Seq(1 .. N) /\ file \in Seq(Nat) /\ old \in Seq(Nat)

(* One descriptor under two buffers gives every letter once, to one of the  *)
(* streams; two descriptors give every letter twice, and under the mutex    *)
(* one whole alphabet after the other.                                      *)
EveryLetterPrinted ==
  Over =>
    /\ prog \in {"app1", "app1_threads"} => Len(out) = N /\ ToSet(out) = 1 .. N
    /\ prog = "app2" => out = [n \in 1 .. 2 * N |-> (n + 1) \div 2]
    /\ prog = "app2_threads" => out = Alphabet \o Alphabet

(* Every program ends, and the readers have then printed all letters.  What *)
(* may go wrong is pthread_create: app2_threads then gives up, and the join *)
(* of app1_threads may kill it or never return.                             *)
LettersRead == <>(Over \/ pc[2] \in {"failed", "stuck"}) /\ []EveryLetterPrinted

(* Two writers of one file have an offset each: what the first wrote is     *)
(* overwritten, buffered or not, and half of the alphabet is lost.  Behind  *)
(* the other half a longer file is as it was.                               *)
SecondCloseWins ==
  Over /\ prog \notin Readers =>
    /\ \A n \in 1 .. N \div 2 : file[n] = 2 * n
    /\ \A n \in (N \div 2) + 1 .. Len(old) : file[n] = old[n]
    /\ Len(file) = IF Len(old) > N \div 2 THEN Len(old) ELSE N \div 2
=============================================================================
