---------------------------- MODULE SemRingProofs ----------------------------
(***************************************************************************)
(* What one struct sembuf of a semop call does, in the three forms the     *)
(* programs use: the proofs about the programs rewrite their arrays with   *)
(* these lemmas, one operation at a time.  And what a ring of letters      *)
(* holds, seen as a sequence: the buffer servers guard one with counting   *)
(* semaphores.                                                             *)
(***************************************************************************)
EXTENDS SysVSem, Sequences, SequenceTheorems, TLAPS

(* A set with a member is never mistaken for the result of a blocked call.  *)
LEMMA SetIsNotBlocked ==
  ASSUME NEW D, NEW n \in D, NEW s \in [D -> Int]
  PROVE  s # Blocked
  <1> SUFFICES ASSUME s = Blocked PROVE FALSE
    OBVIOUS
  <1>1. DOMAIN s = D
    OBVIOUS
  <1>2. DOMAIN Blocked = {}
    BY DEF Blocked
  <1> QED BY <1>1, <1>2

(* A blocked array stays blocked whatever follows.                          *)
LEMMA BlockedStays == ASSUME NEW o PROVE (Blocked ## o) = Blocked
  BY DEF ##, Operation

(* {n, -1, 0} takes one unit, or blocks when there is none.                 *)
LEMMA Down ==
  ASSUME NEW D, NEW n \in D, NEW s \in [D -> Nat]
  PROVE  (s ## <<n, -1>>) = IF s[n] > 0 THEN [s EXCEPT ![n] = @ - 1] ELSE Blocked
  <1> DEFINE o == <<n, -1>>
  <1>0. s # Blocked
    BY SetIsNotBlocked
  <1>1. o[1] = n /\ o[2] = -1
    OBVIOUS
  <1> HIDE DEF o
  <1>2. (s ## o) = Operation(s, n, -1)
    BY <1>1 DEF ##
  <1>3. s[n] \in Nat
    OBVIOUS
  <1>4. CASE s[n] > 0
    <2>1. -1 # 0 /\ -1 < 0 /\ ~(s[n] + (-1) < 0) /\ s[n] + (-1) = s[n] - 1
      BY <1>3, <1>4
    <2>2. Operation(s, n, -1) = [s EXCEPT ![n] = @ - 1]
      BY <1>0, <2>1 DEF Operation
    <2> QED BY <1>2, <1>4, <2>2 DEF o
  <1>5. CASE ~(s[n] > 0)
    <2>1. -1 < 0 /\ s[n] + (-1) < 0
      BY <1>3, <1>5
    <2>2. Operation(s, n, -1) = Blocked
      BY <2>1 DEF Operation
    <2> QED BY <1>2, <1>5, <2>2 DEF o
  <1> QED BY <1>4, <1>5

(* {n, 1, 0} adds one unit and never blocks.                                *)
LEMMA Add ==
  ASSUME NEW D, NEW n \in D, NEW s \in [D -> Nat]
  PROVE  (s ## <<n, 1>>) = [s EXCEPT ![n] = @ + 1]
  <1> DEFINE o == <<n, 1>>
  <1>0. s # Blocked
    BY SetIsNotBlocked
  <1>1. o[1] = n /\ o[2] = 1
    OBVIOUS
  <1> HIDE DEF o
  <1>2. (s ## o) = Operation(s, n, 1)
    BY <1>1 DEF ##
  <1>4. (s ## o) = [s EXCEPT ![n] = @ + 1]
    BY <1>0, <1>2 DEF Operation
  <1> QED BY <1>4 DEF o

(* {n, 0, 0} changes nothing, and blocks unless the value is zero.          *)
LEMMA Zero ==
  ASSUME NEW D, NEW n \in D, NEW s \in [D -> Nat]
  PROVE  (s ## <<n, 0>>) = IF s[n] = 0 THEN s ELSE Blocked
  <1> DEFINE o == <<n, 0>>
  <1>0. s # Blocked
    BY SetIsNotBlocked
  <1>1. o[1] = n /\ o[2] = 0
    OBVIOUS
  <1> HIDE DEF o
  <1>2. (s ## o) = Operation(s, n, 0)
    BY <1>1 DEF ##
  <1>3. [s EXCEPT ![n] = @ + 0] = s
    OBVIOUS
  <1>4. CASE s[n] = 0
    <2>1. Operation(s, n, 0) = [s EXCEPT ![n] = @ + 0]
      BY <1>0, <1>4 DEF Operation
    <2> QED BY <1>2, <1>3, <1>4, <2>1 DEF o
  <1>5. CASE s[n] # 0
    <2>1. Operation(s, n, 0) = Blocked
      BY <1>5 DEF Operation
    <2> QED BY <1>2, <1>5, <2>1 DEF o
  <1> QED BY <1>4, <1>5

-----------------------------------------------------------------------------
(* n letters of the ring r from position h on, as a sequence.               *)

Part(N, h, n, r) == [i \in 1 .. n |-> r[(h + i - 1) % N]]

(* Positions of the ring, without %.                                        *)
LEMMA Around ==
  ASSUME NEW N \in Nat \ {0}, NEW h \in 0 .. N - 1, NEW k \in 0 .. N
  PROVE  /\ (h + k) % N = IF h + k < N THEN h + k ELSE h + k - N
         /\ (h + k) % N \in 0 .. N - 1
  OBVIOUS

(* One step around the ring.                                                *)
LEMMA OneFurther ==
  ASSUME NEW N \in Nat \ {0}, NEW h \in 0 .. N - 1, NEW k \in 0 .. N - 1
  PROVE  /\ (h + 1) % N \in 0 .. N - 1
         /\ (((h + k) % N) + 1) % N = (h + (k + 1)) % N
         /\ (((h + 1) % N) + k) % N = (h + (k + 1)) % N
<1> DEFINE p == (h + k) % N
           q == (h + 1) % N
           z == (h + (k + 1)) % N
<1>1. k \in 0 .. N /\ k + 1 \in 0 .. N /\ 1 \in 0 .. N
  OBVIOUS
<1>2. p = (IF h + k < N THEN h + k ELSE h + k - N) /\ p \in 0 .. N - 1
  BY <1>1, Around
<1>3. q = (IF h + 1 < N THEN h + 1 ELSE h + 1 - N) /\ q \in 0 .. N - 1
  BY <1>1, Around
<1>4. z = IF h + (k + 1) < N THEN h + (k + 1) ELSE h + (k + 1) - N
  BY <1>1, Around
<1> HIDE DEF p, q, z
<1>5. (p + 1) % N = IF p + 1 < N THEN p + 1 ELSE p + 1 - N
  BY <1>1, <1>2, Around
<1>6. (q + k) % N = IF q + k < N THEN q + k ELSE q + k - N
  BY <1>1, <1>3, Around
<1>7. (p + 1) % N = z
  BY <1>2, <1>4, <1>5
<1>8. (q + k) % N = z
  BY <1>3, <1>4, <1>6
<1> QED
  BY <1>3, <1>7, <1>8 DEF p, q, z

(* What Part is: n numbers, and none when n is 0.                     *)
PartLaw(N, h, n, r) ==
  /\ Part(N, h, n, r) \in Seq(Nat) /\ Len(Part(N, h, n, r)) = n
  /\ \A i \in 1 .. n : Part(N, h, n, r)[i] = r[(h + i - 1) % N]
  /\ n = 0 => Part(N, h, n, r) = << >>

LEMMA PartSeq ==
  ASSUME NEW N \in Nat \ {0}, NEW h \in 0 .. N - 1,
         NEW n \in 0 .. N, NEW r \in [0 .. N - 1 -> Nat]
  PROVE  PartLaw(N, h, n, r)
<1>1. ASSUME NEW i \in 1 .. n PROVE r[(h + i - 1) % N] \in Nat
  <2>1. i - 1 \in 0 .. N /\ h + (i - 1) = h + i - 1
    OBVIOUS
  <2>2. (h + (i - 1)) % N \in 0 .. N - 1
    BY <2>1, Around
  <2> QED
    BY <2>1, <2>2
<1>2. n \in Nat
  OBVIOUS
<1>3. Part(N, h, n, r) \in Seq(Nat) /\ Len(Part(N, h, n, r)) = n
  <2> DEFINE e(i) == r[(h + i - 1) % N]
  <2>1. \A i \in 1 .. n : e(i) \in Nat
    BY <1>1
  <2> HIDE DEF e
  <2>2. [i \in 1 .. n |-> e(i)] \in Seq(Nat) /\ Len([i \in 1 .. n |-> e(i)]) = n
    BY <1>2, <2>1
  <2> QED
    BY <2>2 DEF e, Part
<1>4. \A i \in 1 .. n : Part(N, h, n, r)[i] = r[(h + i - 1) % N]
  BY DEF Part
<1>5. n = 0 => Part(N, h, n, r) = << >>
  BY <1>3, EmptySeq
<1> QED
  BY <1>3, <1>4, <1>5 DEF PartLaw

(* A letter behind the last one.                                            *)
LEMMA PartAppend ==
  ASSUME NEW N \in Nat \ {0}, NEW h \in 0 .. N - 1,
         NEW n \in 0 .. N - 1, NEW r \in [0 .. N - 1 -> Nat]
  PROVE  Part(N, h, n + 1, r) = Append(Part(N, h, n, r), r[(h + n) % N])
<1>1. n \in 0 .. N /\ n + 1 \in 0 .. N /\ n \in Nat
  OBVIOUS
<1>2. r[(h + n) % N] \in Nat
  BY <1>1, Around
<1>0. PartLaw(N, h, n, r) /\ PartLaw(N, h, n + 1, r)
  BY <1>1, PartSeq
<1> DEFINE s == Part(N, h, n, r)
           t == Part(N, h, n + 1, r)
           u == Append(s, r[(h + n) % N])
<1>3. s \in Seq(Nat) /\ Len(s) = n /\ \A i \in 1 .. n : s[i] = r[(h + i - 1) % N]
  BY <1>0 DEF PartLaw
<1>4. t \in Seq(Nat) /\ Len(t) = n + 1 /\ \A i \in 1 .. n + 1 : t[i] = r[(h + i - 1) % N]
  BY <1>0 DEF PartLaw
<1> HIDE DEF s, t
<1>5. u \in Seq(Nat) /\ Len(u) = n + 1 /\ (\A i \in 1 .. n : u[i] = s[i])
      /\ u[n + 1] = r[(h + n) % N]
  BY <1>2, <1>3, AppendProperties
<1> HIDE DEF u
<1>6. ASSUME NEW i \in 1 .. n + 1 PROVE t[i] = u[i]
  <2>1. CASE i = n + 1
    <3>1. h + i - 1 = h + n
      BY <2>1, <1>1
    <3> QED
      BY <3>1, <2>1, <1>4, <1>5
  <2>2. CASE i \in 1 .. n
    BY <2>2, <1>3, <1>4, <1>5
  <2> QED
    BY <2>1, <2>2, <1>1
<1>7. t = u
  BY <1>4, <1>5, <1>6, SeqEqual
<1> QED
  BY <1>7 DEF t, u, s

(* The first letter gone.                                                   *)
LEMMA PartTail ==
  ASSUME NEW N \in Nat \ {0}, NEW h \in 0 .. N - 1,
         NEW n \in 1 .. N, NEW r \in [0 .. N - 1 -> Nat]
  PROVE  /\ Part(N, h, n, r) # << >> /\ Head(Part(N, h, n, r)) = r[h]
         /\ Part(N, (h + 1) % N, n - 1, r) = Tail(Part(N, h, n, r))
<1>1. n \in 0 .. N /\ n - 1 \in 0 .. N /\ n - 1 \in Nat /\ N \in Nat \ {0} /\ h \in 0 .. N - 1
  OBVIOUS
<1>2. ((h + 1) % N) \in 0 .. N - 1 /\ ((h + 1) % N) = IF h + 1 < N THEN h + 1 ELSE h + 1 - N
  <2>1. 1 \in 0 .. N
    BY <1>1
  <2> QED
    BY <2>1, Around
<1>0. PartLaw(N, h, n, r) /\ PartLaw(N, (h + 1) % N, n - 1, r)
  BY <1>1, <1>2, PartSeq
<1> DEFINE s == Part(N, h, n, r)
           t == Part(N, (h + 1) % N, n - 1, r)
<1>3. s \in Seq(Nat) /\ Len(s) = n /\ \A i \in 1 .. n : s[i] = r[(h + i - 1) % N]
  BY <1>0 DEF PartLaw
<1>4. /\ t \in Seq(Nat) /\ Len(t) = n - 1
      /\ \A i \in 1 .. n - 1 : t[i] = r[(((h + 1) % N) + i - 1) % N]
  BY <1>0 DEF PartLaw
<1> HIDE DEF s, t
<1>5. s # << >>
  BY <1>1, <1>3
<1>6. s[1] = r[h]
  <2>1. 1 \in 1 .. n /\ h + 1 - 1 = h
    BY <1>1
  <2>2. h < N /\ h % N = h
    BY <1>1
  <2> QED
    BY <2>1, <2>2, <1>3
<1>7. Tail(s) \in Seq(Nat) /\ Len(Tail(s)) = n - 1 /\ \A i \in 1 .. n - 1 : Tail(s)[i] = s[i + 1]
  BY <1>3, <1>5, HeadTailProperties
<1>8. ASSUME NEW i \in 1 .. n - 1 PROVE t[i] = Tail(s)[i]
  <2>1. /\ i \in 0 .. N /\ i - 1 \in 0 .. N /\ i + 1 \in 1 .. n
        /\ h + (i + 1) - 1 = h + i /\ ((h + 1) % N) + i - 1 = ((h + 1) % N) + (i - 1)
    BY <1>1, <1>2
  <2>2. (h + i) % N = IF h + i < N THEN h + i ELSE h + i - N
    BY <2>1, Around
  <2>3. (((h + 1) % N) + (i - 1)) % N =
           IF ((h + 1) % N) + (i - 1) < N THEN ((h + 1) % N) + (i - 1) ELSE ((h + 1) % N) + (i - 1) - N
    BY <2>1, <1>2, Around
  <2>4. (((h + 1) % N) + (i - 1)) % N = (h + i) % N
    <3> DEFINE g == (h + 1) % N
    <3>1. g = IF h + 1 < N THEN h + 1 ELSE h + 1 - N
      BY <1>2
    <3>2. (g + (i - 1)) % N = IF g + (i - 1) < N THEN g + (i - 1) ELSE g + (i - 1) - N
      BY <2>3
    <3> HIDE DEF g
    <3>3. (g + (i - 1)) % N = (h + i) % N
      BY <3>1, <3>2, <2>2, <1>1
    <3> QED
      BY <3>3 DEF g
  <2>5. s[i + 1] = r[(h + (i + 1) - 1) % N] /\ t[i] = r[(((h + 1) % N) + i - 1) % N]
    BY <2>1, <1>3, <1>4
  <2>6. s[i + 1] = r[(h + i) % N] /\ t[i] = r[(((h + 1) % N) + (i - 1)) % N]
    BY <2>1, <2>5
  <2> QED
    BY <2>4, <2>6, <1>7
<1>9. t = Tail(s)
  BY <1>4, <1>7, <1>8, SeqEqual
<1> QED
  BY <1>3, <1>5, <1>6, <1>9, HeadTailProperties DEF s, t

(* A store behind the last letter changes none of them.                     *)
LEMMA PartStore ==
  ASSUME NEW N \in Nat \ {0}, NEW h \in 0 .. N - 1, NEW n \in 0 .. N - 1,
         NEW r \in [0 .. N - 1 -> Nat], NEW q \in [0 .. N - 1 -> Nat],
         \A j \in 0 .. N - 1 : j # (h + n) % N => q[j] = r[j]
  PROVE  Part(N, h, n, q) = Part(N, h, n, r)
<1> DEFINE p == (h + n) % N
<1>1. n \in 0 .. N /\ n \in Nat /\ N \in Nat \ {0} /\ h \in 0 .. N - 1
  OBVIOUS
<1>2. p = IF h + n < N THEN h + n ELSE h + n - N
  BY <1>1, Around
<1>3. ASSUME NEW i \in 1 .. n PROVE q[(h + i - 1) % N] = r[(h + i - 1) % N]
  <2>1. i - 1 \in 0 .. N /\ h + i - 1 = h + (i - 1)
    BY <1>1
  <2>2. (h + (i - 1)) % N = IF h + (i - 1) < N THEN h + (i - 1) ELSE h + (i - 1) - N
    BY <2>1, Around
  <2>3. (h + (i - 1)) % N \in 0 .. N - 1
    BY <2>1, Around
  <2> DEFINE m == (h + (i - 1)) % N
  <2> HIDE DEF p, m
  <2>4. m = IF h + (i - 1) < N THEN h + (i - 1) ELSE h + (i - 1) - N
    BY <2>2 DEF m
  <2>5. m # p
    BY <2>4, <1>1, <1>2
  <2> QED
    BY <2>1, <2>3, <2>5 DEF p, m
<1> QED
  BY <1>3 DEF Part

(* A letter x stored behind the last one is appended.                       *)
LEMMA PartPut ==
  ASSUME NEW N \in Nat \ {0}, NEW h \in 0 .. N - 1,
         NEW n \in 0 .. N - 1, NEW r \in [0 .. N - 1 -> Nat], NEW x \in Nat
  PROVE  Part(N, h, n + 1, [r EXCEPT ![(h + n) % N] = x]) = Append(Part(N, h, n, r), x)
<1> DEFINE q == [r EXCEPT ![(h + n) % N] = x]
<1>1. (h + n) % N \in 0 .. N - 1
  BY Around
<1>2. q \in [0 .. N - 1 -> Nat] /\ q[(h + n) % N] = x
  BY <1>1
<1>3. \A j \in 0 .. N - 1 : j # (h + n) % N => q[j] = r[j]
  OBVIOUS
<1> HIDE DEF q
<1>5. Part(N, h, n, q) = Part(N, h, n, r)
  BY ZenonT(60), <1>2, <1>3, PartStore
<1>4. Part(N, h, n + 1, q) = Append(Part(N, h, n, q), q[(h + n) % N])
  BY <1>2, PartAppend
<1> QED
  BY <1>2, <1>4, <1>5 DEF q
=============================================================================
