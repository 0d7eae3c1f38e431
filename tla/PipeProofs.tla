----------------------------- MODULE PipeProofs -----------------------------
(***************************************************************************)
(* The pipe, for every size of the ring, every length of the calls and     *)
(* every amount of data: the counter is exact even if the two tasks        *)
(* preempt each other inside a call, and without that the ring implements  *)
(* the FIFO of Fifo.tla.                                                   *)
(***************************************************************************)
EXTENDS Pipe, TLAPS

-----------------------------------------------------------------------------
(* Sequences.                                                               *)

\* Sequences with the same elements are the same sequence.
LEMMA SameSeq ==
  ASSUME NEW S, NEW s \in Seq(S), NEW t \in Seq(S), Len(s) = Len(t),
         \A i \in 1 .. Len(s) : s[i] = t[i]
  PROVE  s = t
OBVIOUS

\* A sequence is a function on the first numbers.
LEMMA SeqTypes ==
  ASSUME NEW S, NEW s \in Seq(S)
  PROVE  Len(s) \in Nat /\ s \in [1 .. Len(s) -> S] /\ DOMAIN s = 1 .. Len(s)
OBVIOUS

\* The elements of a concatenation.
LEMMA JoinSeq ==
  ASSUME NEW S, NEW s \in Seq(S), NEW t \in Seq(S)
  PROVE  /\ s \o t \in Seq(S) /\ Len(s \o t) = Len(s) + Len(t)
         /\ \A i \in 1 .. Len(s) + Len(t) :
              (s \o t)[i] = IF i <= Len(s) THEN s[i] ELSE t[i - Len(s)]
OBVIOUS

\* The elements of a part.
LEMMA CutSeq ==
  ASSUME NEW S, NEW s, NEW a \in Int, NEW b \in Int, \A i \in a .. b : s[i] \in S
  PROVE  /\ SubSeq(s, a, b) \in Seq(S)
         /\ Len(SubSeq(s, a, b)) = IF a <= b THEN b - a + 1 ELSE 0
         /\ \A i \in 1 .. b - a + 1 : SubSeq(s, a, b)[i] = s[a + i - 1]
OBVIOUS

-----------------------------------------------------------------------------
(* The counter.                                                             *)

\* refs_r and refs_w count the ends that the shell and the tasks hold.
RefsRight ==
  /\ refs_r = (IF "r" \in shell THEN 1 ELSE 0) + (IF rpc = "closed" THEN 0 ELSE 1)
  /\ refs_w = (IF "w" \in shell THEN 1 ELSE 0) + (IF wpc = "closed" THEN 0 ELSE 1)

\* What the local variables of the two calls are worth at each point: a reader
\* never takes more than there is, a writer never more than it has and there
\* is room for.
CallsRight ==
  /\ rpc # "store" => todo = {}
  /\ rpc \in {"check", "empty", "wait", "copy"} => rmax >= 1
  /\ rpc = "copy" => n >= 1 /\ n <= count
  /\ "count" \in todo => n <= count
  /\ wpc \notin {"idle", "closed"} => left >= 1 /\ sent + left <= Total
  /\ wpc \in {"place", "copy", "add"} => free >= 1 /\ free <= left

PipeInv == TypeOK /\ RefsRight /\ CallsRight /\ CountExact

-----------------------------------------------------------------------------
\* The pipe starts empty, with both ends held twice.
LEMMA PipeInvInit == Init => PipeInv
<1> SUFFICES ASSUME Init PROVE PipeInv
  OBVIOUS
<1> USE PipeAssumption DEF Init
<1>1. TypeOK
  <2>1. preempt \in BOOLEAN
    OBVIOUS
  <2>2. got \in Seq(0 .. Total)
    OBVIOUS
  <2> QED BY <2>1, <2>2 DEF TypeOK, Pos
<1>2. RefsRight /\ CallsRight
  BY DEF RefsRight, CallsRight
<1>3. CountExact
  <2>1. /\ Len(got) = 0 /\ count = 0 /\ sent = 0 /\ "count" \notin todo
        /\ wpc \notin {"place", "copy", "add"} /\ Size \in Nat
    OBVIOUS
  <2> HIDE DEF Init
  <2> QED BY <2>1 DEF CountExact
<1> QED BY <1>1, <1>2, <1>3 DEF PipeInv

\* The smaller of two numbers.
LEMMA LeastFacts ==
  ASSUME NEW a \in Nat, NEW b \in Nat
  PROVE  /\ Least(a, b) \in Nat /\ Least(a, b) <= a /\ Least(a, b) <= b
         /\ a >= 1 /\ b >= 1 => Least(a, b) >= 1
BY DEF Least

\* Positions in the ring.
LEMMA RingPos ==
  ASSUME NEW a \in Nat
  PROVE  /\ a % Size \in Pos
         /\ a < Size => a % Size = a
         /\ a >= Size /\ a < 2 * Size => a % Size = a - Size
<1>1. Size \in Nat \ {0}
  BY PipeAssumption
<1>2. a % Size \in 0 .. Size - 1
  BY <1>1
<1>3. a < Size => a % Size = a
  BY <1>1
<1>4. a >= Size /\ a < 2 * Size => a % Size = a - Size
  BY <1>1
<1> QED BY <1>2, <1>3, <1>4 DEF Pos

\* A function on 1 .. m is a sequence of length m.
LEMMA FunctionIsSeq ==
  ASSUME NEW S, NEW m \in Nat, NEW f \in [1 .. m -> S]
  PROVE  f \in Seq(S) /\ Len(f) = m
<1>1. f \in Seq(S)
  OBVIOUS
<1>2. DOMAIN f = 1 .. m
  OBVIOUS
<1> QED BY <1>1, <1>2

\* What a copy of ReadCopy takes: n bytes, appended to what was got.
LEMMA CopyFacts ==
  ASSUME TypeOK
  PROVE  LET s == [i \in 1 .. n |-> buf[(head + i - 1) % Size]]
         IN  s \in Seq(0 .. Total) /\ Len(s) = n
<1> DEFINE s == [i \in 1 .. n |-> buf[(head + i - 1) % Size]]
<1>1. n \in Nat
  BY PipeAssumption DEF TypeOK
<1>2. ASSUME NEW i \in 1 .. n PROVE buf[(head + i - 1) % Size] \in 0 .. Total
  <2>1. head + i - 1 \in Nat
    BY <1>1, PipeAssumption DEF TypeOK, Pos
  <2>2. (head + i - 1) % Size \in Pos
    BY <2>1, RingPos
  <2> QED BY <2>2 DEF TypeOK
<1>3. s \in [1 .. n -> 0 .. Total]
  BY <1>2
<1>4. s \in Seq(0 .. Total) /\ Len(s) = n
  BY <1>1, <1>3, FunctionIsSeq
<1> QED BY Zenon, <1>4

\* The reader: a read call starts.
LEMMA ReadCallInv ==
  ASSUME PipeInv, NEW k \in 1 .. MaxCount, ReadCall(k), UNCHANGED <<preempt, shell, wVars>>
  PROVE  PipeInv'
<1> USE PipeAssumption DEF PipeInv, ReadCall, pipeVars, wVars
<1>1. TypeOK'
  BY DEF TypeOK
<1>2. RefsRight'
  BY DEF TypeOK, RefsRight
<1>3. CallsRight'
  BY DEF TypeOK, CallsRight, CountExact
<1>4. CountExact'
  BY DEF TypeOK, CountExact, CallsRight
<1> QED BY <1>1, <1>2, <1>3, <1>4

\* The reader: it looks at count.
LEMMA ReadCheckInv ==
  ASSUME PipeInv, ReadCheck, UNCHANGED <<preempt, shell, wVars>>
  PROVE  PipeInv'
<1> USE PipeAssumption DEF PipeInv, ReadCheck, pipeVars, wVars
<1>1. TypeOK'
  <2>1. rmax \in Nat /\ count \in Nat /\ count <= Size
    BY DEF TypeOK
  <2>2. Least(rmax, count) \in Nat /\ Least(rmax, count) <= count
    BY <2>1, LeastFacts
  <2> QED BY <2>1, <2>2 DEF TypeOK
<1>2. RefsRight'
  BY DEF TypeOK, RefsRight
<1>3. CallsRight'
  <2>1. rmax \in Nat /\ count \in Nat
    BY DEF TypeOK
  <2>2. Least(rmax, count) <= count /\ (rmax >= 1 /\ count >= 1 => Least(rmax, count) >= 1)
    BY <2>1, LeastFacts
  <2> QED BY <2>1, <2>2 DEF TypeOK, CallsRight
<1>4. CountExact'
  BY DEF TypeOK, CountExact, CallsRight
<1> QED BY <1>1, <1>2, <1>3, <1>4

\* The reader: it finds the pipe empty.
LEMMA ReadEmptyInv ==
  ASSUME PipeInv, ReadEmpty, UNCHANGED <<preempt, shell, wVars>>
  PROVE  PipeInv'
<1> USE PipeAssumption DEF PipeInv, ReadEmpty, pipeVars, wVars
<1>1. TypeOK'
  BY Zenon DEF TypeOK, RefsRight, CallsRight, CountExact, Least, Pos
<1>2. RefsRight'
  BY DEF TypeOK, RefsRight
<1>3. CallsRight'
  BY DEF TypeOK, CallsRight, CountExact
<1>4. CountExact'
  BY DEF TypeOK, CountExact, CallsRight
<1> QED BY <1>1, <1>2, <1>3, <1>4

\* The reader: it wakes up.
LEMMA ReadWakeInv ==
  ASSUME PipeInv, ReadWake, UNCHANGED <<preempt, shell, wVars>>
  PROVE  PipeInv'
<1> USE PipeAssumption DEF PipeInv, ReadWake, pipeVars, wVars
<1>1. TypeOK'
  BY DEF TypeOK
<1>2. RefsRight'
  BY DEF TypeOK, RefsRight
<1>3. CallsRight'
  BY DEF TypeOK, CallsRight, CountExact
<1>4. CountExact'
  BY DEF TypeOK, CountExact, CallsRight
<1> QED BY <1>1, <1>2, <1>3, <1>4

\* The reader: it copies.
LEMMA ReadCopyInv ==
  ASSUME PipeInv, ReadCopy, UNCHANGED <<preempt, shell, wVars>>
  PROVE  PipeInv'
<1> USE PipeAssumption DEF PipeInv, ReadCopy, pipeVars, wVars
<1>1. TypeOK'
  <2>1. got' \in Seq(0 .. Total)
    BY CopyFacts DEF TypeOK
  <2> QED BY <2>1 DEF TypeOK
<1>2. RefsRight'
  BY DEF TypeOK, RefsRight
<1>3. CallsRight'
  BY DEF TypeOK, CallsRight, CountExact
<1>4. CountExact'
  <2>1. Len(got') = Len(got) + n
    BY CopyFacts, JoinSeq DEF TypeOK
  <2>2. todo = {} /\ todo' = {"head", "count"}
    BY DEF CallsRight
  <2>3. Len(got) \in Nat
    BY SeqTypes DEF TypeOK
  <2> QED BY <2>1, <2>2, <2>3 DEF TypeOK, CountExact
<1> QED BY <1>1, <1>2, <1>3, <1>4

\* The reader: it stores head and count.
LEMMA ReadStoreInv ==
  ASSUME PipeInv, NEW x \in {"head", "count"}, ReadStore(x), UNCHANGED <<preempt, shell, wVars>>
  PROVE  PipeInv'
<1> USE PipeAssumption DEF PipeInv, ReadStore, pipeVars, wVars
<1>1. TypeOK'
  <2>1. head + n \in Nat
    BY DEF TypeOK, Pos
  <2>2. (head + n) % Size \in Pos
    BY <2>1, RingPos
  <2>3. x = "count" => count - n \in 0 .. Size
    BY DEF TypeOK, CallsRight
  <2> QED BY <2>2, <2>3 DEF TypeOK
<1>2. RefsRight'
  BY DEF TypeOK, RefsRight
<1>3. CallsRight'
  BY DEF TypeOK, CallsRight, CountExact
<1>4. CountExact'
  <2>1. Len(got) \in Nat
    BY SeqTypes DEF TypeOK
  <2>2. CASE x = "head"
    BY <2>1, <2>2 DEF TypeOK, CountExact
  <2>3. CASE x = "count"
    <3>1. "count" \in todo /\ "count" \notin todo' /\ count' = count - n
      BY <2>3
    <3>2. wpc' = wpc /\ free' = free /\ sent' = sent /\ got' = got
      OBVIOUS
    <3>3. /\ count = sent - Len(got) + n
          /\ count + (IF wpc \in {"place", "copy", "add"} THEN free ELSE 0) <= Size
      BY <3>1 DEF CountExact
    <3> HIDE DEF ReadStore
    <3> QED BY <2>1, <3>1, <3>2, <3>3 DEF TypeOK, CountExact
  <2> QED BY <2>2, <2>3
<1> QED BY <1>1, <1>2, <1>3, <1>4

\* The reader: the reader closes.
LEMMA ReadCloseInv ==
  ASSUME PipeInv, ReadClose, UNCHANGED <<preempt, shell, wVars>>
  PROVE  PipeInv'
<1> USE PipeAssumption DEF PipeInv, ReadClose, pipeVars, wVars
<1>1. TypeOK'
  BY DEF TypeOK, RefsRight
<1>2. RefsRight'
  BY DEF TypeOK, RefsRight
<1>3. CallsRight'
  BY DEF TypeOK, CallsRight, CountExact
<1>4. CountExact'
  BY DEF TypeOK, CountExact, CallsRight
<1> QED BY <1>1, <1>2, <1>3, <1>4

\* The writer: a write call starts.
LEMMA WriteCallInv ==
  ASSUME PipeInv, NEW k \in 1 .. MaxCount, WriteCall(k), UNCHANGED <<preempt, shell, rVars>>
  PROVE  PipeInv'
<1> USE PipeAssumption DEF PipeInv, WriteCall, pipeVars, rVars
<1>1. TypeOK'
  BY DEF TypeOK
<1>2. RefsRight'
  BY DEF TypeOK, RefsRight
<1>3. CallsRight'
  BY DEF TypeOK, CallsRight, CountExact
<1>4. CountExact'
  BY DEF TypeOK, CountExact, CallsRight
<1> QED BY <1>1, <1>2, <1>3, <1>4

\* The writer: it looks for a reader.
LEMMA WriteCheckInv ==
  ASSUME PipeInv, WriteCheck, UNCHANGED <<preempt, shell, rVars>>
  PROVE  PipeInv'
<1> USE PipeAssumption DEF PipeInv, WriteCheck, pipeVars, rVars
<1>1. TypeOK'
  BY Zenon DEF TypeOK, RefsRight, CallsRight, CountExact, Least, Pos
<1>2. RefsRight'
  BY DEF TypeOK, RefsRight
<1>3. CallsRight'
  BY DEF TypeOK, CallsRight, CountExact
<1>4. CountExact'
  BY DEF TypeOK, CountExact, CallsRight
<1> QED BY <1>1, <1>2, <1>3, <1>4

\* The writer: it looks for room.
LEMMA WriteRoomInv ==
  ASSUME PipeInv, WriteRoom, UNCHANGED <<preempt, shell, rVars>>
  PROVE  PipeInv'
<1> USE PipeAssumption DEF PipeInv, WriteRoom, pipeVars, rVars
<1>1. TypeOK'
  <2>1. left \in Nat /\ count \in Nat /\ count <= Size /\ Size \in Nat
    BY DEF TypeOK
  <2>2. Least(left, Size - count) \in Nat /\ Least(left, Size - count) <= Size
    BY <2>1, LeastFacts
  <2>3. free' \in 0 .. Size /\ wpos' \in Pos
    <3>1. CASE count = Size
      BY <3>1 DEF TypeOK
    <3>2. CASE count # Size
      <4>1. free' = Least(left, Size - count) /\ wpos' = count
        BY <3>2
      <4> QED BY <2>1, <2>2, <3>2, <4>1 DEF Pos
    <3> QED BY <3>1, <3>2
  <2>4. wpc' \in {"wait", "place"}
    OBVIOUS
  <2> QED BY <2>3, <2>4 DEF TypeOK
<1>2. RefsRight'
  BY DEF TypeOK, RefsRight
<1>3. CallsRight'
  <2>1. left \in Nat /\ count \in Nat /\ count <= Size /\ Size \in Nat
    BY DEF TypeOK
  <2>2. count # Size => Least(left, Size - count) <= left
                          /\ (left >= 1 => Least(left, Size - count) >= 1)
    BY <2>1, LeastFacts
  <2> QED BY <2>1, <2>2 DEF CallsRight
<1>4. CountExact'
  <2>1. left \in Nat /\ count \in Nat /\ count <= Size /\ Size \in Nat
    BY DEF TypeOK
  <2>2. Least(left, Size - count) \in Nat /\ Least(left, Size - count) <= Size - count
    BY <2>1, LeastFacts
  <2> QED BY <2>1, <2>2 DEF CountExact
<1> QED BY <1>1, <1>2, <1>3, <1>4

\* The writer: it wakes up.
LEMMA WriteWakeInv ==
  ASSUME PipeInv, WriteWake, UNCHANGED <<preempt, shell, rVars>>
  PROVE  PipeInv'
<1> USE PipeAssumption DEF PipeInv, WriteWake, pipeVars, rVars
<1>1. TypeOK'
  BY DEF TypeOK
<1>2. RefsRight'
  BY DEF TypeOK, RefsRight
<1>3. CallsRight'
  BY DEF TypeOK, CallsRight, CountExact
<1>4. CountExact'
  BY DEF TypeOK, CountExact, CallsRight
<1> QED BY <1>1, <1>2, <1>3, <1>4

\* The writer: it computes the place.
LEMMA WritePlaceInv ==
  ASSUME PipeInv, WritePlace, UNCHANGED <<preempt, shell, rVars>>
  PROVE  PipeInv'
<1> USE PipeAssumption DEF PipeInv, WritePlace, pipeVars, rVars
<1>1. TypeOK'
  BY DEF TypeOK, Pos
<1>2. RefsRight'
  BY DEF TypeOK, RefsRight
<1>3. CallsRight'
  BY DEF TypeOK, CallsRight, CountExact
<1>4. CountExact'
  BY DEF TypeOK, CountExact, CallsRight
<1> QED BY <1>1, <1>2, <1>3, <1>4

\* The writer: it copies.
LEMMA WriteCopyInv ==
  ASSUME PipeInv, WriteCopy, UNCHANGED <<preempt, shell, rVars>>
  PROVE  PipeInv'
<1> USE PipeAssumption DEF PipeInv, WriteCopy, pipeVars, rVars
<1>1. TypeOK'
  BY DEF TypeOK, CallsRight, Pos
<1>2. RefsRight'
  BY DEF TypeOK, RefsRight
<1>3. CallsRight'
  BY DEF TypeOK, CallsRight, CountExact
<1>4. CountExact'
  BY DEF TypeOK, CountExact, CallsRight
<1> QED BY <1>1, <1>2, <1>3, <1>4

\* The writer: it stores count.
LEMMA WriteAddInv ==
  ASSUME PipeInv, WriteAdd, UNCHANGED <<preempt, shell, rVars>>
  PROVE  PipeInv'
<1> USE PipeAssumption DEF PipeInv, WriteAdd, pipeVars, rVars
<1>1. TypeOK'
  <2>1. count + free \in 0 .. Size /\ left - free \in 0 .. MaxCount /\ sent + free \in 0 .. Total
    BY DEF TypeOK, CallsRight, CountExact
  <2> QED BY <2>1 DEF TypeOK
<1>2. RefsRight'
  BY DEF TypeOK, RefsRight
<1>3. CallsRight'
  BY DEF TypeOK, CallsRight, CountExact
<1>4. CountExact'
  BY DEF TypeOK, CountExact, CallsRight
<1> QED BY <1>1, <1>2, <1>3, <1>4

\* The writer: the writer closes.
LEMMA WriteCloseInv ==
  ASSUME PipeInv, WriteClose, UNCHANGED <<preempt, shell, rVars>>
  PROVE  PipeInv'
<1> USE PipeAssumption DEF PipeInv, WriteClose, pipeVars, rVars
<1>1. TypeOK'
  BY DEF TypeOK, RefsRight
<1>2. RefsRight'
  BY DEF TypeOK, RefsRight
<1>3. CallsRight'
  BY DEF TypeOK, CallsRight, CountExact
<1>4. CountExact'
  BY DEF TypeOK, CountExact, CallsRight
<1> QED BY <1>1, <1>2, <1>3, <1>4

\* The shell closes its copy of an end.
LEMMA ShellCloseInv ==
  ASSUME PipeInv, NEW e \in {"r", "w"}, ShellClose(e)
  PROVE  PipeInv'
<1> USE PipeAssumption DEF PipeInv, ShellClose, rVars, wVars
<1>1. TypeOK'
  BY DEF TypeOK, RefsRight
<1>2. RefsRight'
  BY DEF TypeOK, RefsRight
<1>3. CallsRight' /\ CountExact'
  BY DEF CallsRight, CountExact
<1> QED BY <1>1, <1>2, <1>3

\* The steps of the reader, of the writer and of the shell.
LEMMA PipeInvStep == PipeInv /\ [Next]_vars => PipeInv'
<1> SUFFICES ASSUME PipeInv, [Next]_vars PROVE PipeInv'
  OBVIOUS
<1>1. CASE Reader
  BY <1>1, ReadCallInv, ReadCheckInv, ReadEmptyInv, ReadWakeInv, ReadCopyInv, ReadStoreInv,
     ReadCloseInv
  DEF Reader, ReadStep, ReadProgram
<1>2. CASE Writer
  BY <1>2, WriteCallInv, WriteCheckInv, WriteRoomInv, WriteWakeInv, WritePlaceInv, WriteCopyInv,
     WriteAddInv, WriteCloseInv
  DEF Writer, WriteStep, WriteProgram
<1>3. ASSUME NEW e \in {"r", "w"}, ShellClose(e) PROVE PipeInv'
  BY <1>3, ShellCloseInv
<1>4. CASE UNCHANGED vars
  <2>1. TypeOK'
    BY <1>4 DEF vars, PipeInv, TypeOK
  <2>2. RefsRight'
    BY <1>4 DEF vars, PipeInv, RefsRight
  <2>3. CallsRight'
    BY <1>4 DEF vars, PipeInv, CallsRight
  <2>4. CountExact'
    BY <1>4 DEF vars, PipeInv, CountExact
  <2> QED BY <2>1, <2>2, <2>3, <2>4 DEF PipeInv
<1> QED BY <1>1, <1>2, <1>3, <1>4 DEF Next

\* PipeInv holds in every reachable state, with preemption and without.
LEMMA PipeInvAlways == Spec => []PipeInv
BY PipeInvInit, PipeInvStep, PTL DEF Spec

\* The pipe's state has its types: head stays in the ring, count within it.
LEMMA PipeTypes == Spec => []TypeOK
BY PipeInvAlways, PTL DEF PipeInv

\* p->count is the number of bytes in flight, also when the two tasks preempt
\* each other between load and store, and the ring never overflows.
LEMMA CountIsExact == Spec => []CountExact
BY PipeInvAlways, PTL DEF PipeInv

-----------------------------------------------------------------------------
(* Without ticks inside a call.                                             *)

\* Where the next read starts and how much there is, once the reader's two
\* stores count as done.
ReadAt == IF "head" \in todo THEN head + n ELSE head
Held == IF "count" \in todo THEN count - n ELSE count

\* At most one of the two is inside a call; what it loaded is still true; the
\* ring holds the bytes sent and not yet got, in order.
Quiet ==
  /\ rpc \in Outside \/ wpc \in Outside
  /\ rpc = "empty" => count = 0
  /\ "head" \in todo => n + Held <= Size
  /\ wpc \in {"room", "place", "copy", "add"} => refs_r > 0
  /\ wpc = "place" => wpos = count
  /\ wpc \in {"copy", "add"} => wpos = (head + count) % Size
  /\ wpc = "add" => \A i \in 0 .. free - 1 : buf[(head + count + i) % Size] = sent + i + 1
  /\ \A i \in 1 .. Held : buf[(ReadAt + i - 1) % Size] = Len(got) + i
  /\ InOrder
  /\ eof => refs_w = 0 /\ Len(got) = sent

\* Numbers of the invariant: what is held is what was sent and not got.
Numbers ==
  /\ Len(got) \in Nat /\ sent \in Nat /\ Held \in Nat /\ Held <= Size
  /\ Held = sent - Len(got) /\ head \in Nat /\ head < Size /\ n \in Nat
  /\ count \in Nat /\ count <= Size /\ Size \in Nat \ {0}

\* The invariant gives them.
LEMMA HeldFacts == PipeInv => Numbers
<1> SUFFICES ASSUME PipeInv PROVE Numbers
  OBVIOUS
<1>1. Len(got) \in Nat
  BY SeqTypes DEF PipeInv, TypeOK
<1> QED BY <1>1, PipeAssumption DEF PipeInv, TypeOK, CountExact, CallsRight, Held, Pos, Numbers

\* Two steps around the ring are one.
LEMMA RingTwice ==
  ASSUME NEW a \in Nat, NEW i \in Nat, i < Size, a + i < 2 * Size
  PROVE  ((a % Size) + i) % Size = (a + i) % Size
<1> DEFINE m == a % Size
<1>1. Size \in Nat \ {0}
  BY PipeAssumption
<1>2. m = IF a < Size THEN a ELSE a - Size
  BY <1>1, RingPos
<1>3. CASE a < Size
  BY <1>2, <1>3
<1>4. CASE a >= Size
  <2>1. m = a - Size
    BY <1>2, <1>4, <1>1
  <2> HIDE DEF m
  <2>2. m + i \in Nat /\ m + i < Size /\ a + i \in Nat /\ a + i >= Size
        /\ m + i = (a + i) - Size /\ a + i < 2 * Size
    BY <1>1, <1>4, <2>1
  <2>3. (m + i) % Size = m + i
    BY <2>2, RingPos
  <2>4. (a + i) % Size = (a + i) - Size
    <3> DEFINE b == a + i
    <3> HIDE DEF b
    <3>1. b \in Nat /\ b >= Size /\ b < 2 * Size
      BY <2>2 DEF b
    <3>2. b % Size = b - Size
      BY <3>1, RingPos
    <3> QED BY <3>2 DEF b
  <2>5. (m + i) % Size = (a + i) % Size
    BY <2>2, <2>3, <2>4
  <2> QED BY <2>5 DEF m
<1> QED BY <1>1, <1>3, <1>4

\* How far the i-th place after h lies behind the c-th one, around the ring.
LEMMA RingGap ==
  ASSUME NEW h \in Pos, NEW c \in 0 .. Size, NEW i \in Nat, i < Size
  PROVE  (((h + i) % Size) - ((h + c) % Size) + Size) % Size
           = IF i >= c THEN i - c ELSE i - c + Size
<1> DEFINE p == (h + i) % Size
           w == (h + c) % Size
           g == p - w + Size
<1>1. Size \in Nat \ {0} /\ h \in Nat /\ h < Size /\ c \in Nat /\ c <= Size
  BY PipeAssumption DEF Pos
<1>2. p = (IF h + i < Size THEN h + i ELSE h + i - Size) /\ p \in Pos
  <2>1. h + i \in Nat /\ h + i < 2 * Size
    BY <1>1
  <2> QED BY <1>1, <2>1, RingPos
<1>3. w = (IF h + c < Size THEN h + c ELSE h + c - Size) /\ w \in Pos
  <2>1. h + c \in Nat /\ h + c < 2 * Size
    BY <1>1
  <2> QED BY <1>1, <2>1, RingPos
<1> HIDE DEF p, w
<1>4. g \in Nat /\ g < 2 * Size
  BY <1>1, <1>2, <1>3 DEF Pos
<1>5. g % Size = IF g < Size THEN g ELSE g - Size
  <2> HIDE DEF g
  <2> QED BY <1>1, <1>4, RingPos
<1>6. (IF g < Size THEN g ELSE g - Size) = IF i >= c THEN i - c ELSE i - c + Size
  BY <1>1, <1>2, <1>3 DEF Pos
<1>7. g % Size = IF i >= c THEN i - c ELSE i - c + Size
  <2> HIDE DEF g
  <2> QED BY <1>5, <1>6
<1> QED BY <1>7 DEF g, p, w

\* Initially nothing is held.
LEMMA QuietInit == Init => Quiet
<1> SUFFICES ASSUME Init PROVE Quiet
  OBVIOUS
<1>1. /\ rpc = "idle" /\ wpc = "idle" /\ todo = {} /\ count = 0 /\ Len(got) = 0 /\ ~eof
  BY DEF Init
<1>2. Held = 0
  BY <1>1 DEF Held
<1> QED BY <1>1, <1>2 DEF Quiet, Outside, InOrder

\* A read call starts.
LEMMA ReadCallQuiet ==
  ASSUME PipeInv, PipeInv', Quiet, NEW k \in 1 .. MaxCount, ReadCall(k), wpc \in Outside,
         UNCHANGED <<preempt, shell, wVars>>
  PROVE  Quiet'
<1>1. todo = {} /\ todo' = {} /\ UNCHANGED <<buf, head, count, refs_r, refs_w, got, sent, eof>>
  BY DEF ReadCall, pipeVars, wVars, PipeInv, CallsRight
<1>2. Held' = Held /\ ReadAt' = ReadAt
  BY <1>1 DEF Held, ReadAt
<1> QED BY <1>1, <1>2 DEF ReadCall, pipeVars, wVars, Quiet, Outside, InOrder

\* It looks at count.
LEMMA ReadCheckQuiet ==
  ASSUME PipeInv, PipeInv', Quiet, ReadCheck, wpc \in Outside,
         UNCHANGED <<preempt, shell, wVars>>
  PROVE  Quiet'
<1>1. todo = {} /\ todo' = {} /\ UNCHANGED <<buf, head, count, refs_r, refs_w, got, sent, eof>>
  BY DEF ReadCheck, pipeVars, wVars, PipeInv, CallsRight
<1>2. Held' = Held /\ ReadAt' = ReadAt
  BY <1>1 DEF Held, ReadAt
<1> QED BY <1>1, <1>2 DEF ReadCheck, pipeVars, wVars, Quiet, Outside, InOrder

\* It wakes up.
LEMMA ReadWakeQuiet ==
  ASSUME PipeInv, PipeInv', Quiet, ReadWake, wpc \in Outside,
         UNCHANGED <<preempt, shell, wVars>>
  PROVE  Quiet'
<1>1. todo = {} /\ todo' = {} /\ UNCHANGED <<buf, head, count, refs_r, refs_w, got, sent, eof>>
  BY DEF ReadWake, pipeVars, wVars, PipeInv, CallsRight
<1>2. Held' = Held /\ ReadAt' = ReadAt
  BY <1>1 DEF Held, ReadAt
<1> QED BY <1>1, <1>2 DEF ReadWake, pipeVars, wVars, Quiet, Outside, InOrder

\* An empty pipe: end-of-file if nobody can write, and then all was read.
LEMMA ReadEmptyQuiet ==
  ASSUME PipeInv, PipeInv', Quiet, ReadEmpty, wpc \in Outside,
         UNCHANGED <<preempt, shell, wVars>>
  PROVE  Quiet'
<1>0. Numbers
  BY HeldFacts
<1>1. /\ todo = {} /\ todo' = {} /\ rpc = "empty"
      /\ UNCHANGED <<buf, head, count, refs_r, refs_w, got, sent>>
  BY DEF ReadEmpty, pipeVars, wVars, PipeInv, CallsRight
<1>2. Held' = Held /\ ReadAt' = ReadAt
  BY <1>1 DEF Held, ReadAt
<1>3. Len(got) = sent
  <2>1. count = 0 /\ Held = count
    BY <1>1 DEF Quiet, Held
  <2> QED BY <2>1, <1>0 DEF Numbers
<1> QED BY <1>1, <1>2, <1>3 DEF ReadEmpty, wVars, Quiet, Outside, InOrder

\* The copy takes the oldest bytes.
LEMMA ReadCopyQuiet ==
  ASSUME PipeInv, PipeInv', Quiet, ReadCopy, wpc \in Outside,
         UNCHANGED <<preempt, shell, wVars>>
  PROVE  Quiet'
<1>0. Numbers
  BY HeldFacts
<1> DEFINE s == [i \in 1 .. n |-> buf[(head + i - 1) % Size]]
<1>1. /\ todo = {} /\ todo' = {"head", "count"} /\ rpc = "copy" /\ rpc' = "store"
      /\ UNCHANGED <<buf, head, count, n, refs_r, refs_w, sent, eof, wpc>> /\ got' = got \o s
  BY DEF ReadCopy, pipeVars, wVars, PipeInv, CallsRight
<1>2. n \in Nat /\ n >= 1 /\ n <= count /\ Held = count /\ ReadAt = head
  BY <1>1, <1>0 DEF PipeInv, CallsRight, Held, ReadAt, Numbers
<1>3. Held' = count - n /\ ReadAt' = head + n
  BY <1>1 DEF Held, ReadAt
<1>4. s \in Seq(0 .. Total) /\ Len(s) = n /\ got \in Seq(0 .. Total)
  BY Zenon, CopyFacts DEF PipeInv, TypeOK
<1>5. ASSUME NEW i \in 1 .. n PROVE s[i] = Len(got) + i
  <2>1. i \in 1 .. Held
    BY <1>2, <1>0 DEF Numbers
  <2>2. buf[(ReadAt + i - 1) % Size] = Len(got) + i
    BY <2>1 DEF Quiet
  <2> QED BY <1>2, <2>2
<1> HIDE DEF s
<1>6. Len(got') = Len(got) + n
  <2>1. Len(got \o s) = Len(got) + Len(s)
    BY <1>4
  <2> QED BY <1>1, <1>4, <2>1
<1>7. InOrder'
  <2> SUFFICES ASSUME NEW i \in 1 .. Len(got) + n PROVE got'[i] = i
    BY <1>6 DEF InOrder
  <2>1. CASE i <= Len(got)
    BY <1>1, <1>4, <2>1, <1>0 DEF Quiet, InOrder, Numbers
  <2>2. CASE i > Len(got)
    <3>1. got'[i] = s[i - Len(got)]
      BY <1>1, <1>2, <1>4, <2>2, <1>0 DEF Numbers
    <3> QED BY <1>2, <1>5, <2>2, <3>1, <1>0 DEF Numbers
  <2> QED BY <2>1, <2>2, <1>0 DEF Numbers
<1>8. \A i \in 1 .. Held' : buf'[(ReadAt' + i - 1) % Size] = Len(got') + i
  <2> SUFFICES ASSUME NEW i \in 1 .. count - n
      PROVE  buf[(head + n + i - 1) % Size] = Len(got) + n + i
    BY <1>1, <1>3, <1>6
  <2>1. n + i \in 1 .. Held
    BY <1>2, <1>0 DEF Numbers
  <2>2. buf[(ReadAt + (n + i) - 1) % Size] = Len(got) + (n + i)
    BY <2>1 DEF Quiet
  <2>3. ReadAt + (n + i) - 1 = head + n + i - 1
    BY <1>2, <1>0 DEF Numbers
  <2>4. Len(got) + (n + i) = Len(got) + n + i
    BY <1>2, <1>0 DEF Numbers
  <2> QED BY <2>2, <2>3, <2>4
<1>9. n' + Held' <= Size
  BY <1>1, <1>2, <1>3, <1>0 DEF Numbers
<1>10. ~eof
  BY <1>2, <1>0 DEF Quiet, Numbers
<1> QED BY <1>1, <1>7, <1>8, <1>9, <1>10 DEF Quiet, Outside

\* Storing head or count changes neither what is held nor where.
LEMMA ReadStoreQuiet ==
  ASSUME PipeInv, PipeInv', Quiet, NEW x \in {"head", "count"}, ReadStore(x), wpc \in Outside,
         UNCHANGED <<preempt, shell, wVars>>
  PROVE  Quiet'
<1>0. Numbers
  BY HeldFacts
<1>1. /\ rpc = "store" /\ x \in todo /\ todo' = todo \ {x} /\ rpc' \in {"idle", "store"}
      /\ UNCHANGED <<n, got, eof, buf, refs_r, refs_w, sent, wpc>>
  BY DEF ReadStore, wVars
<1>2. CASE x = "count"
  <2>1. head' = head /\ count' = count - n /\ "count" \in todo /\ "count" \notin todo'
        /\ ("head" \in todo' <=> "head" \in todo)
    BY <1>1, <1>2 DEF ReadStore
  <2>2. Held' = Held /\ ReadAt' = ReadAt
    BY <1>1, <2>1 DEF Held, ReadAt
  <2> QED BY <1>1, <2>1, <2>2 DEF Quiet, Outside, InOrder
<1>3. CASE x = "head"
  <2>1. /\ head' = (head + n) % Size /\ count' = count /\ "head" \in todo /\ "head" \notin todo'
        /\ ("count" \in todo' <=> "count" \in todo)
    BY <1>1, <1>3 DEF ReadStore
  <2>2. Held' = Held /\ ReadAt = head + n /\ ReadAt' = (head + n) % Size
    BY <1>1, <2>1 DEF Held, ReadAt
  <2>3. n + Held <= Size
    BY <2>1 DEF Quiet
  <2>4. ASSUME NEW i \in 1 .. Held
        PROVE  (((head + n) % Size) + i - 1) % Size = (head + n + i - 1) % Size
    <3>1. /\ head + n \in Nat /\ i - 1 \in Nat /\ i - 1 < Size /\ head + n + (i - 1) < 2 * Size
          /\ head + n + (i - 1) = head + n + i - 1
      BY <2>3, <1>0 DEF Numbers
    <3>2. (((head + n) % Size) + (i - 1)) % Size = (head + n + (i - 1)) % Size
      BY <3>1, RingTwice
    <3>3. ((head + n) % Size) + (i - 1) = ((head + n) % Size) + i - 1
      <4>1. (head + n) % Size \in Nat
        BY <3>1, RingPos DEF Pos
      <4> QED BY <4>1
    <3> QED BY <3>1, <3>2, <3>3
  <2>5. \A i \in 1 .. Held' : buf'[(ReadAt' + i - 1) % Size] = Len(got') + i
    BY <1>1, <2>2, <2>4 DEF Quiet
  <2> QED BY <1>1, <2>1, <2>2, <2>5 DEF Quiet, Outside, InOrder
<1> QED BY <1>2, <1>3

\* The reader closes.
LEMMA ReadCloseQuiet ==
  ASSUME PipeInv, PipeInv', Quiet, ReadClose, wpc \in Outside,
         UNCHANGED <<preempt, shell, wVars>>
  PROVE  Quiet'
<1>1. /\ todo = {} /\ todo' = {} /\ rpc' = "closed"
      /\ UNCHANGED <<buf, head, count, refs_w, got, sent, eof, wpc>>
  BY DEF ReadClose, wVars, PipeInv, CallsRight
<1>2. Held' = Held /\ ReadAt' = ReadAt
  BY <1>1 DEF Held, ReadAt
<1> QED BY <1>1, <1>2 DEF Quiet, Outside, InOrder

\* A write call starts.
LEMMA WriteCallQuiet ==
  ASSUME PipeInv, PipeInv', Quiet, NEW k \in 1 .. MaxCount, WriteCall(k), rpc \in Outside,
         UNCHANGED <<preempt, shell, rVars>>
  PROVE  Quiet'
<1>1. UNCHANGED <<buf, head, count, refs_r, refs_w, n, got, todo, sent, eof, rpc>>
  BY DEF WriteCall, pipeVars, rVars
<1>2. Held' = Held /\ ReadAt' = ReadAt
  BY <1>1 DEF Held, ReadAt
<1>3. ~eof
  BY DEF WriteCall, Quiet, PipeInv, RefsRight, TypeOK
<1> QED BY <1>1, <1>2, <1>3 DEF WriteCall, Quiet, Outside, InOrder

\* It looks for a reader.
LEMMA WriteCheckQuiet ==
  ASSUME PipeInv, PipeInv', Quiet, WriteCheck, rpc \in Outside,
         UNCHANGED <<preempt, shell, rVars>>
  PROVE  Quiet'
<1>1. UNCHANGED <<buf, head, count, refs_r, refs_w, n, got, todo, sent, eof, rpc>>
  BY DEF WriteCheck, pipeVars, rVars
<1>2. Held' = Held /\ ReadAt' = ReadAt
  BY <1>1 DEF Held, ReadAt
<1>3. wpc' \in {"idle", "room"} /\ (wpc' = "room" => refs_r > 0)
  <2>1. refs_r \in 0 .. 2
    BY DEF PipeInv, TypeOK
  <2> QED BY <2>1 DEF WriteCheck
<1> QED BY <1>1, <1>2, <1>3 DEF Quiet, Outside, InOrder

\* It looks for room.
LEMMA WriteRoomQuiet ==
  ASSUME PipeInv, PipeInv', Quiet, WriteRoom, rpc \in Outside,
         UNCHANGED <<preempt, shell, rVars>>
  PROVE  Quiet'
<1>1. UNCHANGED <<buf, head, count, refs_r, refs_w, n, got, todo, sent, eof, rpc>>
  BY DEF WriteRoom, pipeVars, rVars
<1>2. Held' = Held /\ ReadAt' = ReadAt
  BY <1>1 DEF Held, ReadAt
<1>3. wpc = "room" /\ wpc' \in {"wait", "place"} /\ (wpc' = "place" => wpos' = count)
  BY DEF WriteRoom
<1> QED BY <1>1, <1>2, <1>3 DEF Quiet, Outside, InOrder

\* It wakes up.
LEMMA WriteWakeQuiet ==
  ASSUME PipeInv, PipeInv', Quiet, WriteWake, rpc \in Outside,
         UNCHANGED <<preempt, shell, rVars>>
  PROVE  Quiet'
<1>1. UNCHANGED <<buf, head, count, refs_r, refs_w, n, got, todo, sent, eof, rpc>>
  BY DEF WriteWake, pipeVars, rVars
<1>2. Held' = Held /\ ReadAt' = ReadAt
  BY <1>1 DEF Held, ReadAt
<1>3. wpc' = "check"
  BY DEF WriteWake
<1> QED BY <1>1, <1>2, <1>3 DEF Quiet, Outside, InOrder

\* It computes the place behind the last byte.
LEMMA WritePlaceQuiet ==
  ASSUME PipeInv, PipeInv', Quiet, WritePlace, rpc \in Outside,
         UNCHANGED <<preempt, shell, rVars>>
  PROVE  Quiet'
<1>1. UNCHANGED <<buf, head, count, refs_r, refs_w, n, got, todo, sent, eof, rpc>>
  BY DEF WritePlace, pipeVars, rVars
<1>2. Held' = Held /\ ReadAt' = ReadAt
  BY <1>1 DEF Held, ReadAt
<1>3. wpc = "place" /\ wpc' = "copy" /\ wpos' = (head + wpos) % Size
  BY DEF WritePlace
<1>4. wpos' = (head + count) % Size
  BY <1>3 DEF Quiet
<1> QED BY <1>1, <1>2, <1>3, <1>4 DEF Quiet, Outside, InOrder

\* The copy writes behind the bytes in the ring and over none of them.
LEMMA WriteCopyQuiet ==
  ASSUME PipeInv, PipeInv', Quiet, WriteCopy, rpc \in Outside,
         UNCHANGED <<preempt, shell, rVars>>
  PROVE  Quiet'
<1>0. Numbers
  BY HeldFacts
<1>1. /\ wpc = "copy" /\ wpc' = "add" /\ todo = {} /\ todo' = {}
      /\ UNCHANGED <<head, count, refs_r, refs_w, n, free, wpos, got, sent, eof, rpc>>
  BY DEF WriteCopy, rVars, PipeInv, CallsRight, Outside
<1>2. Held = count /\ ReadAt = head /\ Held' = count /\ ReadAt' = head
  BY <1>1 DEF Held, ReadAt
<1>3. /\ wpos = (head + count) % Size /\ free \in Nat /\ count + free <= Size
      /\ wpos \in Nat /\ wpos < Size
  BY <1>1, PipeAssumption DEF Quiet, PipeInv, CountExact, TypeOK, Pos
<1>4. head \in Pos /\ count \in 0 .. Size
  BY DEF PipeInv, TypeOK
<1>5. ASSUME NEW p \in Pos
      PROVE  buf'[p] = IF (p - wpos + Size) % Size < free
                         THEN sent + ((p - wpos + Size) % Size) + 1 ELSE buf[p]
  <2>1. buf' = [q \in Pos |-> LET i == (q - wpos + Size) % Size
                              IN  IF i < free THEN sent + i + 1 ELSE buf[q]]
    BY DEF WriteCopy
  <2> HIDE DEF WriteCopy
  <2> QED BY <2>1, Zenon
<1>7. ASSUME NEW i \in 0 .. free - 1
      PROVE  buf'[(head + count + i) % Size] = sent + i + 1
  <2> DEFINE p == (head + count + i) % Size
  <2>1. count + i \in Nat /\ count + i < Size /\ count + i >= count /\ count + i - count = i
        /\ i < free
        /\ head + (count + i) = head + count + i /\ head + count + i \in Nat
    BY <1>3, <1>0 DEF Numbers
  <2>2. (((head + (count + i)) % Size) - ((head + count) % Size) + Size) % Size = i
    BY <1>4, <2>1, RingGap
  <2>3. p \in Pos
    BY <2>1, RingPos
  <2>4. (p - wpos + Size) % Size = i
    BY <1>3, <2>1, <2>2
  <2> HIDE DEF p
  <2>5. buf'[p] = sent + i + 1
    BY <1>5, <2>1, <2>3, <2>4
  <2> QED BY <2>5 DEF p
<1>8. ASSUME NEW i \in 1 .. count
      PROVE  buf'[(head + i - 1) % Size] = buf[(head + i - 1) % Size]
  <2> DEFINE p == (head + i - 1) % Size
  <2>1. i - 1 \in Nat /\ i - 1 < Size /\ ~(i - 1 >= count) /\ ~(i - 1 - count + Size < free)
        /\ head + (i - 1) = head + i - 1 /\ head + i - 1 \in Nat
    BY <1>3, <1>0 DEF Numbers
  <2>2. (((head + (i - 1)) % Size) - ((head + count) % Size) + Size) % Size = i - 1 - count + Size
    BY <1>4, <2>1, RingGap
  <2>3. p \in Pos
    BY <2>1, RingPos
  <2>4. (p - wpos + Size) % Size = i - 1 - count + Size
    BY <1>3, <2>1, <2>2
  <2> HIDE DEF p
  <2>5. buf'[p] = buf[p]
    BY <1>5, <2>1, <2>3, <2>4
  <2> QED BY <2>5 DEF p
<1>9. \A i \in 1 .. Held' : buf'[(ReadAt' + i - 1) % Size] = Len(got') + i
  BY <1>1, <1>2, <1>8 DEF Quiet
<1>10. \A i \in 0 .. free' - 1 : buf'[(head' + count' + i) % Size] = sent' + i + 1
  BY Zenon, <1>1, <1>7
<1> QED BY <1>1, <1>2, <1>9, <1>10 DEF Quiet, Outside, InOrder

\* The bytes it wrote are in the ring from now on.
LEMMA WriteAddQuiet ==
  ASSUME PipeInv, PipeInv', Quiet, WriteAdd, rpc \in Outside,
         UNCHANGED <<preempt, shell, rVars>>
  PROVE  Quiet'
<1>0. Numbers
  BY HeldFacts
<1>1. /\ wpc = "add" /\ wpc' \in {"idle", "check"} /\ todo = {} /\ todo' = {}
      /\ UNCHANGED <<buf, head, refs_r, refs_w, n, got, eof, rpc>>
      /\ count' = count + free /\ sent' = sent + free
  BY DEF WriteAdd, rVars, PipeInv, CallsRight, Outside
<1>2. Held = count /\ ReadAt = head /\ Held' = count + free /\ ReadAt' = head
  BY <1>1 DEF Held, ReadAt
<1>3. free \in Nat /\ free >= 1
  BY <1>1 DEF PipeInv, CallsRight, TypeOK
<1>4. ASSUME NEW i \in 1 .. count + free
      PROVE  buf[(head + i - 1) % Size] = Len(got) + i
  <2>1. CASE i <= count
    <3>1. i \in 1 .. Held
      BY <1>2, <2>1, <1>0 DEF Numbers
    <3>2. buf[(ReadAt + i - 1) % Size] = Len(got) + i
      BY <3>1 DEF Quiet
    <3> QED BY <1>2, <3>2
  <2>2. CASE i > count
    <3>1. i - 1 - count \in 0 .. free - 1
      BY <1>3, <2>2, <1>0 DEF Numbers
    <3>2. buf[(head + count + (i - 1 - count)) % Size] = sent + (i - 1 - count) + 1
      BY <1>1, <3>1 DEF Quiet
    <3>3. head + count + (i - 1 - count) = head + i - 1
      BY <1>0 DEF Numbers
    <3>4. sent + (i - 1 - count) + 1 = Len(got) + i
      <4>1. count = sent - Len(got) /\ {sent, count, Len(got)} \subseteq Nat
        BY <1>2, <1>0 DEF Numbers
      <4> QED BY <4>1
    <3> QED BY <3>2, <3>3, <3>4
  <2> QED BY <2>1, <2>2, <1>0 DEF Numbers
<1>5. ~eof
  BY <1>1 DEF Quiet, PipeInv, RefsRight, TypeOK
<1> QED BY <1>1, <1>2, <1>4, <1>5 DEF Quiet, Outside, InOrder

\* The writer closes.
LEMMA WriteCloseQuiet ==
  ASSUME PipeInv, PipeInv', Quiet, WriteClose, rpc \in Outside,
         UNCHANGED <<preempt, shell, rVars>>
  PROVE  Quiet'
<1>1. UNCHANGED <<buf, head, count, refs_r, n, got, todo, sent, eof, rpc>> /\ wpc' = "closed"
  BY DEF WriteClose, rVars
<1>2. Held' = Held /\ ReadAt' = ReadAt
  BY <1>1 DEF Held, ReadAt
<1>3. ~eof
  BY DEF WriteClose, Quiet, PipeInv, RefsRight, TypeOK
<1> QED BY <1>1, <1>2, <1>3 DEF Quiet, Outside, InOrder

\* The shell closes its copy of an end, while nobody is inside a call.
LEMMA ShellCloseQuiet ==
  ASSUME PipeInv, PipeInv', ~preempt, Quiet, NEW e \in {"r", "w"}, ShellClose(e)
  PROVE  Quiet'
<1>1. /\ UNCHANGED <<buf, head, count, n, got, todo, sent, eof, rpc, wpc>>
      /\ rpc \in Outside /\ wpc \in Outside
  BY DEF ShellClose, rVars, wVars
<1>2. Held' = Held /\ ReadAt' = ReadAt
  BY <1>1 DEF Held, ReadAt
<1>3. eof => refs_w' = 0
  <2>1. eof => refs_w = 0 /\ "w" \notin shell
    BY DEF Quiet, PipeInv, RefsRight
  <2> QED BY <2>1 DEF ShellClose
<1> QED BY <1>1, <1>2, <1>3 DEF Quiet, Outside, InOrder

\* What the refinement and the order of the bytes rest on.
QuietInv == PipeInv /\ (~preempt => Quiet)

\* Every step keeps it.
LEMMA QuietInvStep == QuietInv /\ [Next]_vars => QuietInv'
<1> SUFFICES ASSUME QuietInv, [Next]_vars PROVE QuietInv'
  OBVIOUS
<1>1. PipeInv /\ PipeInv'
  BY PipeInvStep DEF QuietInv
<1>2. SUFFICES ASSUME ~preempt' PROVE Quiet'
  BY <1>1 DEF QuietInv
<1>3. ~preempt
  <2>1. preempt' = preempt
    BY DEF Next, Reader, Writer, ReadStep, WriteStep, ReadProgram, WriteProgram, ShellClose, vars
  <2> QED BY <1>2, <2>1
<1>4. Quiet
  BY <1>3 DEF QuietInv
<1>5. CASE Reader
  BY <1>1, <1>3, <1>4, <1>5, ReadCallQuiet, ReadCheckQuiet, ReadEmptyQuiet, ReadWakeQuiet,
     ReadCopyQuiet, ReadStoreQuiet, ReadCloseQuiet
  DEF Reader, ReadStep, ReadProgram
<1>6. CASE Writer
  BY <1>1, <1>3, <1>4, <1>6, WriteCallQuiet, WriteCheckQuiet, WriteRoomQuiet, WriteWakeQuiet,
     WritePlaceQuiet, WriteCopyQuiet, WriteAddQuiet, WriteCloseQuiet
  DEF Writer, WriteStep, WriteProgram
<1>7. ASSUME NEW e \in {"r", "w"}, ShellClose(e) PROVE Quiet'
  BY Zenon, <1>1, <1>3, <1>4, <1>7, ShellCloseQuiet
<1>8. CASE UNCHANGED vars
  <2>1. Held' = Held /\ ReadAt' = ReadAt
    BY <1>8 DEF vars, Held, ReadAt
  <2> QED BY <1>4, <1>8, <2>1 DEF vars, Quiet, InOrder
<1> QED BY <1>5, <1>6, <1>7, <1>8 DEF Next

\* QuietInv holds in every reachable state.
LEMMA QuietInvAlways == Spec => []QuietInv
<1>1. Init => QuietInv
  BY PipeInvInit, QuietInit DEF QuietInv
<1> QED BY <1>1, QuietInvStep, PTL DEF Spec

\* Without ticks inside a call the reader gets what the writer sent, in order,
\* and all of it before end-of-file.
LEMMA BytesInOrder == Spec => []AtomicInOrder
<1>1. QuietInv => AtomicInOrder
  BY DEF QuietInv, Quiet, AtomicInOrder
<1> QED BY <1>1, QuietInvAlways, PTL

\* Wherever ticks fall the bytes are counted right and the buffer never holds
\* more than its size; without a tick inside a call they arrive in order.
THEOREM BytesAreExact == Spec => []BytesExact
BY PipeTypes, CountIsExact, BytesInOrder, PTL DEF BytesExact

-----------------------------------------------------------------------------
(* The refinement: what is unread is what the queue of Fifo holds.          *)

\* The m bytes that follow the first g.
Span(g, m) == [i \in 1 .. m |-> g + i]

\* It is a sequence.
LEMMA SpanSeq ==
  ASSUME NEW g \in Nat, NEW m \in Nat
  PROVE  Span(g, m) \in Seq(Nat) /\ Len(Span(g, m)) = m
<1>1. Span(g, m) \in [1 .. m -> Nat]
  BY DEF Span
<1> QED BY <1>1, FunctionIsSeq

\* Cutting it ...
LEMMA SpanSplit ==
  ASSUME NEW g \in Nat, NEW m \in Nat, NEW k \in Nat, k <= m
  PROVE  /\ SubSeq(Span(g, m), 1, k) = Span(g, k)
         /\ SubSeq(Span(g, m), k + 1, m) = Span(g + k, m - k)
<1>1. \A i \in 1 .. m : Span(g, m)[i] = g + i
  BY DEF Span
<1>2. SubSeq(Span(g, m), 1, k) = Span(g, k)
  <2> DEFINE t == SubSeq(Span(g, m), 1, k)
  <2>1. \A i \in 1 .. k : Span(g, m)[i] \in Nat
    BY <1>1
  <2>2. t \in Seq(Nat) /\ Len(t) = k /\ \A i \in 1 .. k - 1 + 1 : t[i] = Span(g, m)[1 + i - 1]
    BY <2>1, CutSeq
  <2> HIDE DEF t
  <2>3. Span(g, k) \in Seq(Nat) /\ Len(Span(g, k)) = k
    BY SpanSeq
  <2>4. ASSUME NEW i \in 1 .. k PROVE t[i] = Span(g, k)[i]
    <3>1. i \in 1 .. k - 1 + 1 /\ 1 + i - 1 = i /\ i \in 1 .. m
      OBVIOUS
    <3>2. t[i] = Span(g, m)[i]
      BY <2>2, <3>1
    <3>3. Span(g, k)[i] = g + i
      BY DEF Span
    <3> QED BY <1>1, <3>1, <3>2, <3>3
  <2>5. t = Span(g, k)
    BY <2>2, <2>3, <2>4, SameSeq
  <2> QED BY <2>5 DEF t
<1>3. SubSeq(Span(g, m), k + 1, m) = Span(g + k, m - k)
  <2> DEFINE t == SubSeq(Span(g, m), k + 1, m)
  <2>1. \A i \in k + 1 .. m : Span(g, m)[i] \in Nat
    BY <1>1
  <2>2. /\ t \in Seq(Nat) /\ Len(t) = (IF k + 1 <= m THEN m - (k + 1) + 1 ELSE 0)
        /\ \A i \in 1 .. m - (k + 1) + 1 : t[i] = Span(g, m)[(k + 1) + i - 1]
    <3>1. k + 1 \in Int /\ m \in Int
      OBVIOUS
    <3> QED BY <2>1, <3>1, CutSeq
  <2> HIDE DEF t
  <2>3. Len(t) = m - k
    BY <2>2
  <2>4. Span(g + k, m - k) \in Seq(Nat) /\ Len(Span(g + k, m - k)) = m - k
    <3>1. g + k \in Nat /\ m - k \in Nat
      OBVIOUS
    <3> QED BY Zenon, <3>1, SpanSeq
  <2>5. ASSUME NEW i \in 1 .. m - k PROVE t[i] = Span(g + k, m - k)[i]
    <3>1. i \in 1 .. m - (k + 1) + 1 /\ (k + 1) + i - 1 = k + i /\ k + i \in 1 .. m
      OBVIOUS
    <3>2. t[i] = Span(g, m)[k + i]
      BY <2>2, <3>1
    <3>3. Span(g + k, m - k)[i] = g + k + i
      BY DEF Span
    <3>4. Span(g, m)[k + i] = g + (k + i)
      BY <1>1, <3>1
    <3> QED BY <3>2, <3>3, <3>4
  <2>6. t = Span(g + k, m - k)
    BY <2>2, <2>3, <2>4, <2>5, SameSeq
  <2> QED BY <2>6 DEF t
<1> QED BY <1>2, <1>3

\* ... and joining it.
LEMMA SpanJoin ==
  ASSUME NEW g \in Nat, NEW m \in Nat, NEW k \in Nat
  PROVE  Span(g, m) \o Span(g + m, k) = Span(g, m + k)
<1> DEFINE a == Span(g, m)
           b == Span(g + m, k)
           c == Span(g, m + k)
<1>1. a \in Seq(Nat) /\ Len(a) = m /\ b \in Seq(Nat) /\ Len(b) = k /\ c \in Seq(Nat) /\ Len(c) = m + k
  <2>1. g + m \in Nat /\ m + k \in Nat
    OBVIOUS
  <2> QED BY Zenon, <2>1, SpanSeq
<1>2. /\ \A i \in 1 .. m : a[i] = g + i
      /\ \A i \in 1 .. k : b[i] = g + m + i
      /\ \A i \in 1 .. m + k : c[i] = g + i
  BY DEF Span
<1> HIDE DEF a, b, c
<1>3. /\ a \o b \in Seq(Nat) /\ Len(a \o b) = m + k
      /\ \A i \in 1 .. m + k : (a \o b)[i] = IF i <= m THEN a[i] ELSE b[i - m]
  BY Zenon, <1>1, JoinSeq
<1>4. ASSUME NEW i \in 1 .. m + k PROVE (a \o b)[i] = c[i]
  <2>1. CASE i <= m
    BY <1>2, <1>3, <2>1
  <2>2. CASE i > m
    <3>1. i - m \in 1 .. k
      BY <2>2
    <3>2. b[i - m] = g + m + (i - m)
      BY <1>2, <3>1
    <3> QED BY <1>2, <1>3, <2>2, <3>2
  <2>3. i <= m \/ i > m
    OBVIOUS
  <2> QED BY <2>1, <2>2, <2>3, Zenon
<1>5. a \o b = c
  BY Zenon, <1>1, <1>3, <1>4, SameSeq
<1> QED BY <1>5 DEF a, b, c

\* The bytes sent and not yet got, without the ring.
Flight == Span(Len(got), sent - Len(got))

\* The ring holds exactly these.
LEMMA UnreadIsFlight == QuietInv /\ ~preempt => Unread = Flight
<1> SUFFICES ASSUME QuietInv, ~preempt PROVE Unread = Flight
  OBVIOUS
<1>1. PipeInv /\ Quiet
  BY DEF QuietInv
<1>2. Numbers
  BY <1>1, HeldFacts
<1>3. Unread = [i \in 1 .. Held |-> buf[(ReadAt + i - 1) % Size]]
  BY DEF Unread, Held, ReadAt
<1>4. \A i \in 1 .. Held : buf[(ReadAt + i - 1) % Size] = Len(got) + i
  BY <1>1 DEF Quiet
<1>5. Held = sent - Len(got)
  BY <1>2 DEF Numbers
<1> QED BY <1>3, <1>4, <1>5, Zenon DEF Flight, Span

\* The same in the next state.
LEMMA UnreadIsFlightNext == (QuietInv /\ ~preempt)' => (Unread = Flight)'
BY UnreadIsFlight, PTL

\* Numbers of the next state.
LEMMA HeldFactsNext == PipeInv' => Numbers'
BY HeldFacts, PTL

\* As long as nothing is sent or got, the same bytes are unread.
LEMMA UnreadStays ==
  ASSUME QuietInv, QuietInv', ~preempt, preempt' = preempt, UNCHANGED <<sent, got>>
  PROVE  Unread' = Unread
<1>1. Unread = Flight /\ Unread' = Flight'
  BY UnreadIsFlight, UnreadIsFlightNext
<1>2. Flight' = Flight
  BY DEF Flight
<1> QED BY <1>1, <1>2

\* A step that changes nothing Fifo sees.
LEMMA SilentStep ==
  ASSUME QuietInv, QuietInv', ~preempt, preempt' = preempt,
         UNCHANGED <<sent, got, refs_r, refs_w, eof, epipe>>
  PROVE  UNCHANGED F!vars
<1>1. Unread' = Unread
  BY UnreadStays
<1> QED BY <1>1 DEF F!vars, If

\* A reference to the reading end goes: Fifo's end closes with the last.
LEMMA ReadEndStep ==
  ASSUME QuietInv, QuietInv', ~preempt, preempt' = preempt, refs_r' = refs_r - 1,
         UNCHANGED <<sent, got, refs_w, eof, epipe>>
  PROVE  [F!Next]_F!vars
<1>1. Unread' = Unread
  BY UnreadStays
<1>2. refs_r \in 0 .. 2 /\ refs_r' \in 0 .. 2
  BY DEF QuietInv, PipeInv, TypeOK
<1>3. CASE refs_r' = 0
  <2>1. (refs_r' > 0) = FALSE
    BY <1>2, <1>3
  <2> QED BY <1>1, <2>1 DEF F!Next, F!CloseRead, If
<1>4. CASE refs_r' # 0
  <2>1. (refs_r' > 0) = TRUE /\ (refs_r > 0) = TRUE
    BY <1>2, <1>4
  <2> QED BY <1>1, <2>1 DEF F!vars, If
<1> QED BY <1>3, <1>4

\* The same for the writing end.
LEMMA WriteEndStep ==
  ASSUME QuietInv, QuietInv', ~preempt, preempt' = preempt, refs_w' = refs_w - 1,
         UNCHANGED <<sent, got, refs_r, eof, epipe>>
  PROVE  [F!Next]_F!vars
<1>1. Unread' = Unread
  BY UnreadStays
<1>2. refs_w \in 0 .. 2 /\ refs_w' \in 0 .. 2
  BY DEF QuietInv, PipeInv, TypeOK
<1>3. CASE refs_w' = 0
  <2>1. (refs_w' > 0) = FALSE
    BY <1>2, <1>3
  <2> QED BY <1>1, <2>1 DEF F!Next, F!CloseWrite, If
<1>4. CASE refs_w' # 0
  <2>1. (refs_w' > 0) = TRUE /\ (refs_w > 0) = TRUE
    BY <1>2, <1>4
  <2> QED BY <1>1, <2>1 DEF F!vars, If
<1> QED BY <1>3, <1>4

\* The copy of a read is Fifo's Get.
LEMMA CopyGets ==
  ASSUME QuietInv, QuietInv', ~preempt, preempt' = preempt, ReadCopy, UNCHANGED wVars
  PROVE  F!Get
<1> DEFINE s == [i \in 1 .. n |-> buf[(head + i - 1) % Size]]
<1>1. PipeInv /\ Quiet /\ Numbers /\ PipeInv'
  BY HeldFacts DEF QuietInv
<1>2. /\ rpc = "copy" /\ todo = {} /\ got' = got \o s
      /\ UNCHANGED <<refs_r, refs_w, sent, eof, epipe>>
  BY <1>1 DEF ReadCopy, pipeVars, wVars, PipeInv, CallsRight
<1>3. /\ n \in Nat /\ n >= 1 /\ n <= count /\ Held = count /\ ReadAt = head
      /\ Len(got) \in Nat /\ sent \in Nat /\ Len(got) <= sent /\ n <= sent - Len(got)
  BY <1>1, <1>2 DEF PipeInv, CallsRight, Held, ReadAt, Numbers
<1>4. s \in Seq(0 .. Total) /\ Len(s) = n /\ got \in Seq(0 .. Total)
  BY Zenon, <1>1, CopyFacts DEF PipeInv, TypeOK
<1>5. ASSUME NEW i \in 1 .. n PROVE s[i] = Len(got) + i
  <2>1. i \in 1 .. Held
    BY <1>1, <1>3 DEF Numbers
  <2>2. buf[(ReadAt + i - 1) % Size] = Len(got) + i
    BY <1>1, <2>1 DEF Quiet
  <2> QED BY <1>3, <2>2
<1> HIDE DEF s
<1>6. Len(got') = Len(got) + n
  <2>1. Len(got \o s) = Len(got) + Len(s)
    BY <1>4
  <2> QED BY <1>2, <1>4, <2>1
<1>7. s = Span(Len(got), n)
  <2>1. \A i \in 1 .. n : Span(Len(got), n)[i] = Len(got) + i
    BY DEF Span
  <2>2. \A i \in 1 .. n : s[i] \in 0 .. Total
    BY Zenon, <1>4, SeqTypes
  <2>3. Span(Len(got), n) \in [1 .. n -> 0 .. Total]
    BY <1>5, <2>2 DEF Span
  <2>4. Span(Len(got), n) \in Seq(0 .. Total) /\ Len(Span(Len(got), n)) = n
    BY Zenon, <1>3, <2>3, FunctionIsSeq
  <2> QED BY <1>4, <1>5, <2>1, <2>4, SameSeq
<1>8. sent - Len(got) \in Nat
  BY <1>3
<1>9. Unread = Flight /\ Unread' = Flight'
  BY UnreadIsFlight, UnreadIsFlightNext
<1>10. Flight' = Span(Len(got) + n, (sent - Len(got)) - n)
  <2>1. Flight' = Span(Len(got) + n, sent - (Len(got) + n))
    BY <1>2, <1>6 DEF Flight
  <2>2. sent - (Len(got) + n) = (sent - Len(got)) - n
    BY <1>3
  <2> QED BY <2>1, <2>2
<1>11. /\ SubSeq(Flight, 1, n) = s /\ SubSeq(Flight, n + 1, sent - Len(got)) = Flight'
       /\ Len(Flight) = sent - Len(got)
  <2>1. /\ SubSeq(Flight, 1, n) = Span(Len(got), n)
        /\ SubSeq(Flight, n + 1, sent - Len(got)) = Span(Len(got) + n, (sent - Len(got)) - n)
    BY Zenon, <1>3, <1>8, SpanSplit DEF Flight
  <2>2. Len(Flight) = sent - Len(got)
    BY Zenon, <1>3, <1>8, SpanSeq DEF Flight
  <2> QED BY <1>7, <1>10, <2>1, <2>2
<1>12. refs_r > 0
  <2>1. rpc # "closed"
    BY <1>2
  <2> QED BY <1>1, <2>1 DEF PipeInv, RefsRight
<1>13. n \in 1 .. Len(Unread)
  BY <1>3, <1>9, <1>11
<1>14. got' = got \o SubSeq(Unread, 1, n) /\ Unread' = SubSeq(Unread, n + 1, Len(Unread))
  BY Zenon, <1>2, <1>9, <1>11
<1> QED BY Zenon, <1>2, <1>12, <1>13, <1>14 DEF F!Get, If

\* Adding to count is Fifo's Put.
LEMMA AddPuts ==
  ASSUME QuietInv, QuietInv', ~preempt, preempt' = preempt, WriteAdd, UNCHANGED rVars
  PROVE  F!Put
<1>1. PipeInv /\ Quiet /\ Numbers /\ PipeInv'
  BY HeldFacts DEF QuietInv
<1>2. /\ wpc = "add" /\ sent' = sent + free
      /\ UNCHANGED <<refs_r, refs_w, got, eof, epipe>>
  BY <1>1 DEF WriteAdd, rVars
<1>3. /\ free \in Nat /\ free >= 1 /\ Len(got) \in Nat /\ sent \in Nat /\ Len(got) <= sent
      /\ sent + free <= Total /\ Total \in Nat
  <2>1. free \in Nat /\ sent' \in 0 .. Total
    BY <1>1 DEF PipeInv, TypeOK
  <2>2. free >= 1
    BY <1>1, <1>2 DEF PipeInv, CallsRight
  <2>3. /\ Len(got) \in Nat /\ sent \in Nat /\ Len(got) <= sent
    BY <1>1 DEF Numbers
  <2> QED BY <1>2, <2>1, <2>2, <2>3, PipeAssumption
<1> DEFINE s == Span(sent, free)
<1>4. s \in [1 .. free -> 1 .. Total]
  BY <1>3 DEF Span
<1> HIDE DEF s
<1>5. sent - Len(got) \in Nat /\ Len(got) + (sent - Len(got)) = sent
      /\ (sent - Len(got)) + free = (sent + free) - Len(got)
  BY <1>3
<1>6. Flight \o s = Span(Len(got), (sent - Len(got)) + free)
  <2>1. Span(Len(got), sent - Len(got)) \o Span(Len(got) + (sent - Len(got)), free)
          = Span(Len(got), (sent - Len(got)) + free)
    BY Zenon, <1>3, <1>5, SpanJoin
  <2> QED BY <1>5, <2>1 DEF Flight, s
<1>7. Flight' = Span(Len(got), (sent + free) - Len(got))
  BY <1>2 DEF Flight
<1>8. Flight' = Flight \o s
  BY <1>5, <1>6, <1>7
<1>9. Len(Flight) = sent - Len(got)
  BY Zenon, <1>3, <1>5, SpanSeq DEF Flight
<1>10. Unread = Flight /\ Unread' = Flight'
  BY UnreadIsFlight, UnreadIsFlightNext
<1>11. free \in 1 .. Size - Len(Unread)
  <2>1. sent' - Len(got') <= Size /\ Size \in Nat
    BY <1>1, HeldFactsNext DEF Numbers
  <2>2. (sent + free) - Len(got) <= Size
    BY <1>2, <2>1
  <2> QED BY <1>3, <1>9, <1>10, <2>1, <2>2
<1>12. refs_w > 0
  <2>1. wpc # "closed"
    BY <1>2
  <2> QED BY <1>1, <2>1 DEF PipeInv, RefsRight
<1>13. refs_r > 0
  BY <1>1, <1>2 DEF Quiet
<1>14. Unread' = Unread \o s
  BY <1>8, <1>10
<1> QED BY Zenon, <1>2, <1>4, <1>11, <1>12, <1>13, <1>14 DEF F!Put, If

\* The reader's answer 0 is Fifo's Eof.
LEMMA EmptyEnds ==
  ASSUME QuietInv, QuietInv', ~preempt, preempt' = preempt, ReadEmpty, UNCHANGED wVars
  PROVE  [F!Next]_F!vars
<1>1. PipeInv /\ Quiet /\ Numbers
  BY HeldFacts DEF QuietInv
<1>2. /\ rpc = "empty" /\ todo = {} /\ UNCHANGED <<refs_r, refs_w, sent, got, epipe>>
  BY <1>1 DEF ReadEmpty, pipeVars, wVars, PipeInv, CallsRight
<1>3. CASE refs_w = 0
  <2>1. eof' = TRUE
    BY <1>3 DEF ReadEmpty
  <2>2. Unread = Flight /\ Unread' = Unread
    BY <1>2, UnreadIsFlight, UnreadStays
  <2>3. Held = 0
    BY <1>1, <1>2 DEF Quiet, Held
  <2>4. Len(Flight) = 0 /\ Flight \in Seq(Nat)
    <3>1. Len(got) \in Nat /\ sent - Len(got) \in Nat /\ sent - Len(got) = 0
      BY <1>1, <2>3 DEF Numbers
    <3> QED BY <3>1, SpanSeq DEF Flight
  <2>5. Unread = <<>>
    BY <2>2, <2>4
  <2>6. refs_r > 0
    <3>1. rpc # "closed"
      BY <1>2
    <3> QED BY <1>1, <3>1 DEF PipeInv, RefsRight
  <2>7. ~(refs_w > 0)
    BY <1>3
  <2> QED BY <1>2, <2>1, <2>2, <2>5, <2>6, <2>7 DEF F!Next, F!Eof, If
<1>4. CASE refs_w # 0
  <2>1. eof' = eof
    BY <1>4 DEF ReadEmpty
  <2> QED BY <1>2, <2>1, SilentStep
<1> QED BY <1>3, <1>4

\* The writer's answer -EPIPE is Fifo's Epipe.
LEMMA CheckRefuses ==
  ASSUME QuietInv, QuietInv', ~preempt, preempt' = preempt, WriteCheck, UNCHANGED rVars
  PROVE  [F!Next]_F!vars
<1>1. PipeInv /\ Quiet /\ Numbers
  BY HeldFacts DEF QuietInv
<1>2. wpc = "check" /\ UNCHANGED <<refs_r, refs_w, sent, got, eof>>
  BY DEF WriteCheck, pipeVars, rVars
<1>3. CASE refs_r = 0
  <2>1. epipe' = TRUE
    BY <1>3 DEF WriteCheck
  <2>2. Unread' = Unread
    BY <1>2, UnreadStays
  <2>3. refs_w > 0
    <3>1. wpc # "closed"
      BY <1>2
    <3> QED BY <1>1, <3>1 DEF PipeInv, RefsRight
  <2>4. ~(refs_r > 0)
    BY <1>3
  <2> QED BY <1>2, <2>1, <2>2, <2>3, <2>4 DEF F!Next, F!Epipe, If
<1>4. CASE refs_r # 0
  <2>1. epipe' = epipe
    BY <1>4 DEF WriteCheck
  <2> QED BY <1>2, <2>1, SilentStep
<1> QED BY <1>3, <1>4

\* Every step of the two calls is a step of Fifo or none.
LEMMA PipeStepsAreFifoSteps == QuietInv /\ QuietInv' /\ [Next]_vars => [F!Next]_F!vars
<1> SUFFICES ASSUME QuietInv, QuietInv', [Next]_vars PROVE [F!Next]_F!vars
  OBVIOUS
<1>1. preempt' = preempt
  BY DEF Next, Reader, Writer, ReadStep, WriteStep, ReadProgram, WriteProgram, ShellClose, vars
<1>2. CASE preempt
  BY <1>1, <1>2 DEF F!vars, If
<1>3. CASE ~preempt
  <2>1. ASSUME Reader PROVE [F!Next]_F!vars
    <3>1. UNCHANGED wVars
      BY <2>1 DEF Reader
    <3>2. CASE ReadCheck \/ ReadWake \/ (\E k \in 1 .. MaxCount : ReadCall(k))
      <4>1. UNCHANGED <<sent, got, refs_r, refs_w, eof, epipe>>
        BY <3>1, <3>2 DEF wVars, pipeVars, ReadCheck, ReadWake, ReadCall
      <4> QED BY <1>1, <1>3, <4>1, SilentStep
    <3>3. CASE \E x \in {"head", "count"} : ReadStore(x)
      <4>1. UNCHANGED <<sent, got, refs_r, refs_w, eof, epipe>>
        BY <3>1, <3>3 DEF wVars, ReadStore
      <4> QED BY <1>1, <1>3, <4>1, SilentStep
    <3>4. CASE ReadEmpty
      BY <1>1, <1>3, <3>1, <3>4, EmptyEnds
    <3>5. CASE ReadCopy
      BY <1>1, <1>3, <3>1, <3>5, CopyGets DEF F!Next
    <3>6. CASE ReadClose
      <4>1. refs_r' = refs_r - 1 /\ UNCHANGED <<sent, got, refs_w, eof, epipe>>
        BY <3>1, <3>6 DEF wVars, ReadClose
      <4> QED BY <1>1, <1>3, <4>1, ReadEndStep
    <3> QED BY <2>1, <3>2, <3>3, <3>4, <3>5, <3>6 DEF Reader, ReadStep, ReadProgram
  <2>2. ASSUME Writer PROVE [F!Next]_F!vars
    <3>1. UNCHANGED rVars
      BY <2>2 DEF Writer
    <3>2. CASE WriteRoom \/ WriteWake \/ WritePlace \/ WriteCopy
               \/ (\E k \in 1 .. MaxCount : WriteCall(k))
      <4>1. UNCHANGED <<sent, got, refs_r, refs_w, eof, epipe>>
        BY Zenon, <3>1, <3>2 DEF rVars, pipeVars, WriteRoom, WriteWake,
          WritePlace, WriteCopy, WriteCall
      <4> QED BY <1>1, <1>3, <4>1, SilentStep
    <3>3. CASE WriteCheck
      BY <1>1, <1>3, <3>1, <3>3, CheckRefuses
    <3>4. CASE WriteAdd
      BY <1>1, <1>3, <3>1, <3>4, AddPuts DEF F!Next
    <3>5. CASE WriteClose
      <4>1. refs_w' = refs_w - 1 /\ UNCHANGED <<sent, got, refs_r, eof, epipe>>
        BY <3>1, <3>5 DEF rVars, WriteClose
      <4> QED BY <1>1, <1>3, <4>1, WriteEndStep
    <3> QED BY <2>2, <3>2, <3>3, <3>4, <3>5 DEF Writer, WriteStep, WriteProgram
  <2>3. ASSUME NEW e \in {"r", "w"}, ShellClose(e) PROVE [F!Next]_F!vars
    <3>1. CASE e = "r"
      <4>1. refs_r' = refs_r - 1 /\ UNCHANGED <<sent, got, refs_w, eof, epipe>>
        BY <2>3, <3>1 DEF rVars, wVars, ShellClose
      <4> QED BY <1>1, <1>3, <4>1, ReadEndStep
    <3>2. CASE e = "w"
      <4>1. refs_w' = refs_w - 1 /\ UNCHANGED <<sent, got, refs_r, eof, epipe>>
        BY <2>3, <3>2 DEF rVars, wVars, ShellClose
      <4> QED BY <1>1, <1>3, <4>1, WriteEndStep
    <3> QED BY <3>1, <3>2
  <2>4. CASE UNCHANGED vars
    <3>1. UNCHANGED <<sent, got, refs_r, refs_w, eof, epipe>>
      BY <2>4 DEF vars
    <3> QED BY <1>1, <1>3, <3>1, SilentStep
  <2> QED BY <2>1, <2>2, <2>3, <2>4 DEF Next
<1> QED BY <1>2, <1>3

\* The ring buffer of vfs.c is a first-in first-out queue, for every size, every
\* amount of data and every length of the calls, as long as no tick falls into
\* pipe_read or pipe_write.
THEOREM PipeImplementsFifo == Spec => ImplementsFifo
<1>1. Init => F!Init
  <2> SUFFICES ASSUME Init PROVE F!Init
    OBVIOUS
  <2>1. /\ todo = {} /\ count = 0 /\ got = <<>> /\ eof = FALSE /\ epipe = FALSE
        /\ refs_r = 2 /\ refs_w = 2
    BY DEF Init
  <2>2. Unread = <<>>
    BY <2>1 DEF Unread
  <2>3. (refs_r > 0) = TRUE /\ (refs_w > 0) = TRUE
    BY <2>1
  <2> QED BY <2>1, <2>2, <2>3 DEF F!Init, If
<1> QED BY <1>1, PipeStepsAreFifoSteps, QuietInvAlways, PTL DEF Spec, ImplementsFifo, F!Spec

=============================================================================
