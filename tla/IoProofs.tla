------------------------------ MODULE IoProofs ------------------------------
(***************************************************************************)
(* The terminal and the contents of files.                                 *)
(*                                                                         *)
(* The terminal, for every ring size, number of programs and number of key *)
(* presses: the keyboard ring loses, repeats and reorders nothing until two *)
(* consumers race, the console is consumed by its owner when no tick falls *)
(* inside a call, what a program reads is what was typed, and a dead task  *)
(* never owns the console.                                                 *)
(*                                                                         *)
(* A file, for every number of descriptions, every set of byte values,     *)
(* every first capacity and every bound on the length.                     *)
(***************************************************************************)
EXTENDS Tty, FileData, TLAPS

(* The contents of a file (FileData.tla).                                   *)

\* Nothing is expected of the bytes behind the end: without this a file that
\* grows again could be expected to hold what it held before it was cut.
NoneBehind == \A i \in Offsets : i >= fsize => want[i] = Hole

FileInv ==
  FileTypeOK /\ WithinBuffer /\ ContentExact /\ NoneBehind /\ NoGaps /\ AppendsAtEnd

-----------------------------------------------------------------------------
\* A read returns as many bytes as there are, from where it starts.
LEMMA ReadResult ==
  ASSUME FileTypeOK, NEW from \in Nat, NEW count \in Nat
  PROVE  \E n \in Nat :
           /\ n = IF from >= fsize THEN 0
                  ELSE IF count < fsize - from THEN count ELSE fsize - from
           /\ ReadBytes(from, count) = [i \in 1 .. n |-> content[from + i - 1]]
           /\ Len(ReadBytes(from, count)) = n
           /\ from + n <= fsize \/ n = 0
<1> DEFINE n == IF from >= fsize THEN 0
                ELSE IF count < fsize - from THEN count ELSE fsize - from
<1>1. n \in Nat /\ (from + n <= fsize \/ n = 0)
  BY FileDataAssumption DEF FileTypeOK
<1>2. ReadBytes(from, count) = [i \in 1 .. n |-> content[from + i - 1]]
  BY DEF ReadBytes
<1>3. Len(ReadBytes(from, count)) = n
  <2>1. DOMAIN ReadBytes(from, count) = 1 .. n
    BY <1>2
  <2>2. ReadBytes(from, count) \in Seq({content[from + i - 1] : i \in 1 .. n})
    <3> DEFINE R == {content[from + i - 1] : i \in 1 .. n}
    <3>1. ReadBytes(from, count) \in [1 .. n -> R]
      BY <1>2, Zenon
    <3> HIDE DEF n, R
    <3>2. ReadBytes(from, count) \in Seq(R)
      BY <1>1, <3>1
    <3> QED BY <3>2 DEF R
  <2> HIDE DEF n
  <2> QED BY <1>1, <2>1, <2>2
<1> QED BY <1>1, <1>2, <1>3

\* The initial file is empty.
LEMMA FileInvInit == FileInit => FileInv
<1> SUFFICES ASSUME FileInit PROVE FileInv
  OBVIOUS
<1> USE FileDataAssumption DEF FileInit
<1>1. FileTypeOK
  <2>1. Closed \in [mode : OpenModes \cup {"closed"}, pos : Nat,
                    append : BOOLEAN, sole : BOOLEAN]
    BY DEF Closed
  <2>2. fsize \in 0 .. MaxBytes /\ capacity \in Nat
    OBVIOUS
  <2>3. \A d \in Writers : fd[d] = Closed /\ fd[d].pos = 0
    BY Zenon DEF Closed
  <2> QED BY Zenon, <2>1, <2>2, <2>3 DEF FileTypeOK
<1>2. WithinBuffer
  BY DEF WithinBuffer
<1>3. ContentExact
  BY DEF ContentExact, Offsets
<1>4. NoGaps
  BY DEF NoGaps, Offsets, Closed
<1>5. AppendsAtEnd
  BY DEF AppendsAtEnd, Closed
<1>6. NoneBehind
  BY DEF NoneBehind
<1> QED BY <1>1, <1>2, <1>3, <1>4, <1>5, <1>6 DEF FileInv

\* Moving the end keeps the types of the descriptions, and all of a
\* description but its claim to have moved the end alone.
LEMMA MovedFacts ==
  ASSUME FileTypeOK, NEW S \in SUBSET Writers
  PROVE  /\ Moved(S) \in [Writers -> [mode : OpenModes \cup {"closed"}, pos : Nat,
                                      append : BOOLEAN, sole : BOOLEAN]]
         /\ \A d \in Writers : /\ Moved(S)[d].mode = fd[d].mode
                               /\ Moved(S)[d].pos = fd[d].pos
                               /\ Moved(S)[d].append = fd[d].append
                               /\ Moved(S)[d].sole => fd[d].sole
                               /\ Moved(S)[d].sole => d \in S \/ fsize' = fsize
BY Zenon DEF FileTypeOK, Moved

\* Opening a file, with O_TRUNC and O_APPEND or not.
LEMMA OpenStep ==
  ASSUME FileInv, NEW d \in Writers, NEW mode \in OpenModes, NEW trunc \in BOOLEAN,
         NEW append \in BOOLEAN, FileOpen(d, mode, trunc, append)
  PROVE  FileInv'
<1> USE FileDataAssumption DEF FileInv
<1>1. fsize' \in 0 .. fsize /\ (fsize' = fsize \/ fsize' = 0)
  BY DEF FileOpen, Cut, FileTypeOK
<1>2. FileTypeOK'
  <2>1. \A e \in Writers : fd'[e].mode = "closed" => fd'[e].pos = 0
    BY <1>1, MovedFacts DEF FileOpen, FileTypeOK
  <2> QED BY <1>1, <2>1, MovedFacts DEF FileOpen, Cut, FileTypeOK
<1>3. WithinBuffer'
  BY <1>1 DEF FileOpen, WithinBuffer, FileTypeOK
<1>4. ContentExact'
  BY <1>1 DEF FileOpen, Cut, ContentExact, FileTypeOK, Offsets
<1>5. NoGaps'
  <2> SUFFICES ASSUME ~behind'
      PROVE  /\ \A i \in Offsets : i < fsize' => want'[i] # Hole
             /\ \A e \in Writers : fd'[e].pos <= fsize'
    BY DEF NoGaps
  <2>1. ~behind
    BY DEF FileOpen, Cut
  <2>2. \A i \in Offsets : i < fsize' => want'[i] # Hole
    BY <1>1, <2>1 DEF FileOpen, Cut, NoGaps, FileTypeOK, Offsets
  <2>3. ASSUME NEW e \in Writers PROVE fd'[e].pos <= fsize'
    <3>1. CASE e = d
      BY <1>1, <3>1, MovedFacts DEF FileOpen, FileTypeOK
    <3>2. CASE e # d
      <4>1. fd'[e].pos = fd[e].pos
        BY <3>2, MovedFacts DEF FileOpen
      <4>2. fd[e].mode # "closed" => fd[e].pos <= fsize'
        BY <1>1, <2>1 DEF FileOpen, Cut, NoGaps, FileTypeOK
      <4> QED BY <1>1, <4>1, <4>2 DEF FileTypeOK
    <3> QED BY <3>1, <3>2
  <2> QED BY <2>2, <2>3
<1>6. AppendsAtEnd'
  BY <1>1, MovedFacts DEF FileOpen, AppendsAtEnd, FileTypeOK
<1>7. NoneBehind'
  BY <1>1 DEF FileOpen, Cut, NoneBehind, FileTypeOK, Offsets
<1> QED BY <1>2, <1>3, <1>4, <1>5, <1>6, <1>7

\* Closing a description.
LEMMA CloseStep ==
  ASSUME FileInv, NEW d \in Writers, FileClose(d)
  PROVE  FileInv'
BY DEF FileInv, FileClose, Closed, FileTypeOK, WithinBuffer, ContentExact, NoneBehind,
   NoGaps, AppendsAtEnd

\* A read moves the position of its description, never past the end.
LEMMA ReadStep ==
  ASSUME FileInv, NEW d \in Writers, NEW count \in Nat, FileRead(d, count)
  PROVE  FileInv'
<1> USE DEF FileInv
<1>1. fd[d].pos \in Nat
  BY DEF FileTypeOK
<1>2. PICK n \in Nat : /\ Len(ReadBytes(fd[d].pos, count)) = n
                       /\ fd[d].pos + n <= fsize \/ n = 0
  BY Zenon, <1>1, ReadResult
<1>3. fd' = [fd EXCEPT ![d].pos = fd[d].pos + n]
  BY <1>2 DEF FileRead, FileTypeOK
<1>4. FileTypeOK'
  <2>1. fd' \in [Writers -> [mode : OpenModes \cup {"closed"}, pos : Nat,
                            append : BOOLEAN, sole : BOOLEAN]]
    <3>1. fd[d] \in [mode : OpenModes \cup {"closed"}, pos : Nat,
                     append : BOOLEAN, sole : BOOLEAN] /\ fd[d].pos + n \in Nat
      BY <1>1 DEF FileTypeOK
    <3> QED BY <1>3, <3>1 DEF FileTypeOK
  <2>2. \A e \in Writers : fd'[e].mode = "closed" => fd'[e].pos = 0
    BY <1>3 DEF FileRead, FileTypeOK
  <2> QED BY <2>1, <2>2 DEF FileRead, FileTypeOK
<1>5. WithinBuffer' /\ ContentExact' /\ NoneBehind'
  BY DEF FileRead, WithinBuffer, ContentExact, NoneBehind
<1>6. NoGaps'
  BY <1>1, <1>2, <1>3 DEF FileRead, NoGaps, FileTypeOK
<1>7. AppendsAtEnd'
  BY <1>1, <1>2, <1>3 DEF FileRead, AppendsAtEnd, FileTypeOK
<1> QED BY <1>4, <1>5, <1>6, <1>7

\* The buffer after krealloc is long enough and no shorter than before.
LEMMA RoomEnough ==
  ASSUME NEW need \in Nat, NEW new \in Nat, capacity \in Nat, Room(need, new)
  PROVE  new >= need /\ new >= capacity
BY DEF Room, Grown

\* A write grows the buffer, puts the bytes and moves the end.
LEMMA WriteStep ==
  ASSUME FileInv, NEW d \in Writers, NEW count \in 1 .. MaxBytes, NEW b \in Bytes,
         FileWrite(d, count, b)
  PROVE  FileInv'
<1> USE FileDataAssumption DEF FileInv
<1> DEFINE pos == fd[d].pos
<1>1. pos \in Nat /\ count \in Nat /\ pos + count <= MaxBytes
  BY DEF FileWrite, FileTypeOK
<1>2. fsize' = IF pos + count > fsize THEN pos + count ELSE fsize
  BY DEF FileWrite
<1>3. capacity' \in Nat /\ capacity' >= pos + count /\ capacity' >= capacity
  <2>1. PICK new \in 0 .. 2 * (MaxBytes + FirstCap) : Room(pos + count, new) /\ capacity' = new
    BY DEF FileWrite
  <2>2. pos + count \in Nat /\ new \in Nat /\ capacity \in Nat
    BY <1>1 DEF FileTypeOK
  <2> QED BY <2>1, <2>2, RoomEnough
<1>4. fd' = [Moved({d}) EXCEPT ![d].pos = pos + count]
  BY DEF FileWrite
<1>5. FileTypeOK'
  <2>1. Moved({d}) \in [Writers -> [mode : OpenModes \cup {"closed"}, pos : Nat,
                                   append : BOOLEAN, sole : BOOLEAN]]
    BY MovedFacts
  <2>2. fd' \in [Writers -> [mode : OpenModes \cup {"closed"}, pos : Nat,
                            append : BOOLEAN, sole : BOOLEAN]]
    <3>1. pos + count \in Nat
      BY <1>1
    <3> HIDE DEF pos
    <3> QED BY Zenon, <1>4, <2>1, <3>1
  <2>3. \A e \in Writers : fd'[e].mode = "closed" => fd'[e].pos = 0
    BY <1>4, <2>1, MovedFacts DEF FileWrite, FileTypeOK
  <2>4. /\ content' \in [Offsets -> Bytes \cup {ZeroByte, Junk}]
        /\ want' \in [Offsets -> Bytes \cup {ZeroByte, Hole}]
        /\ behind' \in BOOLEAN
    BY DEF FileWrite, FileTypeOK
  <2>5. fsize' \in 0 .. MaxBytes
    BY <1>1, <1>2 DEF FileTypeOK
  <2> QED BY <1>3, <2>2, <2>3, <2>4, <2>5 DEF FileTypeOK
<1>6. WithinBuffer'
  BY <1>1, <1>2, <1>3 DEF WithinBuffer, FileTypeOK
<1>7. ContentExact'
  <2> SUFFICES ASSUME NEW i \in Offsets, i < fsize', want'[i] # Hole
      PROVE  content'[i] = want'[i]
    BY DEF ContentExact
  <2>1. CASE i \in pos .. pos + count - 1
    BY <2>1 DEF FileWrite
  <2>2. CASE i \notin pos .. pos + count - 1
    <3>1. content'[i] = content[i] /\ want'[i] = want[i]
      BY <2>2 DEF FileWrite
    <3>2. CASE i < fsize
      BY <3>1, <3>2 DEF ContentExact
    <3>3. CASE ~(i < fsize)
      BY <3>1, <3>3 DEF Offsets, FileTypeOK, NoneBehind
    <3> QED BY <3>2, <3>3
  <2> QED BY <2>1, <2>2
<1>8. NoGaps'
  <2> SUFFICES ASSUME ~behind
      PROVE  /\ \A i \in Offsets : i < fsize' => want'[i] # Hole
             /\ \A e \in Writers : fd'[e].pos <= fsize'
    BY Zenon DEF FileWrite, NoGaps
  <2>1. pos <= fsize
    BY DEF NoGaps
  <2>2. \A i \in Offsets : i < fsize' => want'[i] # Hole
    <3> SUFFICES ASSUME NEW i \in Offsets, i < fsize' PROVE want'[i] # Hole
      OBVIOUS
    <3>1. CASE i \in pos .. pos + count - 1
      BY <3>1 DEF FileWrite
    <3>2. CASE i \notin pos .. pos + count - 1
      <4>1. want'[i] = want[i]
        BY <3>2 DEF FileWrite
      <4>2. i < fsize
        BY <1>1, <1>2, <2>1, <3>2 DEF FileTypeOK, Offsets
      <4> QED BY <4>1, <4>2 DEF NoGaps
    <3> QED BY <3>1, <3>2
  <2>3. \A e \in Writers : fd'[e].pos <= fsize'
    BY <1>1, <1>2, <1>4, MovedFacts DEF NoGaps, FileTypeOK
  <2> QED BY <2>2, <2>3
<1>9. AppendsAtEnd'
  BY <1>1, <1>2, <1>4, MovedFacts DEF AppendsAtEnd, FileTypeOK
<1>10. NoneBehind'
  <2> SUFFICES ASSUME NEW i \in Offsets, i >= fsize' PROVE want'[i] = Hole
    BY DEF NoneBehind
  <2>1. i \notin pos .. pos + count - 1 /\ i >= fsize
    BY <1>1, <1>2 DEF FileTypeOK, Offsets
  <2>2. want'[i] = want[i]
    BY <2>1 DEF FileWrite
  <2> QED BY <2>1, <2>2 DEF NoneBehind
<1> QED BY <1>5, <1>6, <1>7, <1>8, <1>9, <1>10

\* ftruncate to a shorter file.
LEMMA ShrinkStep ==
  ASSUME FileInv, NEW d \in Writers, NEW len \in 0 .. MaxBytes, FileShrink(d, len)
  PROVE  FileInv'
<1> USE FileDataAssumption DEF FileInv
<1>1. fsize' = len /\ len < fsize
  BY DEF FileShrink, Cut
<1>2. FileTypeOK'
  BY <1>1, MovedFacts DEF FileShrink, Cut, FileTypeOK
<1>3. WithinBuffer'
  BY <1>1 DEF FileShrink, WithinBuffer, FileTypeOK
<1>4. ContentExact'
  BY <1>1 DEF FileShrink, Cut, ContentExact, FileTypeOK, Offsets
<1>5. NoGaps'
  <2> SUFFICES ASSUME ~behind'
      PROVE  /\ \A i \in Offsets : i < fsize' => want'[i] # Hole
             /\ \A e \in Writers : fd'[e].pos <= fsize'
    BY DEF NoGaps
  <2>1. ~behind
    BY Zenon DEF FileShrink, Cut
  <2>2. \A i \in Offsets : i < fsize' => want'[i] # Hole
    BY <1>1, <2>1 DEF FileShrink, Cut, NoGaps, FileTypeOK, Offsets
  <2>3. ASSUME NEW e \in Writers PROVE fd'[e].pos <= fsize'
    <3>1. fd'[e].pos = fd[e].pos
      BY MovedFacts DEF FileShrink
    <3>2. fd[e].mode # "closed" => fd[e].pos <= fsize'
      <4>1. ~(fd[e].mode # "closed" /\ fd[e].pos > len)
        BY Zenon DEF FileShrink, Cut
      <4> QED BY <1>1, <4>1 DEF FileTypeOK
    <3> QED BY <1>1, <3>1, <3>2 DEF FileTypeOK
  <2> QED BY <2>2, <2>3
<1>6. AppendsAtEnd'
  BY <1>1, MovedFacts DEF FileShrink, AppendsAtEnd, FileTypeOK
<1>7. NoneBehind'
  BY <1>1 DEF FileShrink, Cut, NoneBehind, FileTypeOK, Offsets
<1> QED BY <1>2, <1>3, <1>4, <1>5, <1>6, <1>7

\* ftruncate to a file at least as long: the new bytes are zero.
LEMMA ExtendStep ==
  ASSUME FileInv, NEW d \in Writers, NEW len \in 0 .. MaxBytes, FileExtend(d, len)
  PROVE  FileInv'
<1> USE FileDataAssumption DEF FileInv
<1>1. fsize' = len /\ len >= fsize /\ fd' = Moved({})
  BY DEF FileExtend
<1>2. capacity' \in Nat /\ capacity' >= len
  <2>1. PICK new \in 0 .. 2 * (MaxBytes + FirstCap) : Room(len, new) /\ capacity' = new
    BY DEF FileExtend
  <2>2. len \in Nat /\ new \in Nat /\ capacity \in Nat
    BY DEF FileTypeOK
  <2> QED BY <2>1, <2>2, RoomEnough
<1>3. FileTypeOK'
  BY <1>1, <1>2, MovedFacts DEF FileExtend, FileTypeOK
<1>4. WithinBuffer'
  BY <1>1, <1>2 DEF WithinBuffer
<1>5. ContentExact'
  BY <1>1 DEF FileExtend, ContentExact, FileTypeOK, Offsets
<1>6. NoGaps'
  <2>1. ASSUME ~behind, NEW i \in Offsets, i < fsize'
        PROVE  want'[i] # Hole
    <3>1. CASE i < fsize
      BY <1>1, <2>1, <3>1 DEF FileExtend, NoGaps, FileTypeOK, Offsets
    <3>2. CASE ~(i < fsize)
      <4>1. want'[i] = ZeroByte
        BY <1>1, <2>1, <3>2 DEF FileExtend, FileTypeOK, Offsets
      <4> QED BY <4>1
    <3> QED BY <3>1, <3>2
  <2>2. ASSUME ~behind, NEW e \in Writers PROVE fd'[e].pos <= fsize'
    BY <1>1, <2>2, MovedFacts DEF NoGaps, FileTypeOK
  <2> QED BY <2>1, <2>2 DEF FileExtend, NoGaps
<1>7. AppendsAtEnd'
  BY <1>1, MovedFacts DEF AppendsAtEnd, FileTypeOK
<1>8. NoneBehind'
  BY <1>1 DEF FileExtend, NoneBehind, FileTypeOK, Offsets
<1> QED BY <1>3, <1>4, <1>5, <1>6, <1>7, <1>8

\* Every step of the file keeps the invariant.
LEMMA FileInvStep == FileInv /\ [FileNext]_fileVars => FileInv'
<1> SUFFICES ASSUME FileInv, [FileNext]_fileVars PROVE FileInv'
  OBVIOUS
<1>1. ASSUME NEW d \in Writers, NEW mode \in OpenModes, NEW trunc \in BOOLEAN,
             NEW append \in BOOLEAN, FileOpen(d, mode, trunc, append)
      PROVE  FileInv'
  BY <1>1, OpenStep
<1>2. ASSUME NEW d \in Writers, FileClose(d) PROVE FileInv'
  BY <1>2, CloseStep
<1>3. ASSUME NEW d \in Writers, NEW n \in 1 .. MaxBytes, FileRead(d, n) PROVE FileInv'
  BY <1>3, ReadStep
<1>4. ASSUME NEW d \in Writers, NEW n \in 1 .. MaxBytes, NEW b \in Bytes, FileWrite(d, n, b)
      PROVE  FileInv'
  BY <1>4, WriteStep
<1>5. ASSUME NEW d \in Writers, NEW n \in 0 .. MaxBytes, FileShrink(d, n) PROVE FileInv'
  BY <1>5, ShrinkStep
<1>6. ASSUME NEW d \in Writers, NEW n \in 0 .. MaxBytes, FileExtend(d, n) PROVE FileInv'
  BY <1>6, ExtendStep
<1>7. CASE UNCHANGED fileVars
  BY <1>7 DEF fileVars, FileInv, FileTypeOK, WithinBuffer, ContentExact, NoneBehind,
              NoGaps, AppendsAtEnd
<1> QED BY <1>1, <1>2, <1>3, <1>4, <1>5, <1>6, <1>7 DEF FileNext

-----------------------------------------------------------------------------
\* FileInv holds in every reachable state.
LEMMA FileInvAlways == FileSpec => []FileInv
BY FileInvInit, FileInvStep, PTL DEF FileSpec

\* The state of a file has its types, for every value of the constants.
LEMMA FileTypes == FileSpec => []FileTypeOK
BY FileInvAlways, PTL DEF FileInv

\* file_read and vfs_pread never copy from behind the buffer, and file_write
\* and vfs_ftruncate have grown it enough.
LEMMA FileWithinBuffer == FileSpec => []WithinBuffer
BY FileInvAlways, PTL DEF FileInv

\* The file holds what was last written, through whichever description.
LEMMA FileContent == FileSpec => []ContentExact
BY FileInvAlways, PTL DEF FileInv

\* A file that was never truncated behind a description has no gaps.
LEMMA FileNoGaps == FileSpec => []NoGaps
BY FileInvAlways, PTL DEF FileInv

\* A sole appender writes at the end.
THEOREM FileAppends == FileSpec => []AppendsAtEnd
BY FileInvAlways, PTL DEF FileInv

\* Every read returns what was last written, up to the end of the file.
LEMMA FileReads == FileSpec => []ReadExact
<1>1. FileInv => ReadExact
  <2> SUFFICES ASSUME FileInv, NEW from \in 0 .. MaxBytes, NEW count \in 1 .. MaxBytes
      PROVE  LET r == ReadBytes(from, count)
             IN  /\ \A i \in DOMAIN r :
                      want[from + i - 1] # Hole => r[i] = want[from + i - 1]
                 /\ Len(r) < count => from + Len(r) >= fsize
    BY DEF ReadExact
  <2> USE FileDataAssumption DEF FileInv
  <2>1. PICK n \in Nat :
           /\ n = IF from >= fsize THEN 0
                  ELSE IF count < fsize - from THEN count ELSE fsize - from
           /\ ReadBytes(from, count) = [i \in 1 .. n |-> content[from + i - 1]]
           /\ Len(ReadBytes(from, count)) = n
           /\ from + n <= fsize \/ n = 0
    <3>1. from \in Nat /\ count \in Nat
      OBVIOUS
    <3> QED BY <3>1, ReadResult, Zenon
  <2>2. ASSUME NEW i \in 1 .. n, want[from + i - 1] # Hole
        PROVE  content[from + i - 1] = want[from + i - 1]
    <3>1. from + i - 1 \in Offsets /\ from + i - 1 < fsize
      BY <2>1 DEF FileTypeOK, Offsets
    <3> QED BY <2>2, <3>1 DEF ContentExact
  <2>3. n < count => from + n >= fsize
    BY <2>1 DEF FileTypeOK
  <2> QED BY <2>1, <2>2, <2>3
<1> QED BY <1>1, FileInvAlways, PTL

\* A file lies in its buffer, holds and returns what was last written, and has
\* no gaps, for any number of descriptions and any sequence of calls.
THEOREM FileIsExact == FileSpec => []FileExact
BY FileTypes, FileWithinBuffer, FileContent, FileReads, FileNoGaps, PTL DEF FileExact

-----------------------------------------------------------------------------
(* The terminal (Tty.tla).                                                  *)

-----------------------------------------------------------------------------
(* Sequences.                                                               *)

\* Sequences with the same elements are the same sequence.
LEMMA SameSeq ==
  ASSUME NEW S, NEW s \in Seq(S), NEW t \in Seq(S), Len(s) = Len(t),
         \A i \in 1 .. Len(s) : s[i] = t[i]
  PROVE  s = t
OBVIOUS

\* Appending is concatenating a sequence of one.
LEMMA AppendOne ==
  ASSUME NEW S, NEW s \in Seq(S), NEW e \in S
  PROVE  Append(s, e) = s \o <<e>>
OBVIOUS

\* Concatenation is associative.
LEMMA Regroup ==
  ASSUME NEW S, NEW s \in Seq(S), NEW t \in Seq(S), NEW u \in Seq(S)
  PROVE  s \o (t \o u) = (s \o t) \o u
OBVIOUS

-----------------------------------------------------------------------------
(* The ring.                                                                *)

\* The head or tail index stays inside the ring.
LEMMA IncIndex ==
  ASSUME NEW i \in 0 .. RingSize - 1
  PROVE  Inc(i) \in 0 .. RingSize - 1
BY TtyAssumption DEF Inc

(* A window is a sequence; a push appends to it and a pop takes its head.   *)
LEMMA WindowType ==
  ASSUME NEW b \in [0 .. RingSize - 1 -> Event],
         NEW h \in 0 .. RingSize - 1, NEW t \in 0 .. RingSize - 1
  PROVE  /\ Count(h, t) \in 0 .. RingSize - 1
         /\ \A i \in 0 .. Count(h, t) : Slot(t, i) \in 0 .. RingSize - 1
         /\ Window(b, h, t) \in Seq(Event)
         /\ Len(Window(b, h, t)) = Count(h, t)
<1>1. Count(h, t) \in 0 .. RingSize - 1
  BY TtyAssumption DEF Count
<1>2. \A i \in 0 .. Count(h, t) : Slot(t, i) \in 0 .. RingSize - 1
  BY <1>1, TtyAssumption DEF Count, Slot
<1>3. \A i \in 1 .. Count(h, t) : b[Slot(t, i - 1)] \in Event
  <2> TAKE i \in 1 .. Count(h, t)
  <2>1. i - 1 \in 0 .. Count(h, t)
    BY <1>1, TtyAssumption
  <2> QED
    BY <2>1, <1>2
<1>4. Window(b, h, t) \in [1 .. Count(h, t) -> Event]
  BY <1>3 DEF Window
<1> QED
  BY <1>1, <1>2, <1>4

\* A byte stored at head lengthens the ring's window by that byte.
LEMMA WindowPush ==
  ASSUME NEW b \in [0 .. RingSize - 1 -> Event],
         NEW h \in 0 .. RingSize - 1, NEW t \in 0 .. RingSize - 1,
         NEW e \in Event, Inc(h) # t
  PROVE  Window([b EXCEPT ![h] = e], Inc(h), t) = Append(Window(b, h, t), e)
<1> DEFINE b2 == [b EXCEPT ![h] = e]
<1> DEFINE n == Count(h, t)
<1>1. b2 \in [0 .. RingSize - 1 -> Event] /\ Inc(h) \in 0 .. RingSize - 1
  BY IncIndex
<1>2. n \in 0 .. RingSize - 1 /\ Count(Inc(h), t) = n + 1
  BY TtyAssumption DEF Count, Inc
<1>3. /\ Window(b, h, t) \in Seq(Event) /\ Len(Window(b, h, t)) = n
      /\ Window(b2, Inc(h), t) \in Seq(Event)
      /\ Len(Window(b2, Inc(h), t)) = n + 1
  BY Zenon, <1>1, <1>2, WindowType
<1>4. Append(Window(b, h, t), e) \in Seq(Event) /\ Len(Append(Window(b, h, t), e)) = n + 1
  BY <1>3
<1>5. Slot(t, n) = h
  BY TtyAssumption DEF Slot, Count
<1>6. ASSUME NEW i \in 1 .. n + 1
      PROVE  Window(b2, Inc(h), t)[i] = Append(Window(b, h, t), e)[i]
  <2>1. Window(b2, Inc(h), t)[i] = b2[Slot(t, i - 1)]
    BY <1>2 DEF Window
  <2>2. CASE i = n + 1
    BY <2>1, <2>2, <1>2, <1>3, <1>5
  <2>3. CASE i \in 1 .. n
    <3>1. i - 1 \in 0 .. n - 1
      BY <2>3, <1>2
    <3>2. Slot(t, i - 1) \in 0 .. RingSize - 1 /\ Slot(t, i - 1) # h
      BY <3>1, TtyAssumption DEF Slot, Count
    <3>3. Window(b, h, t)[i] = b[Slot(t, i - 1)]
      BY <2>3 DEF Window
    <3>4. Append(Window(b, h, t), e)[i] = Window(b, h, t)[i]
      BY <2>3, <1>2, <1>3
    <3> QED
      BY <2>1, <3>2, <3>3, <3>4
  <2>4. i = n + 1 \/ i \in 1 .. n
    BY <1>2, TtyAssumption
  <2> QED
    BY Zenon, <2>2, <2>3, <2>4
<1>7. Window(b2, Inc(h), t) = Append(Window(b, h, t), e)
  <2> DEFINE u == Window(b2, Inc(h), t)
  <2> DEFINE v == Append(Window(b, h, t), e)
  <2>1. u \in Seq(Event) /\ v \in Seq(Event) /\ Len(u) = n + 1 /\ Len(v) = n + 1
    BY <1>3, <1>4
  <2>2. \A i \in 1 .. n + 1 : u[i] = v[i]
    BY Zenon, <1>6
  <2> HIDE DEF u, v, n
  <2>3. \A i \in 1 .. Len(u) : u[i] = v[i]
    BY <2>1, <2>2
  <2>4. u = v
    BY <2>1, <2>3, SameSeq
  <2> QED
    BY Zenon, <2>4 DEF u, v
<1> HIDE DEF b2
<1> QED
  BY Zenon, <1>7 DEF b2

\* A byte taken at tail shortens the window by its first byte.
LEMMA WindowPop ==
  ASSUME NEW b \in [0 .. RingSize - 1 -> Event],
         NEW h \in 0 .. RingSize - 1, NEW t \in 0 .. RingSize - 1, h # t
  PROVE  Window(b, h, t) = <<b[t]>> \o Window(b, h, Inc(t))
<1> DEFINE n == Count(h, t)
<1>1. Inc(t) \in 0 .. RingSize - 1
  BY IncIndex
<1>2. n \in 1 .. RingSize - 1 /\ Count(h, Inc(t)) = n - 1
  BY TtyAssumption DEF Count, Inc
<1>3. /\ Window(b, h, t) \in Seq(Event) /\ Len(Window(b, h, t)) = n
      /\ Window(b, h, Inc(t)) \in Seq(Event) /\ Len(Window(b, h, Inc(t))) = n - 1
  BY <1>1, <1>2, WindowType
<1>4. b[t] \in Event
  OBVIOUS
<1>5. /\ <<b[t]>> \o Window(b, h, Inc(t)) \in Seq(Event)
      /\ Len(<<b[t]>> \o Window(b, h, Inc(t))) = n
  BY <1>2, <1>3, <1>4
<1>6. ASSUME NEW i \in 1 .. n
      PROVE  Window(b, h, t)[i] = (<<b[t]>> \o Window(b, h, Inc(t)))[i]
  <2>1. Window(b, h, t)[i] = b[Slot(t, i - 1)]
    BY DEF Window
  <2>2. CASE i = 1
    <3>1. Slot(t, i - 1) = t
      BY <2>2, TtyAssumption DEF Slot
    <3> QED
      BY <2>1, <2>2, <3>1, <1>3
  <2>3. CASE i \in 2 .. n
    <3>1. i - 1 \in 1 .. n - 1 /\ i - 2 \in 0 .. n - 2
      BY <2>3, <1>2
    <3>2. Slot(t, i - 1) = Slot(Inc(t), i - 2)
      BY <3>1, <1>2, TtyAssumption DEF Slot, Inc, Count
    <3>3. Window(b, h, Inc(t))[i - 1] = b[Slot(Inc(t), i - 2)]
      BY <3>1, <1>2 DEF Window
    <3>4. (<<b[t]>> \o Window(b, h, Inc(t)))[i] = Window(b, h, Inc(t))[i - 1]
      BY <3>1, <2>3, <1>2, <1>3
    <3> QED
      BY Zenon, <2>1, <3>2, <3>3, <3>4
  <2>4. i = 1 \/ i \in 2 .. n
    BY <1>2, TtyAssumption
  <2> QED
    BY Zenon, <2>2, <2>3, <2>4
<1> DEFINE u == Window(b, h, t)
<1> DEFINE v == <<b[t]>> \o Window(b, h, Inc(t))
<1>7. u \in Seq(Event) /\ v \in Seq(Event) /\ Len(u) = n /\ Len(v) = n
  BY <1>3, <1>5
<1>8. \A i \in 1 .. n : u[i] = v[i]
  BY Zenon, <1>6
<1> HIDE DEF u, v, n
<1>9. \A i \in 1 .. Len(u) : u[i] = v[i]
  BY <1>7, <1>8
<1>10. u = v
  BY <1>7, <1>9, SameSeq
<1> QED
  BY <1>10 DEF u, v

-----------------------------------------------------------------------------
(* The inductive invariant.                                                 *)

\* What a consumer relies on between its check of the ring and its pop: it is
\* alone there, the ring is not empty, and its copy is still the oldest event.
Alone ==
  ~raced => /\ \A p, q \in Pids : p # q => ~ (pc[p] \in Inside /\ pc[q] \in Inside)
            /\ \A p \in Pids : pc[p] \in {"take", "pop"} => head # tail
            /\ \A p \in Pids : pc[p] = "pop" => ev[p] = buffer[tail]

HistoryOK == sent \in Seq(Event) /\ taken \in Seq(Event)

RingInv == TypeOK /\ HistoryOK /\ Alone /\ RingExact

\* The same for the ownership, without preemption: the check of the owner
\* stays true until the pop because nobody else moves.
OwnerInv ==
  /\ ~preempt => \A p, q \in Pids : p # q => ~ (pc[p] \in Inside /\ pc[q] \in Inside)
  /\ ~preempt => \A p \in Pids :
       pc[p] \in {"ring", "take", "pop"} =>
         /\ dev[p] = "tty" => owner = p
         /\ dev[p] = "shell" => owner \in {Nobody, Shell}

\* Only tty_read claims, and only the shell prompts.
DevInv ==
  \A p \in Pids : /\ pc[p] = "claim" => dev[p] = "tty"
                  /\ pc[p] # "idle" /\ dev[p] = "shell" => p = Shell

\* The three kinds of pid are told apart.
LEMMA PidTypes == Shell \in Pids /\ Tasks \subseteq Pids /\ Nobody \notin Pids
BY TtyAssumption DEF Pids, Nobody

\* Each step is one call of one consumer, a command of the shell, or the
\* interrupt; History only adds to the flags.
LEMMA StepCases ==
  ASSUME TypeOK, Next
  PROVE  /\ History /\ UNCHANGED preempt
         /\ \/ \E p \in Pids : /\ MayRun(p)
                               /\ p \in alive \/ p = Shell
                               /\ InCall(p) \/ TtyRead(p) \/ KbdRead(p)
            \/ \E p \in alive : MayRun(p) /\ (Exit(p) \/ SetCanon(p))
            \/ MayRun(Shell) /\ (Prompt \/ Command \/ Wait)
            \/ \E k \in Kinds : Press(k)
BY PidTypes, TtyAssumption DEF Next, Run, ShellStep, Proceed, Pids, TypeOK

\* The ring starts empty.
LEMMA RingInit == Init => RingInv
<1> SUFFICES ASSUME Init PROVE RingInv
  OBVIOUS
<1>1. TypeOK
  BY TtyAssumption DEF Init, TypeOK, Event, NoEvent, AllKinds, Places
<1>2. HistoryOK
  BY DEF Init, HistoryOK
<1>3. Alone
  BY DEF Init, Alone, Inside
<1>4. Window(buffer, head, tail) = <<>>
  BY DEF Init, Window, Count
<1>5. RingExact
  BY <1>4 DEF Init, RingExact
<1> QED
  BY <1>1, <1>2, <1>3, <1>5 DEF RingInv

\* Types, action by action.
LEMMA TypeStep == TypeOK /\ [Next]_vars => TypeOK'
<1> SUFFICES ASSUME TypeOK, [Next]_vars PROVE TypeOK'
  OBVIOUS
<1>1. CASE UNCHANGED vars
  BY <1>1 DEF TypeOK, vars
<1> SUFFICES ASSUME Next PROVE TypeOK'
  BY <1>1
<1>p. UNCHANGED preempt
  BY StepCases
<1> USE <1>p, TtyAssumption, PidTypes
<1>2. ASSUME NEW p \in Pids, InCall(p) PROVE TypeOK'
  <2>1. CASE Look(p)
    BY Zenon, <2>1 DEF Look, TypeOK, Goto, Places, ringVars
  <2>2. CASE Claim(p)
    BY <2>2 DEF Claim, TypeOK, Goto, Places, ringVars
  <2>3. CASE Ring(p)
    BY <2>3 DEF Ring, TypeOK, Goto, Places, ringVars
  <2>4. CASE Take(p)
    BY <2>4 DEF Take, TypeOK, Goto, Places, ringVars
  <2>5. CASE Pop(p)
    <3>1. /\ pc' \in [Pids -> Places] /\ sh' \in {"prompt", "command", "cat", "wait"}
      BY Zenon, <2>5 DEF Pop, AfterPop, TypeOK, Goto, Places
    <3>2. tail' \in 0 .. RingSize - 1
      BY <2>5, IncIndex DEF Pop, TypeOK
    <3>3. ev' \in [Pids -> Event]
      BY <2>5 DEF Pop, TypeOK, Event, NoEvent, AllKinds
    <3> QED
      BY <2>5, <3>1, <3>2, <3>3 DEF Pop, TypeOK
  <2> QED
    BY <1>2, <2>1, <2>2, <2>3, <2>4, <2>5 DEF InCall
<1>3. ASSUME NEW p \in Pids, TtyRead(p) \/ KbdRead(p) PROVE TypeOK'
  <2>1. lcanon' \in [Pids -> BOOLEAN]
    <3>1. lcanon' = lcanon \/ lcanon' = [lcanon EXCEPT ![p] = canon]
      BY <1>3 DEF TtyRead, KbdRead
    <3> QED
      BY <3>1, Zenon DEF TypeOK
  <2>2. pc' \in [Pids -> Places] /\ dev' \in [Pids -> {"shell", "tty", "kbd"}]
    BY <1>3 DEF TtyRead, KbdRead, TypeOK, Goto, Places
  <2> QED
    BY Zenon, <1>3, <2>1, <2>2 DEF TtyRead, KbdRead, TypeOK, ringVars
<1>4. ASSUME NEW p \in alive, Exit(p) \/ SetCanon(p) PROVE TypeOK'
  BY Zenon, <1>4 DEF Exit, SetCanon, TypeOK, ringVars, callVars
<1>5. CASE Prompt
  BY <1>5 DEF Prompt, TypeOK, Goto, Places, ringVars
<1>6. CASE Command
  BY Zenon, <1>6 DEF Command, TypeOK, ringVars, callVars
<1>7. CASE Wait
  BY <1>7 DEF Wait, TypeOK, ringVars, callVars
<1>8. ASSUME NEW k \in Kinds, Press(k) PROVE TypeOK'
  <2>1. [id |-> keys + 1, kind |-> k] \in Event /\ Inc(head) \in 0 .. RingSize - 1
    BY <1>8, IncIndex DEF Press, TypeOK, Event
  <2>2. buffer' \in [0 .. RingSize - 1 -> Event] /\ head' \in 0 .. RingSize - 1
    BY Zenon, <1>8, <2>1 DEF Press, TypeOK
  <2>3. keys' \in 0 .. MaxKeys
    BY <1>8 DEF Press, TypeOK
  <2> QED
    BY <1>8, <2>2, <2>3 DEF Press, TypeOK, callVars
<1> QED
  BY <1>2, <1>3, <1>4, <1>5, <1>6, <1>7, <1>8, StepCases

\* Actions that touch neither the ring nor anybody's place inside a call.
Outside ==
  /\ UNCHANGED <<buffer, head, tail, sent, taken, ev>>
  /\ \A p \in Pids : pc'[p] \in {"take", "pop"} => pc'[p] = pc[p]

\* What the actions outside the ring leave alone.
LEMMA OutsideActions ==
  ASSUME TypeOK,
         \/ \E p \in Pids : Look(p) /\ dev[p] # "kbd"
         \/ \E p \in Pids : Claim(p) \/ TtyRead(p) \/ KbdRead(p)
         \/ \E p \in alive : Exit(p) \/ SetCanon(p)
         \/ Prompt \/ Command \/ Wait
  PROVE  Outside
<1> USE DEF TypeOK, Outside, Goto, ringVars, histVars, callVars
<1>1. ASSUME NEW p \in Pids, Look(p), dev[p] # "kbd" PROVE Outside
  BY Zenon, <1>1 DEF Look
<1>2. ASSUME NEW p \in Pids, Claim(p) \/ TtyRead(p) \/ KbdRead(p) PROVE Outside
  BY Zenon, <1>2 DEF Claim, TtyRead, KbdRead
<1>3. ASSUME NEW p \in alive, Exit(p) \/ SetCanon(p) PROVE Outside
  BY <1>3 DEF Exit, SetCanon
<1>4. ASSUME Prompt \/ Command \/ Wait PROVE Outside
  BY Zenon, <1>4, PidTypes DEF Prompt, Command, Wait
<1> QED
  BY <1>1, <1>2, <1>3, <1>4

\* The first race is noted when it begins.
LEMMA NotYetRaced ==
  ASSUME History, ~raced'
  PROVE  /\ ~raced
         /\ \A p, q \in Pids : p # q => ~ (pc'[p] \in Inside /\ pc'[q] \in Inside)
BY Zenon DEF History

\* Every step keeps the ring exact.
LEMMA RingStep == RingInv /\ [Next]_vars => RingInv'
<1> SUFFICES ASSUME RingInv, [Next]_vars PROVE RingInv'
  OBVIOUS
<1> USE DEF RingInv
<1>1. CASE UNCHANGED vars
  <2>1. Alone'
    BY Zenon, <1>1 DEF Alone, vars
  <2>2. RingExact' /\ HistoryOK'
    BY <1>1 DEF RingExact, HistoryOK, vars
  <2> QED
    BY <2>1, <2>2, TypeStep
<1> SUFFICES ASSUME Next PROVE RingInv'
  BY <1>1
<1>t. TypeOK'
  BY TypeStep
<1>h. History
  BY StepCases
<1>w. Window(buffer, head, tail) \in Seq(Event)
  BY WindowType DEF TypeOK
<1>2. CASE Outside
  <2>1. Alone'
    <3> SUFFICES ASSUME ~raced' PROVE Alone'
      BY DEF Alone
    <3>1. ~raced /\ \A p, q \in Pids : p # q => ~ (pc'[p] \in Inside /\ pc'[q] \in Inside)
      BY <1>h, NotYetRaced
    <3> QED
      BY <1>2, <3>1 DEF Outside, Alone
  <2>2. RingExact' /\ HistoryOK'
    <3>1. ~raced' => ~raced
      BY <1>h, NotYetRaced
    <3> QED
      BY <1>2, <3>1 DEF Outside, RingExact, HistoryOK
  <2> QED
    BY <1>t, <2>1, <2>2
<1>3. ASSUME NEW p \in Pids, (Look(p) /\ dev[p] = "kbd") \/ Ring(p) PROVE RingInv'
  <2>0. /\ UNCHANGED <<buffer, head, tail, sent, taken, ev>>
        /\ \/ pc' = [pc EXCEPT ![p] = "take"] /\ head # tail
           \/ pc' = [pc EXCEPT ![p] = "look"]
    BY Zenon, <1>3 DEF Look, Ring, Goto, ringVars, histVars
  <2>1. Alone'
    <3> SUFFICES ASSUME ~raced' PROVE Alone'
      BY DEF Alone
    <3>1. ~raced /\ \A q, r \in Pids : q # r => ~ (pc'[q] \in Inside /\ pc'[r] \in Inside)
      BY <1>h, NotYetRaced
    <3>2. \A q \in Pids : pc'[q] \in {"take", "pop"} => head' # tail'
      BY <2>0, <3>1 DEF Alone, TypeOK
    <3>3. \A q \in Pids : pc'[q] = "pop" => ev'[q] = buffer'[tail']
      BY <2>0, <3>1 DEF Alone, TypeOK
    <3> QED
      BY <3>1, <3>2, <3>3 DEF Alone
  <2>2. RingExact' /\ HistoryOK'
    <3>1. ~raced' => ~raced
      BY <1>h, NotYetRaced
    <3> QED
      BY <2>0, <3>1 DEF RingExact, HistoryOK
  <2> QED
    BY <1>t, <2>1, <2>2
<1>4. ASSUME NEW p \in Pids, Take(p) PROVE RingInv'
  <2>0. /\ UNCHANGED <<buffer, head, tail, sent, taken>>
        /\ pc[p] = "take" /\ pc' = [pc EXCEPT ![p] = "pop"]
        /\ ev' = [ev EXCEPT ![p] = buffer[tail]]
    BY <1>4 DEF Take, Goto, ringVars, histVars
  <2>1. Alone'
    <3> SUFFICES ASSUME ~raced' PROVE Alone'
      BY DEF Alone
    <3>1. ~raced /\ \A q, r \in Pids : q # r => ~ (pc'[q] \in Inside /\ pc'[r] \in Inside)
      BY <1>h, NotYetRaced
    <3>2. \A q \in Pids : pc'[q] \in {"take", "pop"} => head' # tail'
      BY <2>0, <3>1 DEF Alone, TypeOK
    <3>3. \A q \in Pids : pc'[q] = "pop" => ev'[q] = buffer'[tail']
      BY <2>0, <3>1 DEF Alone, TypeOK
    <3> QED
      BY <3>1, <3>2, <3>3 DEF Alone
  <2>2. RingExact' /\ HistoryOK'
    <3>1. ~raced' => ~raced
      BY <1>h, NotYetRaced
    <3> QED
      BY <2>0, <3>1 DEF RingExact, HistoryOK
  <2> QED
    BY <1>t, <2>1, <2>2
<1>5. ASSUME NEW p \in Pids, Pop(p) PROVE RingInv'
  <2>0. /\ UNCHANGED <<buffer, head, sent>> /\ tail' = Inc(tail)
        /\ taken' = IF raced THEN taken ELSE Append(taken, ev[p])
        /\ pc[p] = "pop" /\ \E q \in {"look", "idle"} : pc' = [pc EXCEPT ![p] = q]
    BY Zenon, <1>5 DEF Pop, AfterPop, Goto, Log, TypeOK
  <2>1. Alone'
    <3> SUFFICES ASSUME ~raced' PROVE Alone'
      BY DEF Alone
    <3>1. ~raced /\ \A q, r \in Pids : q # r => ~ (pc'[q] \in Inside /\ pc'[r] \in Inside)
      BY <1>h, NotYetRaced
    <3>2. \A q \in Pids : pc'[q] \notin {"take", "pop"}
      BY Zenon, <2>0, <3>1 DEF Alone, TypeOK, Inside
    <3> QED
      BY Zenon, <3>1, <3>2 DEF Alone
  <2>2. RingExact'
    <3> SUFFICES ASSUME ~raced' PROVE sent' = taken' \o Window(buffer, head, tail)'
      BY DEF RingExact
    <3>1. ~raced
      BY <1>h, NotYetRaced
    <3>2. head # tail /\ ev[p] = buffer[tail] /\ ev[p] \in Event
      BY <2>0, <3>1 DEF Alone, TypeOK
    <3> DEFINE w == Window(buffer, head, Inc(tail))
    <3>3. Window(buffer, head, tail) = <<ev[p]>> \o w
      BY Zenon, <3>2, WindowPop DEF TypeOK
    <3>4. w \in Seq(Event)
      BY WindowType, IncIndex DEF TypeOK
    <3>5. taken \in Seq(Event)
      BY DEF HistoryOK
    <3>6. sent = taken \o (<<ev[p]>> \o w)
      BY <3>1, <3>3 DEF RingExact
    <3>7. taken' = Append(taken, ev[p]) /\ Window(buffer, head, tail)' = w /\ sent' = sent
      BY <2>0, <3>1
    <3> HIDE DEF w
    <3>8. taken \o (<<ev[p]>> \o w) = Append(taken, ev[p]) \o w
      <4>1. <<ev[p]>> \in Seq(Event)
        BY <3>2
      <4>2. Append(taken, ev[p]) = taken \o <<ev[p]>>
        BY <3>2, <3>5, AppendOne
      <4> QED
        BY <4>1, <4>2, <3>4, <3>5, Regroup
    <3> QED
      BY <3>6, <3>7, <3>8
  <2>3. HistoryOK'
    <3>1. ev[p] \in Event
      BY DEF TypeOK
    <3> QED
      BY <2>0, <3>1 DEF HistoryOK
  <2> QED
    BY <1>t, <2>1, <2>2, <2>3
<1>6. ASSUME NEW k \in Kinds, Press(k) PROVE RingInv'
  <2> DEFINE e == [id |-> keys + 1, kind |-> k]
  <2>0. UNCHANGED <<tail, pc, ev, taken>> /\ e \in Event
    BY <1>6, TtyAssumption DEF Press, callVars, TypeOK, Event
  <2>1. \/ UNCHANGED <<buffer, head, sent>>
        \/ /\ Inc(head) # tail /\ buffer' = [buffer EXCEPT ![head] = e]
           /\ head' = Inc(head)
           /\ sent' = IF raced THEN sent ELSE Append(sent, e)
    BY <1>6 DEF Press, Log
  <2> HIDE DEF e
  <2>2. HistoryOK'
    <3>1. sent \in Seq(Event) /\ taken \in Seq(Event)
      BY DEF HistoryOK
    <3>2. sent' = sent \/ sent' = Append(sent, e)
      BY <2>1
    <3> QED BY <2>0, <3>1, <3>2 DEF HistoryOK
  <2>3. Alone'
    <3> SUFFICES ASSUME ~raced' PROVE Alone'
      BY DEF Alone
    <3>1. ~raced /\ \A q, r \in Pids : q # r => ~ (pc'[q] \in Inside /\ pc'[r] \in Inside)
      BY <1>h, NotYetRaced
    <3>2. \A q \in Pids : pc'[q] \in {"take", "pop"} => head' # tail'
      BY <2>0, <2>1, <3>1 DEF Alone, TypeOK
    <3>3. head # tail => buffer'[tail] = buffer[tail]
      BY Zenon, <2>1 DEF TypeOK
    <3>4. \A q \in Pids : pc'[q] = "pop" => ev'[q] = buffer'[tail']
      BY <2>0, <3>1, <3>3 DEF Alone, TypeOK
    <3> QED
      BY <3>1, <3>2, <3>4 DEF Alone
  <2>4. RingExact'
    <3> SUFFICES ASSUME ~raced' PROVE sent' = taken' \o Window(buffer, head, tail)'
      BY DEF RingExact
    <3>1. ~raced
      BY <1>h, NotYetRaced
    <3> DEFINE w == Window(buffer, head, tail)
    <3>2. sent = taken \o w /\ taken \in Seq(Event) /\ w \in Seq(Event)
      BY <3>1, <1>w DEF RingExact, HistoryOK
    <3>3. CASE UNCHANGED <<buffer, head, sent>>
      BY <3>2, <3>3, <2>0
    <3>4. CASE /\ Inc(head) # tail /\ buffer' = [buffer EXCEPT ![head] = e]
               /\ head' = Inc(head)
               /\ sent' = IF raced THEN sent ELSE Append(sent, e)
      <4>1. Window(buffer, head, tail)' = Append(w, e)
        BY Zenon, <3>4, <2>0, WindowPush DEF TypeOK
      <4>2. sent' = Append(sent, e)
        BY <3>1, <3>4
      <4> HIDE DEF w
      <4>3. Append(taken \o w, e) = taken \o Append(w, e)
        <5>1. Append(w, e) = w \o <<e>> /\ <<e>> \in Seq(Event)
          BY <3>2, <2>0, AppendOne
        <5>2. taken \o w \in Seq(Event)
          BY <3>2
        <5>3. Append(taken \o w, e) = (taken \o w) \o <<e>>
          BY <5>2, <2>0, AppendOne
        <5> QED
          BY <5>1, <5>3, <3>2, Regroup
      <4> QED
        BY Zenon, <4>1, <4>2, <4>3, <3>2, <2>0
    <3> QED
      BY <2>1, <3>3, <3>4
  <2> QED
    BY <1>t, <2>2, <2>3, <2>4
<1> QED
  BY <1>2, <1>3, <1>4, <1>5, <1>6, StepCases, OutsideActions DEF InCall

-----------------------------------------------------------------------------
(* Ownership.                                                               *)

\* Every step keeps the owner alive.
LEMMA AliveStep == TypeOK /\ OwnerAlive /\ [Next]_vars => OwnerAlive'
<1> SUFFICES ASSUME TypeOK, OwnerAlive, [Next]_vars PROVE OwnerAlive'
  OBVIOUS
<1> USE DEF OwnerAlive
<1>1. CASE UNCHANGED vars
  BY <1>1 DEF vars
<1>2. ASSUME NEW p \in Pids, p \in alive \/ p = Shell,
             InCall(p) \/ TtyRead(p) \/ KbdRead(p)
      PROVE  OwnerAlive'
  <2>1. CASE Claim(p)
    BY <1>2, <2>1 DEF Claim
  <2>2. CASE Look(p) \/ Ring(p) \/ Take(p)
    BY Zenon, <2>2 DEF Look, Ring, Take
  <2>3. CASE Pop(p)
    BY <2>3 DEF Pop
  <2>4. CASE TtyRead(p) \/ KbdRead(p)
    BY <2>4 DEF TtyRead, KbdRead
  <2> QED
    BY <1>2, <2>1, <2>2, <2>3, <2>4 DEF InCall
<1>3. ASSUME NEW p \in alive, Exit(p) \/ SetCanon(p) PROVE OwnerAlive'
  BY Zenon, <1>3 DEF Exit, SetCanon
<1>4. ASSUME Prompt \/ Command \/ Wait PROVE OwnerAlive'
  BY <1>4 DEF Prompt, Command, Wait
<1>5. ASSUME NEW k \in Kinds, Press(k) PROVE OwnerAlive'
  BY <1>5 DEF Press
<1> QED
  BY <1>1, <1>2, <1>3, <1>4, <1>5, StepCases

\* Every step keeps what the readers of the device hold.
LEMMA DevStep == TypeOK /\ DevInv /\ [Next]_vars => DevInv'
<1> SUFFICES ASSUME TypeOK, DevInv, [Next]_vars PROVE DevInv'
  OBVIOUS
<1> USE DEF DevInv
<1>1. CASE UNCHANGED vars
  BY Zenon, <1>1 DEF vars
<1>2. ASSUME NEW p \in Pids, InCall(p) PROVE DevInv'
  <2>1. CASE Look(p)
    BY Zenon, <2>1 DEF Look, Goto, TypeOK
  <2>2. CASE Claim(p) \/ Ring(p) \/ Take(p)
    BY <2>2 DEF Claim, Ring, Take, Goto, TypeOK
  <2>3. CASE Pop(p)
    <3>1. dev' = dev /\ pc[p] = "pop"
          /\ \E q \in {"look", "idle"} : pc' = [pc EXCEPT ![p] = q]
      BY Zenon, <2>3 DEF Pop, AfterPop, Goto, TypeOK
    <3> QED
      BY <3>1 DEF TypeOK
  <2> QED
    BY Zenon, <1>2, <2>1, <2>2, <2>3 DEF InCall
<1>3. ASSUME NEW p \in Pids, TtyRead(p) \/ KbdRead(p) PROVE DevInv'
  BY <1>3 DEF TtyRead, KbdRead, Goto, TypeOK
<1>4. ASSUME NEW p \in alive, Exit(p) \/ SetCanon(p) PROVE DevInv'
  BY Zenon, <1>4 DEF Exit, SetCanon, callVars
<1>5. CASE Prompt
  BY <1>5, PidTypes DEF Prompt, Goto, TypeOK
<1>7. CASE Command \/ Wait
  BY <1>7 DEF Command, Wait, callVars
<1>6. ASSUME NEW k \in Kinds, Press(k) PROVE DevInv'
  BY <1>6 DEF Press, callVars
<1> QED
  BY Zenon, <1>1, <1>2, <1>3, <1>4, <1>5, <1>6, <1>7, StepCases

\* Every step keeps consumption with the owner.
LEMMA OwnerStep == TypeOK /\ DevInv /\ OwnerInv /\ [Next]_vars => OwnerInv'
<1> SUFFICES ASSUME TypeOK, DevInv, OwnerInv, [Next]_vars PROVE OwnerInv'
  OBVIOUS
<1>1. CASE UNCHANGED vars
  <2>1. UNCHANGED <<preempt, pc, dev, owner>>
    BY <1>1 DEF vars
  <2> QED BY <2>1 DEF OwnerInv
<1> SUFFICES ASSUME Next, ~preempt PROVE OwnerInv'
  BY Zenon, <1>1, StepCases DEF OwnerInv
<1>p. preempt' = preempt
  BY StepCases
<1> DEFINE Holds(p) == pc[p] \in {"ring", "take", "pop"} =>
                         /\ dev[p] = "tty" => owner = p
                         /\ dev[p] = "shell" => owner \in {Nobody, Shell}
<1>0. /\ \A p, q \in Pids : p # q => ~ (pc[p] \in Inside /\ pc[q] \in Inside)
      /\ \A p \in Pids : Holds(p)
  BY DEF OwnerInv
<1>2. ASSUME NEW p \in Pids, MayRun(p),
             InCall(p) \/ TtyRead(p) \/ KbdRead(p)
      PROVE  OwnerInv'
  <2>1. \A q \in Pids \ {p} : pc[q] \notin Inside /\ pc'[q] = pc[q]
    <3>1. \A q \in Pids \ {p} : pc[q] \notin Inside
      BY <1>2 DEF MayRun
    <3>2. pc' = pc \/ \E x \in Places : pc' = [pc EXCEPT ![p] = x]
      <4>1. InCall(p) => \E x \in Places : pc' = [pc EXCEPT ![p] = x]
        BY Zenon DEF InCall, Look, Claim, Ring, Take, Pop, AfterPop, Goto, Places, TypeOK
      <4> QED
        BY <1>2, <4>1 DEF TtyRead, KbdRead, Goto, Places
    <3> QED
      BY <3>1, <3>2 DEF TypeOK
  <2>2. Holds(p)'
    <3>1. CASE Look(p)
      BY Zenon, <3>1 DEF Look, Goto, TypeOK, DevInv
    <3>2. CASE Claim(p)
      BY Zenon, <3>2 DEF Claim, DevInv
    <3>3. CASE Ring(p) \/ Take(p)
      BY <3>3, <1>0 DEF Ring, Take, Goto, TypeOK
    <3>4. CASE Pop(p)
      BY Zenon, <3>4 DEF Pop, AfterPop, Goto, TypeOK
    <3>5. CASE TtyRead(p) \/ KbdRead(p)
      BY <3>5 DEF TtyRead, KbdRead, Goto, TypeOK
    <3> QED
      BY Zenon, <1>2, <3>1, <3>2, <3>3, <3>4, <3>5 DEF InCall
  <2>3. \A q \in Pids \ {p} : pc'[q] \notin {"ring", "take", "pop"}
    BY <2>1 DEF Inside
  <2> QED
    BY <2>1, <2>2, <2>3, <1>p DEF OwnerInv
<1>3. ASSUME NEW p \in alive, MayRun(p), Exit(p) \/ SetCanon(p) PROVE OwnerInv'
  <2>1. p \in Pids /\ pc[p] = "idle" /\ UNCHANGED <<pc, dev>>
    BY <1>3, PidTypes DEF Exit, SetCanon, callVars, TypeOK
  <2>2. \A q \in Pids : pc[q] \notin Inside
    BY <1>3, <2>1 DEF MayRun, Inside
  <2> QED
    BY <2>1, <2>2 DEF OwnerInv, Inside
<1>4. ASSUME MayRun(Shell), Prompt \/ Command PROVE OwnerInv'
  <2>1. pc[Shell] = "idle" /\ Shell \in Pids
        /\ (pc' = pc \/ pc' = [pc EXCEPT ![Shell] = "look"])
    BY <1>4, PidTypes DEF Prompt, Command, callVars, Goto
  <2>2. \A q \in Pids : pc'[q] \notin Inside
    BY <1>4, <2>1 DEF MayRun, Inside, TypeOK
  <2> QED
    BY Zenon, <2>2 DEF OwnerInv, Inside
<1>5. CASE Wait
  BY Zenon, <1>5, <1>p, <1>0 DEF Wait, callVars, OwnerInv
<1>6. ASSUME NEW k \in Kinds, Press(k) PROVE OwnerInv'
  BY Zenon, <1>6, <1>p, <1>0 DEF Press, callVars, OwnerInv
<1> QED
  BY <1>2, <1>3, <1>4, <1>5, <1>6, StepCases

-----------------------------------------------------------------------------
(* The bytes tty_read returns.                                              *)

InTty(p) == pc[p] # "idle" /\ dev[p] = "tty"

Byte == Nat \X Nat

\* A task only waits in tty_read when no byte is pending, and only there can
\* the pending bytes be replaced.
StreamInv ==
  /\ pend \in Seq(Byte) /\ ttyIn \in Seq(Byte) /\ ttyOut \in Seq(Byte)
  /\ ~overlap => /\ \A p, q \in Pids : p # q => ~ (InTty(p) /\ InTty(q))
                 /\ \A p \in Pids : InTty(p) => pend = <<>>
  /\ StreamExact

\* An overlap of two tty_reads is noted when it begins.
LEMMA NotYetOverlap ==
  ASSUME History, ~overlap'
  PROVE  ~overlap /\ \A p, q \in Pids : p # q => ~ (InTty(p)' /\ InTty(q)')
BY Zenon DEF History, InTty

\* A step that leaves the bytes alone, and after which a task is in tty_read
\* only if it was before or nothing is pending.
LEMMA StreamKept ==
  ASSUME StreamInv, History, UNCHANGED <<pend, ttyIn, ttyOut>>,
         \A p \in Pids : InTty(p)' => InTty(p) \/ pend = <<>>
  PROVE  StreamInv'
<1>1. ~overlap' => ~overlap /\ \A p, q \in Pids : p # q => ~ (InTty(p)' /\ InTty(q)')
  BY NotYetOverlap
<1>2. ~raced' => ~raced
  BY NotYetRaced
<1>3. StreamExact'
  BY <1>1, <1>2 DEF StreamInv, StreamExact
<1> QED
  BY <1>1, <1>3 DEF StreamInv

\* The first byte handed out, followed by the others, is all of them.
LEMMA FirstAndRest ==
  ASSUME NEW S, NEW o \in Seq(S), NEW b \in Seq(S), b # <<>>
  PROVE  /\ Append(o, Head(b)) \o Tail(b) = o \o b
         /\ (IF Len(b) > 1 THEN Tail(b) ELSE <<>>) = Tail(b)
<1>1. PICK x, r : x = Head(b) /\ r = Tail(b)
  BY Zenon
<1>2. x \in S /\ r \in Seq(S) /\ b = <<x>> \o r
  BY <1>1
<1>3. o \o (<<x>> \o r) = Append(o, x) \o r
  BY <1>2
<1>4. (IF Len(b) > 1 THEN Tail(b) ELSE <<>>) = Tail(b)
  OBVIOUS
<1> QED BY <1>1, <1>2, <1>3, <1>4, Zenon

\* tty_read hands out the first pending byte.
LEMMA StreamPending ==
  ASSUME StreamInv, History, UNCHANGED <<pc, dev, ttyIn>>, pend # <<>>,
         pend' = Tail(pend), ttyOut' = Log(ttyOut, Head(pend))
  PROVE  StreamInv'
<1>1. pend \in Seq(Byte) /\ ttyIn \in Seq(Byte) /\ ttyOut \in Seq(Byte)
  BY DEF StreamInv
<1>2. Head(pend) \in Byte /\ Tail(pend) \in Seq(Byte)
  BY <1>1
<1>3. ttyOut' \in Seq(Byte)
  BY <1>1, <1>2 DEF Log
<1>4. ~overlap' => ~overlap /\ \A p, q \in Pids : p # q => ~ (InTty(p)' /\ InTty(q)')
  BY NotYetOverlap
<1>5. ~overlap' => \A p \in Pids : ~InTty(p)'
  BY <1>4 DEF StreamInv, InTty
<1>6. ASSUME ~raced', ~overlap' PROVE ttyOut' \o pend' = ttyIn'
  <2>1. ~raced /\ ttyOut \o pend = ttyIn
    BY <1>4, <1>6, NotYetRaced DEF StreamInv, StreamExact
  <2>2. ttyOut' = Append(ttyOut, Head(pend))
    BY <2>1 DEF Log
  <2> QED BY Zenon, <2>1, <2>2, <1>1, FirstAndRest
<1> QED
  BY <1>1, <1>2, <1>3, <1>4, <1>5, <1>6 DEF StreamInv, StreamExact

\* The bytes of a key are one or three.
LEMMA KeyBytes ==
  ASSUME NEW e \in Event
  PROVE  EventBytes(e) \in Seq(Byte) /\ EventBytes(e) # <<>>
<1>1. e.id \in Nat
  BY TtyAssumption DEF Event
<1>2. PICK i \in Nat : i = e.id
  BY <1>1
<1>3. <<i, 1>> \in Byte /\ <<i, 2>> \in Byte /\ <<i, 3>> \in Byte
  BY DEF Byte
<1>4. CASE e.kind = "arrow"
  <2>1. EventBytes(e) = <<<<i, 1>>, <<i, 2>>, <<i, 3>>>>
    BY <1>2, <1>4 DEF EventBytes
  <2> HIDE DEF Byte
  <2>2. PICK x, y, z : x = <<i, 1>> /\ y = <<i, 2>> /\ z = <<i, 3>>
    BY Zenon
  <2>3. EventBytes(e) = <<x, y, z>> /\ x \in Byte /\ y \in Byte /\ z \in Byte
    BY <2>1, <2>2, <1>3
  <2> QED BY <2>3
<1>5. CASE e.kind # "arrow"
  <2>1. EventBytes(e) = <<<<i, 1>>>>
    BY <1>2, <1>5 DEF EventBytes
  <2>2. PICK x : x = <<i, 1>>
    BY Zenon
  <2>3. EventBytes(e) = <<x>> /\ x \in Byte
    BY <2>1, <2>2, <1>3
  <2> QED BY <2>3
<1> QED BY <1>4, <1>5

\* tty_read takes a key: its first byte is returned, the others wait.
LEMMA StreamDeliver ==
  ASSUME TypeOK, StreamInv, History, NEW p \in Pids, InTty(p), TtyDeliver(p),
         \A q \in Pids : InTty(q)' => InTty(q) /\ q # p
  PROVE  StreamInv'
<1> DEFINE b == EventBytes(ev[p])
<1>1. pend \in Seq(Byte) /\ ttyIn \in Seq(Byte) /\ ttyOut \in Seq(Byte)
  BY Zenon DEF StreamInv
<1>2. CASE EndsStream(ev[p], lcanon[p])
  BY Zenon, <1>2, StreamKept DEF TtyDeliver
<1>3. CASE ~EndsStream(ev[p], lcanon[p])
  <2>1. /\ pend' = IF Len(b) > 1 THEN Tail(b) ELSE pend
        /\ ttyIn' = LogAll(ttyIn, b) /\ ttyOut' = Log(ttyOut, Head(b))
    BY Zenon, <1>3 DEF TtyDeliver
  <2>2. b \in Seq(Byte) /\ b # <<>>
    BY KeyBytes DEF TypeOK
  <2> HIDE DEF b
  <2>3. Head(b) \in Byte /\ Tail(b) \in Seq(Byte)
    BY <2>2
  <2>4. pend' \in Seq(Byte) /\ ttyIn' \in Seq(Byte) /\ ttyOut' \in Seq(Byte)
    BY <1>1, <2>1, <2>2, <2>3 DEF Log, LogAll
  <2>5. ~overlap' => ~overlap /\ \A q, r \in Pids : q # r => ~ (InTty(q)' /\ InTty(r)')
    BY NotYetOverlap
  <2>6. ~overlap' => \A q \in Pids : ~InTty(q)'
    BY <2>5 DEF StreamInv
  <2>7. ASSUME ~raced', ~overlap' PROVE ttyOut' \o pend' = ttyIn'
    <3>1. ~raced /\ pend = <<>> /\ ttyOut = ttyIn
      BY <2>5, <2>7, <1>1, NotYetRaced DEF StreamInv, StreamExact
    <3>2. ttyOut' = Append(ttyOut, Head(b)) /\ ttyIn' = ttyOut \o b
      BY <3>1, <2>1 DEF Log, LogAll
    <3>3. pend' = IF Len(b) > 1 THEN Tail(b) ELSE <<>>
      BY <3>1, <2>1
    <3> QED BY Zenon, <3>2, <3>3, <2>2, <1>1, FirstAndRest
  <2> QED
    BY <2>4, <2>5, <2>6, <2>7 DEF StreamInv, StreamExact
<1> QED BY <1>2, <1>3

\* Every step keeps the stream.
LEMMA StreamStep == TypeOK /\ StreamInv /\ [Next]_vars => StreamInv'
<1> SUFFICES ASSUME TypeOK, StreamInv, [Next]_vars PROVE StreamInv'
  OBVIOUS
<1>1. CASE UNCHANGED vars
  BY Zenon, <1>1 DEF vars, StreamInv, StreamExact, InTty
<1> SUFFICES ASSUME Next PROVE StreamInv'
  BY <1>1
<1>h. History
  BY StepCases
<1>2. ASSUME NEW p \in Pids, Look(p) \/ Claim(p) \/ Ring(p) \/ Take(p) PROVE StreamInv'
  <2>1. /\ UNCHANGED <<pend, ttyIn, ttyOut, dev>> /\ pc[p] # "idle"
        /\ \A q \in Pids \ {p} : pc'[q] = pc[q]
    BY Zenon, <1>2 DEF Look, Claim, Ring, Take, Goto, TypeOK, histVars
  <2>2. \A q \in Pids : InTty(q)' => InTty(q)
    BY <2>1 DEF InTty
  <2> QED BY <2>1, <2>2, <1>h, StreamKept
<1>3. ASSUME NEW p \in Pids, Pop(p) PROVE StreamInv'
  <2>1. dev' = dev /\ pc[p] = "pop" /\ \A q \in Pids \ {p} : pc'[q] = pc[q]
    BY Zenon, <1>3 DEF Pop, AfterPop, Goto, TypeOK
  <2>2. CASE dev[p] = "tty"
    <3>1. TtyDeliver(p) /\ pc'[p] = "idle"
      BY <1>3, <2>2 DEF Pop, AfterPop, Goto, TypeOK
    <3>2. InTty(p) /\ \A q \in Pids : InTty(q)' => InTty(q) /\ q # p
      BY <2>1, <2>2, <3>1 DEF InTty
    <3> QED BY <3>1, <3>2, <1>h, StreamDeliver
  <2>3. CASE dev[p] # "tty"
    <3>1. UNCHANGED <<pend, ttyIn, ttyOut>>
      BY Zenon, <1>3, <2>3 DEF Pop, AfterPop, TypeOK
    <3>2. \A q \in Pids : InTty(q)' => InTty(q)
      BY <2>1, <2>3 DEF InTty
    <3> QED BY <3>1, <3>2, <1>h, StreamKept
  <2> QED BY <2>2, <2>3
<1>4. ASSUME NEW p \in Pids, TtyRead(p) PROVE StreamInv'
  <2>1. CASE pend # <<>>
    <3>1. /\ UNCHANGED <<pc, dev, ttyIn>>
          /\ pend' = Tail(pend) /\ ttyOut' = Log(ttyOut, Head(pend))
      BY <1>4, <2>1 DEF TtyRead
    <3> QED BY <2>1, <3>1, <1>h, StreamPending
  <2>2. CASE pend = <<>>
    <3>1. UNCHANGED <<pend, ttyIn, ttyOut>>
      BY <1>4, <2>2 DEF TtyRead
    <3> QED BY <2>2, <3>1, <1>h, StreamKept
  <2> QED BY <2>1, <2>2
<1>5. ASSUME NEW p \in Pids, KbdRead(p) PROVE StreamInv'
  <2>1. UNCHANGED <<pend, ttyIn, ttyOut>> /\ \A q \in Pids : InTty(q)' => InTty(q)
    BY <1>5 DEF KbdRead, Goto, TypeOK, InTty, histVars
  <2> QED BY <2>1, <1>h, StreamKept
<1>6. ASSUME NEW p \in alive, Exit(p) \/ SetCanon(p) PROVE StreamInv'
  <2>1. UNCHANGED <<pend, ttyIn, ttyOut, pc, dev>>
    BY <1>6 DEF Exit, SetCanon, callVars, histVars
  <2> QED BY <2>1, <1>h, StreamKept DEF InTty
<1>7. CASE Prompt
  <2>1. UNCHANGED <<pend, ttyIn, ttyOut>> /\ \A q \in Pids : InTty(q)' => InTty(q)
    BY <1>7, PidTypes DEF Prompt, Goto, TypeOK, InTty, histVars
  <2> QED BY <2>1, <1>h, StreamKept
<1>8. CASE Command \/ Wait
  <2>1. UNCHANGED <<pend, ttyIn, ttyOut, pc, dev>>
    BY <1>8 DEF Command, Wait, callVars, histVars
  <2> QED BY <2>1, <1>h, StreamKept DEF InTty
<1>9. ASSUME NEW k \in Kinds, Press(k) PROVE StreamInv'
  <2>1. UNCHANGED <<pend, ttyIn, ttyOut, pc, dev>>
    BY <1>9 DEF Press, callVars
  <2> QED BY <2>1, <1>h, StreamKept DEF InTty
<1> QED
  BY <1>2, <1>3, <1>4, <1>5, <1>6, <1>7, <1>8, <1>9, StepCases DEF InCall

-----------------------------------------------------------------------------
(* The theorems.                                                            *)

\* Whatever the size of the ring and wherever the interrupt falls, every key
\* that found room in g_buffer comes out once and in order, as long as
\* no two consumers were between their check and their pop at once.
THEOREM RingIsExact == Spec => []RingExact
<1>1. RingInv /\ [Next]_vars => RingInv'
  BY RingStep
<1>2. RingInv => RingExact
  BY DEF RingInv
<1> QED
  BY RingInit, <1>1, <1>2, PTL DEF Spec

\* The indices of the ring stay inside g_buffer, also after a race.
LEMMA TtyTypes == Spec => []TypeOK
<1>1. RingInv => TypeOK
  BY DEF RingInv
<1> QED
  BY RingInit, RingStep, <1>1, PTL DEF Spec

\* kbd_get_event_owned and kbd_get_event_shell only consume for a task that
\* may, when no tick falls inside them.
LEMMA OwnerConsumes == Spec => []ConsumesAsOwner
<1>1. Init => OwnerInv /\ DevInv
  BY DEF Init, OwnerInv, DevInv, Inside
<1>2. OwnerInv => ConsumesAsOwner
  BY Zenon DEF OwnerInv, ConsumesAsOwner
<1> QED
  BY <1>1, <1>2, OwnerStep, DevStep, TtyTypes, PTL DEF Spec

\* task_exit gives the console back: g_kbd_owner never names a dead task.
LEMMA NoDeadOwner == Spec => []OwnerAlive
<1>1. Init => OwnerAlive
  BY DEF Init, OwnerAlive
<1> QED
  BY <1>1, AliveStep, TtyTypes, PTL DEF Spec

\* The indices stay inside g_buffer; whoever consumes may do so, if no tick falls
\* between the check and the pop; and a dead task never owns the console.
THEOREM OwnershipHolds == Spec => []Ownership
BY TtyTypes, OwnerConsumes, NoDeadOwner, PTL DEF Ownership
\* The escape sequences of the keys tty_read took come out complete and in
\* order, whichever program reads, as long as no two tty_reads overlap.
THEOREM StreamIsExact == Spec => []StreamExact
<1>1. Init => StreamInv
  BY DEF Init, StreamInv, StreamExact, InTty
<1>2. StreamInv => StreamExact
  BY DEF StreamInv
<1> QED
  BY <1>1, <1>2, StreamStep, TtyTypes, PTL DEF Spec
=============================================================================
