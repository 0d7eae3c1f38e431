------------------------------ MODULE FileData ------------------------------
(***************************************************************************)
(* The contents of one regular file of kernel/vfs/vfs.c: the buffer that   *)
(* file_write and vfs_ftruncate grow with krealloc, and the positions of   *)
(* the descriptions that share the node.  There is no lseek: a position    *)
(* moves only by reading and writing, and passes the end of the file only  *)
(* when the file is truncated behind it.                                   *)
(***************************************************************************)
EXTENDS Integers, Sequences

CONSTANTS Writers,    \* open file descriptions
          Bytes,      \* values that programs write
          OpenModes,  \* access modes of the opens: "r", "w", "rw"
          FirstCap,   \* first capacity (64 in the code)
          MaxBytes    \* bound: longest file

Junk == "junk"        \* memory nobody has written since it was allocated
Hole == "hole"        \* a byte of the file that nobody wrote
ZeroByte == "zero"

ASSUME FileDataAssumption ==
  /\ FirstCap \in Nat \ {0} /\ MaxBytes \in Nat /\ OpenModes \subseteq {"r", "w", "rw"}
  /\ Junk \notin Bytes \cup {ZeroByte, Hole} /\ Hole \notin Bytes \cup {ZeroByte}

VARIABLES
  fsize,      \* node->size
  capacity,   \* node->capacity
  content,    \* node->data
  fd,         \* a description: its mode, position and O_APPEND; sole is history:
              \* since the open only its own writes have moved the end
  want,       \* history: what each byte of the file should be
  behind      \* history: the file was truncated behind an open description

fileVars == <<fsize, capacity, content, fd, want, behind>>

Offsets == 0 .. MaxBytes - 1
Closed == [mode |-> "closed", pos |-> 0, append |-> FALSE, sole |-> FALSE]

FileTypeOK ==
  /\ fsize \in 0 .. MaxBytes /\ capacity \in Nat
  /\ content \in [Offsets -> Bytes \cup {ZeroByte, Junk}]
  /\ fd \in [Writers -> [mode : OpenModes \cup {"closed"}, pos : Nat,
                     append : BOOLEAN, sole : BOOLEAN]]
  /\ \A d \in Writers : fd[d].mode = "closed" => fd[d].pos = 0
  /\ want \in [Offsets -> Bytes \cup {ZeroByte, Hole}]
  /\ behind \in BOOLEAN

\* vfs_create_file: data = NULL.
FileInit ==
  /\ fsize = 0 /\ capacity = 0 /\ content = [i \in Offsets |-> Junk]
  /\ fd = [d \in Writers |-> Closed] /\ want = [i \in Offsets |-> Hole]
  /\ behind = FALSE

-----------------------------------------------------------------------------
\* The descriptions after the end of the file was moved by those of the set by.
Moved(by) == [d \in Writers |-> IF d \in by \/ fsize' = fsize THEN fd[d]
                                ELSE [fd[d] EXCEPT !.sole = FALSE]]

\* The file ends at n from now on: what was behind is no longer there.
Cut(n) ==
  /\ fsize' = n
  /\ want' = [i \in Offsets |-> IF i < n THEN want[i] ELSE Hole]
  /\ behind' = (behind \/ \E d \in Writers : fd[d].mode # "closed" /\ fd[d].pos > n)

\* Mutant of FileOpen: O_APPEND is ignored.
FileOpenFront(d, mode, trunc, append) ==
  /\ fd[d].mode = "closed"
  /\ IF trunc THEN Cut(0) ELSE UNCHANGED <<fsize, want, behind>>
  /\ fd' = [Moved({}) EXCEPT ![d] = [mode |-> mode, append |-> append, sole |-> TRUE,
                                     pos |-> 0]]
  /\ UNCHANGED <<capacity, content>>

\* vfs_open: O_TRUNC ends the file at 0 and keeps the buffer; O_APPEND is
\* looked at here and never again.
FileOpen(d, mode, trunc, append) ==
  /\ fd[d].mode = "closed"
  /\ IF trunc THEN Cut(0) ELSE UNCHANGED <<fsize, want, behind>>
  /\ fd' = [Moved({}) EXCEPT ![d] = [mode |-> mode, append |-> append, sole |-> TRUE,
                                     pos |-> IF append THEN fsize' ELSE 0]]
  /\ UNCHANGED <<capacity, content>>

FileClose(d) ==
  /\ fd[d].mode # "closed"
  /\ fd' = [fd EXCEPT ![d] = Closed]
  /\ UNCHANGED <<fsize, capacity, content, want, behind>>

\* What file_read and vfs_pread return.
ReadBytes(from, count) ==
  LET n == IF from >= fsize THEN 0
           ELSE IF count < fsize - from THEN count ELSE fsize - from
  IN  [i \in 1 .. n |-> content[from + i - 1]]

\* file_read; vfs_pread changes nothing.
FileRead(d, count) ==
  /\ fd[d].mode \in {"r", "rw"}
  /\ fd' = [fd EXCEPT ![d].pos = @ + Len(ReadBytes(@, count))]
  /\ UNCHANGED <<fsize, capacity, content, want, behind>>

\* The doubling loop: the first of cap, 2 cap, 4 cap, ... that is enough,
\* from FirstCap when there is no buffer.
Grown(cap, need, new) ==
  LET first == IF cap = 0 THEN FirstCap ELSE cap
  IN  /\ new >= need /\ \E k \in 0 .. need : new = first * 2 ^ k
      /\ new > first => new < 2 * need

\* Room for need bytes: the buffer as it is, or a longer one from krealloc,
\* which copies the old one.
Room(need, new) ==
  IF need <= capacity THEN new = capacity ELSE Grown(capacity, need, new)

\* file_write: count bytes of value b.  (On -ENOMEM nothing has changed.)
FileWrite(d, count, b) ==
  LET pos == fd[d].pos
      here == pos .. pos + count - 1
  IN  /\ fd[d].mode \in {"w", "rw"} /\ pos + count <= MaxBytes
      /\ \E new \in 0 .. 2 * (MaxBytes + FirstCap) : Room(pos + count, new) /\ capacity' = new
      /\ content' = [i \in Offsets |-> IF i \in here THEN b ELSE content[i]]
      /\ want' = [i \in Offsets |-> IF i \in here THEN b ELSE want[i]]
      /\ fsize' = IF pos + count > fsize THEN pos + count ELSE fsize
      /\ fd' = [Moved({d}) EXCEPT ![d].pos = pos + count]
      /\ UNCHANGED behind

\* vfs_ftruncate to a shorter file, and to one at least as long.
FileShrink(d, len) ==
  /\ fd[d].mode # "closed" /\ len < fsize
  /\ Cut(len) /\ fd' = Moved({})
  /\ UNCHANGED <<capacity, content>>

\* Mutant of FileExtend: without the memset.
FileExtendRaw(d, len) ==
  /\ fd[d].mode # "closed" /\ len >= fsize /\ len <= MaxBytes
  /\ \E new \in 0 .. 2 * (MaxBytes + FirstCap) : Room(len, new) /\ capacity' = new
  /\ want' = [i \in Offsets |-> IF i \in fsize .. len - 1 THEN ZeroByte ELSE want[i]]
  /\ fsize' = len /\ fd' = Moved({})
  /\ UNCHANGED <<content, behind>>

FileExtend(d, len) ==
  /\ fd[d].mode # "closed" /\ len >= fsize /\ len <= MaxBytes
  /\ \E new \in 0 .. 2 * (MaxBytes + FirstCap) : Room(len, new) /\ capacity' = new
  /\ content' = [i \in Offsets |-> IF i \in fsize .. len - 1 THEN ZeroByte ELSE content[i]]
  /\ want' = [i \in Offsets |-> IF i \in fsize .. len - 1 THEN ZeroByte ELSE want[i]]
  /\ fsize' = len /\ fd' = Moved({})
  /\ UNCHANGED behind

FileNext ==
  \E d \in Writers :
    \/ \E mode \in OpenModes, trunc, append \in BOOLEAN : FileOpen(d, mode, trunc, append)
    \/ FileClose(d)
    \/ \E n \in 1 .. MaxBytes : FileRead(d, n)
    \/ \E n \in 1 .. MaxBytes, b \in Bytes : FileWrite(d, n, b)
    \/ \E n \in 0 .. MaxBytes : FileShrink(d, n) \/ FileExtend(d, n)

FileSpec == FileInit /\ [][FileNext]_fileVars

-----------------------------------------------------------------------------
(* What a file promises.                                                    *)

\* The file lies within its buffer, so no read copies from behind it, and
\* the memory that a write or an ftruncate grew is enough for it.
WithinBuffer == fsize <= capacity

\* A byte of the file is what was last written there, through whichever
\* description, or the zero of an ftruncate, across all growing, truncating
\* and rewriting.
ContentExact ==
  \A i \in Offsets : i < fsize /\ want[i] # Hole => content[i] = want[i]

\* And a read at any position, also one the file was cut behind, returns
\* just these, up to the end of the file.
ReadExact ==
  \A from \in 0 .. MaxBytes, count \in 1 .. MaxBytes :
    LET r == ReadBytes(from, count)
    IN  /\ \A i \in DOMAIN r : want[from + i - 1] # Hole => r[i] = want[from + i - 1]
        /\ Len(r) < count => from + Len(r) >= fsize

\* Every byte of the file was written by somebody, unless the file was cut
\* behind a description that then wrote on: that leaves a gap with whatever
\* the buffer held.
NoGaps ==
  ~behind => /\ \A i \in Offsets : i < fsize => want[i] # Hole
             /\ \A d \in Writers : fd[d].pos <= fsize

\* ">> file (append)": every write goes to the end of the file, as long as
\* nobody else moves that end.  (O_APPEND is looked at only by the open, so
\* two programs that append to one file overwrite each other.)
AppendsAtEnd ==
  \A d \in Writers : fd[d].append /\ fd[d].sole => fd[d].pos = fsize

\* A file through all its descriptions, growth and truncation: it lies in its
\* buffer, holds what was written, returns just that, and has no gaps.
FileExact == FileTypeOK /\ WithinBuffer /\ ContentExact /\ ReadExact /\ NoGaps
=============================================================================
