-------------------------------- MODULE Rootfs -------------------------------
(***************************************************************************)
(* Unpacking the root file system at boot: vfs_mount_rootfs                *)
(* (kernel/vfs/rootfs.c), a walk over the blocks of a tar archive.         *)
(*                                                                         *)
(* A block is a header <<path, type, size>>, a block of zeros or a block   *)
(* of a file's data.  A path is a sequence of names, already without "./"  *)
(* and trailing slashes; <<>> is the archive's root.  Modes are left out,  *)
(* and memory never runs out.                                              *)
(***************************************************************************)
EXTENDS Integers, SequencesExt

CONSTANTS Entries,      \* the headers of the archives
          TarBlock,     \* TAR_BLOCK, 512
          MaxEntries    \* bound: entries of an archive

Zero == <<<<"">>, "zero", 0>>
DataBlock(k) == <<<<"">>, "data", k>>

\* The blocks that hold n bytes.
BlocksOf(n) == (n + TarBlock - 1) \div TarBlock

VARIABLES
  image,    \* the archive
  entries,  \* history: the entries it was made from
  at,       \* p, in blocks
  tree,     \* path |-> "dir" or the data of a file
  mounted   \* "running", or the result "ok" (0) or "error" (-1)

rootfsVars == <<image, entries, at, tree, mounted>>

\* External: tar writes for every entry a header and, for a file, its data in
\* blocks, and two blocks of zeros at the end.
Packed(e) ==
  <<e>> \o [k \in 1 .. (IF e[2] = "file" THEN BlocksOf(e[3]) ELSE 0) |-> DataBlock(k)]
Archive(es) == FlattenSeq([i \in DOMAIN es |-> Packed(es[i])]) \o <<Zero, Zero>>

\* The bytes of a file of n bytes whose header is block b.  They are copied
\* before the end of the image is looked at: behind it is other memory.
Data(b, n) ==
  <<[k \in 1 .. BlocksOf(n) |-> IF b + 1 + k <= Len(image) THEN image[b + 1 + k] ELSE "other"], n>>

\* The archive is whole, or cut off somewhere.
RootfsInit ==
  /\ entries \in SeqOf(Entries, MaxEntries)
  /\ \E n \in 0 .. Len(Archive(entries)) : image = SubSeq(Archive(entries), 1, n)
  /\ at = 0 /\ mounted = "running"
  /\ tree = [p \in {<<>>} |-> <<"dir">>]

Add(path, x) == [p \in DOMAIN tree \cup {path} |-> IF p = path THEN x ELSE tree[p]]
\* vfs_create_dir and vfs_create_file want the parent and no such name in it.
CanCreate(path) ==
  path \notin DOMAIN tree /\ Front(path) \in DOMAIN tree /\ tree[Front(path)] = <<"dir">>

Done(result) == mounted' = result /\ UNCHANGED <<image, entries, at, tree>>

AtEnd == IF at >= Len(image) THEN TRUE ELSE image[at + 1] = Zero

\* No room for a header, or fewer than two blocks; a block of zeros.
MountEnd ==
  /\ mounted = "running"
  /\ IF Len(image) < 2 THEN Done("error")
     ELSE AtEnd /\ Done("ok")

\* Mutant of Advance: a file that fills its last block is followed by one more.
AdvanceMore(e) ==
  LET next == at + 1 + (IF e[3] = 0 THEN 0 ELSE (e[3] \div TarBlock) + 1)
  IN  /\ at' = next
      /\ mounted' = IF next > Len(image) THEN "error" ELSE "running"

\* The step to the next header.
Advance(e) ==
  LET next == at + 1 + BlocksOf(e[3])
  IN  /\ at' = next
      /\ mounted' = IF next > Len(image) THEN "error" ELSE "running"

\* One entry.
MountEntry ==
  /\ mounted = "running" /\ Len(image) >= 2 /\ ~AtEnd
  /\ LET e == image[at + 1]
         path == e[1]
     IN  IF path # <<>> /\ e[2] = "file" /\ ~CanCreate(path)
         THEN Done("error")
         ELSE /\ tree' = CASE path # <<>> /\ e[2] = "file" -> Add(path, Data(at, e[3]))
                           [] path # <<>> /\ e[2] = "dir" /\ CanCreate(path) -> Add(path, <<"dir">>)
                           [] OTHER -> tree
              /\ Advance(e)
              /\ UNCHANGED <<image, entries>>

RootfsNext == MountEnd \/ MountEntry
RootfsSpec == RootfsInit /\ [][RootfsNext]_rootfsVars

-----------------------------------------------------------------------------
(* Properties.                                                              *)

Unpacked == {i \in DOMAIN entries : entries[i][2] = "file" /\ entries[i][1] # <<>>}
\* Where the header of entry i is.
HeaderAt(i) == Len(FlattenSeq([k \in 1 .. i - 1 |-> Packed(entries[k])]))

\* Files are where the archive puts them and hold their own bytes.
MountExact ==
  mounted = "ok" /\ image = Archive(entries) =>
    /\ \A i \in Unpacked : /\ entries[i][1] \in DOMAIN tree
                           /\ tree[entries[i][1]] = Data(HeaderAt(i), entries[i][3])
    /\ \A p \in DOMAIN tree \ {<<>>} : \E i \in DOMAIN entries : entries[i][1] = p

\* "truncated archive": an archive that is cut inside an entry is refused.
TruncatedRefused ==
  mounted = "ok" =>
    \E n \in 0 .. Len(entries) :
      LET whole == Len(FlattenSeq([k \in 1 .. n |-> Packed(entries[k])]))
      IN  Len(image) = whole \/ (n = Len(entries) /\ Len(image) >= whole)

\* vfs_mount_rootfs unpacks whole archives exactly and refuses cut ones.
RootfsExact == MountExact /\ TruncatedRefused
=============================================================================
