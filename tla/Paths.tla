-------------------------------- MODULE Paths --------------------------------
(***************************************************************************)
(* The working directory of the shell (kernel/shell/cmd_fs.c): path_resolve*)
(* and the commands cd, mkdir -p and rm on directories.                    *)
(*                                                                         *)
(* A path is a sequence of components.  A name is <<id, n>>, the first n   *)
(* characters of the name id.  Lengths matter because g_cwd is shorter     *)
(* than the path cd has checked.                                           *)
(***************************************************************************)
EXTENDS Integers, SequencesExt

CONSTANTS WholeNames,  \* the names programs use, <<id, length>>
          CwdSize,     \* sizeof(g_cwd), 128
          MaxSegs,     \* 32, the size of segs[]
          MaxArg       \* bound: components of an argument

Dot == <<".", 1>>
DotDot == <<"..", 2>>

ASSUME PathsAssumption ==
  CwdSize \in Nat \ {0, 1} /\ MaxSegs \in Nat \ {0} /\ MaxArg \in Nat

VARIABLES
  cwd,      \* g_cwd
  oldpwd,   \* g_oldpwd; <<Dot>> stands for the empty string
  dirs,     \* the directories that exist, with all the names on the way
  lost      \* history: g_cwd was too short for the path, or the directory
            \* was removed

pathVars == <<cwd, oldpwd, dirs, lost>>

\* An argument: absolute or not, any components.
Args == [abs : BOOLEAN, segs : SeqOf(WholeNames \cup {Dot, DotDot}, MaxArg)]
Dirs == SeqOf(WholeNames, MaxArg)

PathsInit == cwd = <<>> /\ oldpwd = <<Dot>> /\ dirs = {<<>>} /\ lost = FALSE

-----------------------------------------------------------------------------
\* One component in the loop of path_resolve.
Push(segs, x) ==
  CASE x = Dot -> segs
    [] x = DotDot -> IF segs = <<>> THEN segs ELSE Front(segs)
    [] OTHER -> IF Len(segs) < MaxSegs THEN Append(segs, x) ELSE segs

\* path_resolve.  Two paths of at most 127 characters, the longest line and
\* the longest g_cwd, always fit into tmp and out.
Full(dir, arg) == IF arg.abs THEN arg.segs ELSE dir \o arg.segs
Resolve(dir, arg) == FoldLeft(Push, <<>>, Full(dir, arg))

\* The characters of a path: each name with the slash before it.
Chars(path) == FoldLeft(LAMBDA n, x : n + 1 + x[2], 0, path)

\* strncpy into a buffer of the given size: names that do not fit are cut or
\* left away (a slash at the end means nothing).
Stored(path, size) ==
  FoldLeft(LAMBDA acc, x :
             LET left == size - 2 - Chars(acc)     \* after the slash
             IN  IF left <= 0 THEN acc
                 ELSE Append(acc, <<x[1], IF x[2] < left THEN x[2] ELSE left>>),
           <<>>, path)

-----------------------------------------------------------------------------
(* The commands.                                                            *)

\* Mutant of Enter: the directory is not opened first.
EnterUnchecked(r) ==
  /\ oldpwd' = cwd /\ cwd' = Stored(r, CwdSize)
  /\ lost' = (cwd' # r)
  /\ UNCHANGED dirs

\* The end of cmd_cd: open and readdir have shown that r is a directory.
Enter(r) ==
  /\ r \in dirs
  /\ oldpwd' = cwd /\ cwd' = Stored(r, CwdSize)
  /\ lost' = (cwd' # r)
  /\ UNCHANGED dirs

\* cd dir;  cd and cd ~;  cd -.
Cd(arg) == Enter(Resolve(cwd, arg))
CdHome == Enter(<<>>)
CdBack == oldpwd # <<Dot>> /\ Enter(Resolve(cwd, [abs |-> TRUE, segs |-> oldpwd]))

\* mkdir -p: SYS_MKDIR of every prefix; -EEXIST is no error.
MkdirParents(arg) ==
  LET r == Resolve(cwd, arg)
  IN  /\ r \in Dirs
      /\ dirs' = dirs \cup {SubSeq(r, 1, k) : k \in 0 .. Len(r)}
      /\ UNCHANGED <<cwd, oldpwd, lost>>

\* rm of an empty directory, also of the one the shell is in.
Rm(arg) ==
  LET r == Resolve(cwd, arg)
  IN  /\ r \in dirs \ {<<>>} /\ ~ \E d \in dirs : d # r /\ IsPrefix(r, d)
      /\ dirs' = dirs \ {r}
      /\ lost' = (lost \/ r = cwd)
      /\ UNCHANGED <<cwd, oldpwd>>

PathsNext ==
  \/ CdHome \/ CdBack
  \/ \E arg \in Args : Cd(arg) \/ MkdirParents(arg) \/ Rm(arg)

PathsSpec == PathsInit /\ [][PathsNext]_pathVars

-----------------------------------------------------------------------------
(* What path_resolve and cd promise.                                        *)

\* The meaning of a path, without a stack: a name counts unless a later ".."
\* takes it back, that is unless, at some point after it, there were more
\* ".." than names since.
Since(path, i, j, S) == Len(SelectSeq(SubSeq(path, i, j), LAMBDA x : x \in S))
Counts(path, i) ==
  /\ path[i] \notin {Dot, DotDot}
  /\ \A j \in i + 1 .. Len(path) :
       Since(path, i + 1, j, {DotDot}) <=
         (j - i) - Since(path, i + 1, j, {Dot, DotDot})
Meaning(path) ==
  LET kept == SelectSeq([i \in DOMAIN path |-> i], LAMBDA i : Counts(path, i))
  IN  [k \in DOMAIN kept |-> path[kept[k]]]

\* Types; g_cwd has room for its NUL, and the way to a directory exists.
PathsTypeOK ==
  /\ cwd \in Seq(STRING \X Nat) /\ Chars(cwd) < CwdSize
  /\ dirs \subseteq Dirs /\ \A d \in dirs \ {<<>>} : Front(d) \in dirs
  /\ lost \in BOOLEAN

\* For each directory: is every argument whose names fit into segs[] resolved
\* to what it means from there?
Resolved ==
  {<<dir, \A arg \in Args :
     LET path == Full(dir, arg)
         names == SelectSeq(path, LAMBDA x : x \notin {Dot, DotDot})
     IN  Len(names) <= MaxSegs => Resolve(dir, arg) = Meaning(path)>> : dir \in Dirs}

\* "`out' always receives a normalized absolute path", "`..' at the root
\* stays at the root": for every argument, wherever cd has led the shell.
ResolveExact == cwd \in Dirs => <<cwd, TRUE>> \in Resolved

\* "Only enter real directories": g_cwd names the directory that cd has
\* checked, unless it was too long for g_cwd or has been removed since.
CwdExists == ~lost => cwd \in dirs

\* path_resolve and cd: paths are resolved to what they mean, g_cwd has room
\* for its text and names a directory.
PathsExact == PathsTypeOK /\ ResolveExact /\ CwdExists
=============================================================================
