----------------------------- MODULE Namespace -----------------------------
(***************************************************************************)
(* The tree of kernel/vfs/vfs.c: nodes in child lists, path lookup,        *)
(* creation and removal, open and readdir.  A call is one step here; what  *)
(* preemption does inside calls is the subject of Pipe, FdPreempt and Pmm. *)
(*                                                                         *)
(* A path is a sequence of names (the components vfs_lookup compares).     *)
(* kfree gives an address back, and kmalloc may return it again while a    *)
(* description still points there: nothing counts the descriptions of a    *)
(* node.                                                                   *)
(***************************************************************************)
EXTENDS Integers, SequencesExt

CONSTANTS Names,      \* components
          Nodes,      \* addresses of struct vfs_node
          RootNode,   \* g_root
          Openers,    \* open file descriptions
          MaxPath,    \* bound: components of a path
          NoNode      \* NULL

ASSUME NamespaceAssumption ==
  RootNode \in Nodes /\ NoNode \notin Nodes /\ MaxPath \in Nat

VARIABLES
  ntype,     \* "free", "dir", "file" or "device"
  nname,     \* n->name
  kids,      \* the list n->child, n->child->sibling, ...
  up,        \* n->parent
  onode,     \* f->node of a description, NoNode when it is closed
  opos,      \* f->pos of a description of a directory
  listed,    \* history: the names readdir has returned through it
  steady,    \* history: its directory has not changed since the open
  unlinked   \* history: its node was removed since the open

nsVars == <<ntype, nname, kids, up, onode, opos, listed, steady, unlinked>>

PathsUpTo(n) == SeqOf(Names, n)
AnyName == CHOOSE x \in Names : TRUE

NamespaceTypeOK ==
  /\ ntype \in [Nodes -> {"free", "dir", "file", "device"}]
  /\ nname \in [Nodes -> Names] /\ up \in [Nodes -> Nodes \cup {NoNode}]
  /\ \A n \in Nodes : kids[n] \in Seq(Nodes)
  /\ onode \in [Openers -> Nodes \cup {NoNode}] /\ opos \in [Openers -> Nat]
  /\ steady \in [Openers -> BOOLEAN] /\ unlinked \in [Openers -> BOOLEAN]

\* vfs_init.
NamespaceInit ==
  /\ ntype = [n \in Nodes |-> IF n = RootNode THEN "dir" ELSE "free"]
  /\ nname = [n \in Nodes |-> AnyName]
  /\ kids = [n \in Nodes |-> <<>>] /\ up = [n \in Nodes |-> NoNode]
  /\ onode = [d \in Openers |-> NoNode] /\ opos = [d \in Openers |-> 0]
  /\ listed = [d \in Openers |-> <<>>]
  /\ steady = [d \in Openers |-> FALSE] /\ unlinked = [d \in Openers |-> FALSE]

-----------------------------------------------------------------------------
(* Lookup.                                                                  *)

\* dir_find: the first child with the name.
DirFind(dir, x) ==
  LET hits == SelectSeq(kids[dir], LAMBDA n : nname[n] = x)
  IN  IF hits = <<>> THEN NoNode ELSE Head(hits)

\* vfs_lookup: component by component, through directories only.
Lookup(path) ==
  FoldLeft(LAMBDA cur, x : IF cur = NoNode \/ ntype[cur] # "dir"
                             THEN NoNode ELSE DirFind(cur, x),
           RootNode, path)

\* path_split and the lookup of the directory part.
ParentOf(path) == Lookup(Front(path))
IsDir(n) == n # NoNode /\ ntype[n] = "dir"

-----------------------------------------------------------------------------
(* Creation and removal.                                                    *)

\* The directory dir changes under every listing of it.
Changed(dir) == steady' = [d \in Openers |-> steady[d] /\ onode[d] # dir]

\* Mutant of Create: the name may be there already.
CreateTwice(path, type, n) ==
  LET dir == ParentOf(path)
  IN  /\ path # <<>> /\ IsDir(dir)
      /\ n \in Nodes /\ ntype[n] = "free"
      /\ ntype' = [ntype EXCEPT ![n] = type]
      /\ nname' = [nname EXCEPT ![n] = Last(path)]
      /\ up' = [up EXCEPT ![n] = dir]
      /\ kids' = [kids EXCEPT ![dir] = <<n>> \o @, ![n] = <<>>]
      /\ Changed(dir)

\* vfs_create_dir, vfs_create_file and vfs_create_device, at address n.
\* dir_attach puts the node at the head of the list.
Create(path, type, n) ==
  LET dir == ParentOf(path)
  IN  /\ path # <<>> /\ IsDir(dir) /\ DirFind(dir, Last(path)) = NoNode
      /\ n \in Nodes /\ ntype[n] = "free"
      /\ ntype' = [ntype EXCEPT ![n] = type]
      /\ nname' = [nname EXCEPT ![n] = Last(path)]
      /\ up' = [up EXCEPT ![n] = dir]
      /\ kids' = [kids EXCEPT ![dir] = <<n>> \o @, ![n] = <<>>]
      /\ Changed(dir)

\* vfs_mkdir, and devices_init for the device nodes.
Mkdir(path, n) ==
  /\ Lookup(path) = NoNode /\ Create(path, "dir", n)
  /\ UNCHANGED <<onode, opos, listed, unlinked>>

MakeDevice(path, n) ==
  /\ Create(path, "device", n)
  /\ UNCHANGED <<onode, opos, listed, unlinked>>

\* vfs_unlink and vfs_remove: also of an empty directory or a device.  The
\* fields of a freed node are nobody's; they get one value.
Unlink(path) ==
  LET n == Lookup(path)
      dir == ParentOf(path)
  IN  /\ n # NoNode /\ path # <<>>
      /\ ~(ntype[n] = "dir" /\ kids[n] # <<>>)
      /\ kids' = [kids EXCEPT ![dir] = SelectSeq(@, LAMBDA k : k # n)]
      /\ ntype' = [ntype EXCEPT ![n] = "free"]
      /\ nname' = [nname EXCEPT ![n] = AnyName] /\ up' = [up EXCEPT ![n] = NoNode]
      /\ Changed(dir)
      /\ unlinked' = [d \in Openers |-> unlinked[d] \/ onode[d] = n]
      /\ UNCHANGED <<onode, opos, listed>>

-----------------------------------------------------------------------------
(* Descriptions.                                                            *)

Opened(d, n) ==
  /\ onode' = [onode EXCEPT ![d] = n] /\ opos' = [opos EXCEPT ![d] = 0]
  /\ listed' = [listed EXCEPT ![d] = <<>>]
  /\ unlinked' = [unlinked EXCEPT ![d] = FALSE]

\* vfs_open of something that exists.
OpenNode(d, path) ==
  /\ onode[d] = NoNode /\ Lookup(path) # NoNode
  /\ Opened(d, Lookup(path))
  /\ steady' = [steady EXCEPT ![d] = TRUE]
  /\ UNCHANGED <<ntype, nname, kids, up>>

\* vfs_open with O_CREAT of something that does not.
OpenCreate(d, path, n) ==
  /\ onode[d] = NoNode /\ Lookup(path) = NoNode
  /\ Create(path, "file", n) /\ Opened(d, n)

CloseNode(d) ==
  /\ onode[d] # NoNode
  /\ onode' = [onode EXCEPT ![d] = NoNode] /\ opos' = [opos EXCEPT ![d] = 0]
  /\ listed' = [listed EXCEPT ![d] = <<>>]
  /\ steady' = [steady EXCEPT ![d] = FALSE]
  /\ unlinked' = [unlinked EXCEPT ![d] = FALSE]
  /\ UNCHANGED <<ntype, nname, kids, up>>

\* Mutant of Readdir: f->pos moves by one, not by the number of entries.
ReaddirOne(d, max) ==
  LET list == kids[onode[d]]
      upto == IF opos[d] + max < Len(list) THEN opos[d] + max ELSE Len(list)
      some == [i \in 1 .. upto - opos[d] |-> nname[list[opos[d] + i]]]
  IN  /\ onode[d] # NoNode /\ ntype[onode[d]] = "dir" /\ opos[d] < Len(list)
      /\ opos' = [opos EXCEPT ![d] = @ + 1]
      /\ listed' = [listed EXCEPT ![d] = @ \o some]
      /\ UNCHANGED <<ntype, nname, kids, up, onode, steady, unlinked>>

\* vfs_readdir with room for max entries: f->pos counts the entries that
\* were returned, from the head of the list.
Readdir(d, max) ==
  LET list == kids[onode[d]]
      upto == IF opos[d] + max < Len(list) THEN opos[d] + max ELSE Len(list)
      some == [i \in 1 .. upto - opos[d] |-> nname[list[opos[d] + i]]]
  IN  /\ onode[d] # NoNode /\ ntype[onode[d]] = "dir" /\ opos[d] < Len(list)
      /\ opos' = [opos EXCEPT ![d] = upto]
      /\ listed' = [listed EXCEPT ![d] = @ \o some]
      /\ UNCHANGED <<ntype, nname, kids, up, onode, steady, unlinked>>

NamespaceNext ==
  \/ \E path \in PathsUpTo(MaxPath) :
       \/ Unlink(path)
       \/ \E n \in Nodes : Mkdir(path, n) \/ MakeDevice(path, n)
       \/ \E d \in Openers :
            OpenNode(d, path) \/ \E n \in Nodes : OpenCreate(d, path, n)
  \/ \E d \in Openers : CloseNode(d) \/ \E max \in 1 .. 2 : Readdir(d, max)

NamespaceSpec == NamespaceInit /\ [][NamespaceNext]_nsVars

-----------------------------------------------------------------------------
(* What the tree promises.                                                  *)

InUse == {n \in Nodes : ntype[n] # "free"}
Lists(dir) == {kids[dir][i] : i \in DOMAIN kids[dir]}

\* Every node but the root is in exactly one list, once: that of its parent,
\* which is a directory.  No freed node is in any.
TreeExact ==
  /\ \A dir \in InUse : ntype[dir] # "dir" => kids[dir] = <<>>
  /\ \A dir \in InUse : IsInjective(kids[dir]) /\ Lists(dir) \subseteq InUse \ {RootNode}
  /\ \A n \in InUse \ {RootNode} :
       up[n] \in InUse /\ \A dir \in InUse : n \in Lists(dir) <=> dir = up[n]

\* The names from the root down to node n, which is k levels below it.
Ancestors[k \in Nat, n \in Nodes] ==
  IF k = 0 \/ n = RootNode THEN <<>>
  ELSE Append(Ancestors[k - 1, up[n]], nname[n])

\* Every file that exists can be opened: lookup of the path that leads to a
\* node finds that node, not another of the same name.
EveryNodeFound ==
  \A n \in InUse : Lookup(Ancestors[MaxPath, n]) = n

\* A description refers to the file it was opened on as long as nobody
\* removes that file.  (A file that is unlinked while it is open is freed
\* under the description.)
OpenStaysValid ==
  \A d \in Openers : onode[d] # NoNode /\ ~unlinked[d] => onode[d] \in InUse

\* A listing in several readdir calls shows every entry once, in list order,
\* if the directory does not change meanwhile.
ListingExact ==
  \A d \in Openers : steady[d] /\ ~unlinked[d] /\ ntype[onode[d]] = "dir" =>
    listed[d] = [i \in 1 .. opos[d] |-> nname[kids[onode[d]][i]]]

\* The tree of vfs.c through creation, removal and reuse of nodes: every
\* node is where its parent says, every path finds its node, and every open
\* description has one.
NamesExact == NamespaceTypeOK /\ TreeExact /\ EveryNodeFound /\ OpenStaysValid
=============================================================================
