---------------------------- MODULE FdTableProofs ----------------------------
(***************************************************************************)
(* The reference counts of FdTable are exact for any number of tasks,      *)
(* files, pipes and descriptors.                                           *)
(*                                                                         *)
(* Every call replaces one row of fds.  Part 1 counts: what replacing a    *)
(* row does to the number of descriptors that refer to a set of files.     *)
(* Part 2 shows that UnrefRef keeps the counts in step with such a         *)
(* replacement.  Part 3 goes through the calls.                            *)
(***************************************************************************)
EXTENDS FdTable, FiniteSetTheorems, TLAPS

-----------------------------------------------------------------------------
(* Part 1: counting.                                                        *)

Table == [Fd -> Files \cup {NULL}]

\* Holders for an arbitrary family T of tables.
HoldersIn(T, S) == {s \in Tasks \X Fd : T[s[1]][s[2]] \in S}

\* There are finitely many descriptors (VFS_MAX_FDS per task of g_tasks).
LEMMA FiniteFds == IsFiniteSet(Fd) /\ IsFiniteSet(Tasks \X Fd)
<1>1. IsFiniteSet(Fd)
  BY FdAssumption, FS_Interval DEF Fd
<1> QED
  BY <1>1, FS_Product, FdAssumption

\* Counts of descriptors are natural numbers, and zero only when there is
\* none: what lets fd counts be read as "some task still has it open".
LEMMA CountTypes ==
  ASSUME NEW T, NEW tbl, NEW S
  PROVE  /\ IsFiniteSet(HoldersIn(T, S))
         /\ Cardinality(HoldersIn(T, S)) \in Nat
         /\ Cardinality(HoldersIn(T, S)) = 0 <=> HoldersIn(T, S) = {}
         /\ IsFiniteSet(RowSlots(tbl, S))
         /\ RowCount(tbl, S) \in Nat
         /\ RowCount(tbl, S) = 0 <=> \A d \in Fd : tbl[d] \notin S
<1>1. IsFiniteSet(HoldersIn(T, S))
  BY FiniteFds, FS_Subset DEF HoldersIn
<1>2. IsFiniteSet(RowSlots(tbl, S))
  BY FiniteFds, FS_Subset DEF RowSlots
<1>3. /\ Cardinality(HoldersIn(T, S)) \in Nat
      /\ Cardinality(HoldersIn(T, S)) = 0 <=> HoldersIn(T, S) = {}
  BY <1>1, FS_CardinalityType, FS_EmptySet
<1>4. /\ RowCount(tbl, S) \in Nat
      /\ RowCount(tbl, S) = 0 <=> RowSlots(tbl, S) = {}
  BY <1>2, FS_CardinalityType, FS_EmptySet DEF RowCount
<1> QED
  BY <1>1, <1>2, <1>3, <1>4 DEF RowSlots

\* The descriptors of one task, as pairs, are as many as its row counts.
LEMMA RowPairs ==
  ASSUME NEW tbl, NEW t, NEW S
  PROVE  /\ IsFiniteSet({t} \X RowSlots(tbl, S))
         /\ Cardinality({t} \X RowSlots(tbl, S)) = RowCount(tbl, S)
<1> DEFINE D == RowSlots(tbl, S)
<1>1. IsFiniteSet(D) /\ Cardinality(D) \in Nat
  BY Zenon, CountTypes, FS_CardinalityType
<1>2. IsFiniteSet({t}) /\ Cardinality({t}) = 1
  BY Zenon, FS_Singleton
<1>3. IsFiniteSet({t} \X D) /\ Cardinality({t} \X D) = 1 * Cardinality(D)
  BY <1>1, <1>2, FS_Product
<1> QED
  BY <1>1, <1>3 DEF RowCount

\* Replacing the table of task t by new changes the number of descriptors
\* that refer to S by the difference of the two tables' counts.
LEMMA RowReplace ==
  ASSUME NEW T \in [Tasks -> Table], NEW t \in Tasks, NEW new \in Table,
         NEW T2 \in [Tasks -> Table], NEW S,
         T2[t] = new, \A u \in Tasks \ {t} : T2[u] = T[u]
  PROVE  /\ Cardinality(HoldersIn(T2, S)) =
              Cardinality(HoldersIn(T, S)) - RowCount(T[t], S)
                                           + RowCount(new, S)
         /\ RowCount(T[t], S) <= Cardinality(HoldersIn(T, S))
<1> DEFINE A == {s \in HoldersIn(T, S) : s[1] # t}
           B == {t} \X RowSlots(T[t], S)
           B2 == {t} \X RowSlots(new, S)
<1>0. A \cap B = {} /\ A \cap B2 = {}
  BY DEF HoldersIn, RowSlots
<1>1. HoldersIn(T, S) = A \cup B
  BY DEF HoldersIn, RowSlots
<1>2. HoldersIn(T2, S) = A \cup B2
  BY DEF HoldersIn, RowSlots, Table
<1>3. IsFiniteSet(A)
  BY CountTypes, FS_Subset
<1>4. /\ IsFiniteSet(B) /\ Cardinality(B) = RowCount(T[t], S)
      /\ IsFiniteSet(B2) /\ Cardinality(B2) = RowCount(new, S)
  BY Zenon, RowPairs
<1> HIDE DEF A, B, B2
<1>5. Cardinality(A) \in Nat /\ Cardinality({}) = 0
  BY <1>3, FS_CardinalityType, FS_EmptySet
<1>6. Cardinality(A \cup B) = Cardinality(A) + RowCount(T[t], S) - 0
  BY <1>0, <1>3, <1>4, <1>5, FS_Union
<1>7. Cardinality(A \cup B2) = Cardinality(A) + RowCount(new, S) - 0
  BY <1>0, <1>3, <1>4, <1>5, FS_Union
<1>8. RowCount(T[t], S) \in Nat /\ RowCount(new, S) \in Nat
  BY Zenon, CountTypes
<1>9. Cardinality(HoldersIn(T, S)) = Cardinality(A) + RowCount(T[t], S)
  BY <1>1, <1>5, <1>6, <1>8
<1>10. Cardinality(HoldersIn(T2, S)) = Cardinality(A) + RowCount(new, S)
  BY <1>2, <1>5, <1>7, <1>8
<1> QED
  BY <1>5, <1>8, <1>9, <1>10

\* Disjoint sets of files: their counts add up.
Splits(S, A, B) == S = A \cup B /\ A \cap B = {}

\* Counting over a set of files split in two: the counts add up, in one table
\* and over all tables.
LEMMA CountSplit ==
  ASSUME NEW T, NEW tbl, NEW S, NEW A, NEW B, Splits(S, A, B)
  PROVE  /\ RowCount(tbl, S) = RowCount(tbl, A) + RowCount(tbl, B)
         /\ Cardinality(HoldersIn(T, S)) =
              Cardinality(HoldersIn(T, A)) + Cardinality(HoldersIn(T, B))
<1>1. Splits(RowSlots(tbl, S), RowSlots(tbl, A), RowSlots(tbl, B))
  BY DEF RowSlots, Splits
<1>2. Splits(HoldersIn(T, S), HoldersIn(T, A), HoldersIn(T, B))
  BY DEF HoldersIn, Splits
<1>3. ASSUME NEW X, NEW Y, NEW Z, Splits(X, Y, Z), IsFiniteSet(Y), IsFiniteSet(Z)
      PROVE  Cardinality(X) = Cardinality(Y) + Cardinality(Z)
  <2>1. Cardinality(Y \cup Z) = Cardinality(Y) + Cardinality(Z) - Cardinality(Y \cap Z)
    BY <1>3, FS_Union
  <2>2. Cardinality(Y \cap Z) = 0 /\ Cardinality(Y) \in Nat /\ Cardinality(Z) \in Nat
    BY Zenon, <1>3, FS_EmptySet, FS_CardinalityType DEF Splits
  <2> QED
    BY <1>3, <2>1, <2>2 DEF Splits
<1>4. /\ IsFiniteSet(RowSlots(tbl, A)) /\ IsFiniteSet(RowSlots(tbl, B))
      /\ IsFiniteSet(HoldersIn(T, A)) /\ IsFiniteSet(HoldersIn(T, B))
  BY CountTypes
<1> QED
  BY <1>1, <1>2, <1>3, <1>4 DEF RowCount

\* Changing one descriptor of a table.
LEMMA RowPut ==
  ASSUME NEW tbl \in Table, NEW d \in Fd, NEW x \in Files \cup {NULL}, NEW S,
         NEW tbl2 \in Table, tbl2[d] = x, \A e \in Fd \ {d} : tbl2[e] = tbl[e]
  PROVE  RowCount(tbl2, S) =
           RowCount(tbl, S) - (IF tbl[d] \in S THEN 1 ELSE 0)
                            + (IF x \in S THEN 1 ELSE 0)
<1> DEFINE R == RowSlots(tbl, S)
           R2 == RowSlots(tbl2, S)
<1>1. IsFiniteSet(R) /\ IsFiniteSet(R \ {d})
  BY Zenon, CountTypes, FS_Subset
<1>2. Cardinality(R \ {d}) = Cardinality(R) - (IF tbl[d] \in S THEN 1 ELSE 0)
  <2>1. d \in R <=> tbl[d] \in S
    BY DEF RowSlots
  <2>2. Cardinality(R) \in Nat
    BY <1>1, FS_CardinalityType
  <2>3. Cardinality(R \ {d}) = IF d \in R THEN Cardinality(R) - 1 ELSE Cardinality(R)
    BY <1>1, FS_RemoveElement
  <2> QED
    BY <2>1, <2>2, <2>3
<1>3. R2 = IF x \in S THEN (R \ {d}) \cup {d} ELSE R \ {d}
  BY DEF RowSlots, Table
<1>4. Cardinality((R \ {d}) \cup {d}) = Cardinality(R \ {d}) + 1
  BY <1>1, FS_AddElement
<1>5. Cardinality(R \ {d}) \in Nat /\ Cardinality(R) \in Nat
  BY <1>1, FS_CardinalityType
<1>6. /\ RowCount(tbl, S) = Cardinality(R)
      /\ RowCount(tbl2, S) = Cardinality(R2)
  BY DEF RowCount
<1> HIDE DEF R, R2
<1> QED
  BY <1>2, <1>3, <1>4, <1>5, <1>6

\* The empty table refers to no file, Only(d, f) to f alone.
LEMMA SmallTables ==
  ASSUME NEW d \in Fd, NEW f \in Files \cup {NULL}, NEW S \in SUBSET Files
  PROVE  /\ EmptyTable \in Table
         /\ Only(d, f) \in Table
         /\ RowCount(EmptyTable, S) = 0
         /\ RowCount(Only(d, f), S) = IF f \in S THEN 1 ELSE 0
<1>1. EmptyTable \in Table /\ \A e \in Fd : EmptyTable[e] = NULL
  BY DEF EmptyTable, Table
<1>2. NULL \notin S
  BY FdAssumption
<1>3. RowCount(EmptyTable, S) = 0
  BY <1>1, <1>2, CountTypes, SMTT(30)
<1>4. /\ Only(d, f) \in Table /\ Only(d, f)[d] = f
      /\ \A e \in Fd \ {d} : Only(d, f)[e] = EmptyTable[e]
  BY <1>1 DEF Only, Table
<1>5. RowCount(Only(d, f), S) = 0 - 0 + (IF f \in S THEN 1 ELSE 0)
  BY <1>1, <1>2, <1>3, <1>4, RowPut
<1> QED
  BY <1>1, <1>3, <1>4, <1>5
-----------------------------------------------------------------------------
(* Part 2: UnrefRef keeps the counts in step with the tables.               *)

\* The number of descriptors, in the tables T, that refer to a file of S.
Count(T, S) == Cardinality(HoldersIn(T, S))

\* Both for a single file.
HoldersOfIn(T, f) == HoldersIn(T, {f})
CountOf(T, f) == Count(T, {f})

\* The inductive invariant: the counts are exact, what is referred to is
\* alive, what is alive is referred to.  No conjunct is inductive alone.
IInv == /\ TypeOK /\ RefsExact /\ EndsExact
        /\ NoDangling /\ NoOrphanPipe /\ DeadHoldNothing

\* The part of IInv that does not mention alive.
HeapInv == /\ fds \in [Tasks -> Table]
           /\ files \in SUBSET Files
           /\ refs \in [Files -> Nat]
           /\ pipeOf \in [Files -> Pipes \cup {NULL}]
           /\ end \in [Files -> Ends]
           /\ pipes \in SUBSET Pipes
           /\ refs_r \in [Pipes -> Nat]
           /\ refs_w \in [Pipes -> Nat]
           /\ RefsExact /\ EndsExact /\ NoDangling /\ NoOrphanPipe

\* The descriptors of the current tables, written with the tables as an
\* argument, so that a lemma can speak of the tables before and after a call.
LEMMA HoldersHoldersIn ==
  /\ \A S : Holders(S) = HoldersIn(fds, S)
  /\ \A S : Cardinality(Holders(S)) = Count(fds, S)
  /\ \A f : HoldersOf(f) = HoldersOfIn(fds, f)
  /\ \A f : Cardinality(HoldersOf(f)) = CountOf(fds, f)
BY DEF Holders, HoldersIn, Count, HoldersOf, HoldersOfIn, CountOf

\* The hypotheses under which file_unref of out followed by file_ref of in
\* matches the replacement of task t's table by new.
Matches(t, out, in, new) ==
  /\ fds' \in [Tasks -> Table]
  /\ fds'[t] = new
  /\ \A u \in Tasks \ {t} : fds'[u] = fds[u]
  /\ \A S \in SUBSET Files :
       /\ RowCount(new, S) = RowCount(fds[t], S) - RowCount(out, S)
                                                 + RowCount(in, S)
       /\ RowCount(out, S) <= RowCount(fds[t], S)
  /\ \A d \in Fd : in[d] # NULL =>
       /\ in[d] \in files \ DeadFiles(out)
       /\ HoldersOf(in[d]) # {}

\* When file_unref and file_ref are called for what leaves and enters task t's
\* table, the number of descriptors of every set of files changes accordingly.
LEMMA UnrefRefCounts ==
  ASSUME NEW t \in Tasks, NEW out \in Table, NEW in \in Table,
         NEW new \in Table, HeapInv, Matches(t, out, in, new),
         NEW S \in SUBSET Files
  PROVE  /\ Count(fds', S) = Count(fds, S) - RowCount(out, S) + RowCount(in, S)
         /\ RowCount(out, S) <= Count(fds, S)
         /\ Count(fds', S) \in Nat /\ Count(fds, S) \in Nat
         /\ RowCount(out, S) \in Nat /\ RowCount(in, S) \in Nat
         /\ Count(fds', S) = 0 <=> HoldersIn(fds', S) = {}
         /\ Count(fds, S) = 0 <=> HoldersIn(fds, S) = {}
<1>1. /\ Count(fds', S) = Count(fds, S) - RowCount(fds[t], S) + RowCount(new, S)
      /\ RowCount(fds[t], S) <= Count(fds, S)
  BY RowReplace DEF Count, Matches, HeapInv
<1>2. /\ RowCount(out, S) \in Nat /\ RowCount(in, S) \in Nat
      /\ RowCount(fds[t], S) \in Nat /\ RowCount(new, S) \in Nat
  BY Zenon, CountTypes
<1>3. /\ Count(fds', S) \in Nat /\ Count(fds, S) \in Nat
      /\ Count(fds', S) = 0 <=> HoldersIn(fds', S) = {}
      /\ Count(fds, S) = 0 <=> HoldersIn(fds, S) = {}
  BY Zenon, CountTypes DEF Count
<1>4. /\ RowCount(new, S) = RowCount(fds[t], S) - RowCount(out, S)
                                                + RowCount(in, S)
      /\ RowCount(out, S) <= RowCount(fds[t], S)
  BY DEF Matches
<1> QED
  BY <1>1, <1>2, <1>3, <1>4

\* The same for a single file.
LEMMA UnrefRefCount ==
  ASSUME NEW t \in Tasks, NEW out \in Table, NEW in \in Table,
         NEW new \in Table, HeapInv, Matches(t, out, in, new),
         NEW f \in Files
  PROVE  /\ CountOf(fds', f) = CountOf(fds, f) - RowCountOf(out, f)
                                               + RowCountOf(in, f)
         /\ RowCountOf(out, f) <= CountOf(fds, f)
         /\ CountOf(fds', f) \in Nat /\ CountOf(fds, f) \in Nat
         /\ RowCountOf(out, f) \in Nat /\ RowCountOf(in, f) \in Nat
         /\ CountOf(fds', f) = 0 <=> HoldersOfIn(fds', f) = {}
         /\ CountOf(fds, f) = 0 <=> HoldersOfIn(fds, f) = {}
<1> DEFINE S == {f}
<1>1. S \in SUBSET Files
  OBVIOUS
<1> HIDE DEF S
<1>2. /\ Count(fds', S) = Count(fds, S) - RowCount(out, S) + RowCount(in, S)
      /\ RowCount(out, S) <= Count(fds, S)
      /\ Count(fds', S) \in Nat /\ Count(fds, S) \in Nat
      /\ RowCount(out, S) \in Nat /\ RowCount(in, S) \in Nat
      /\ Count(fds', S) = 0 <=> HoldersIn(fds', S) = {}
      /\ Count(fds, S) = 0 <=> HoldersIn(fds, S) = {}
  BY <1>1, UnrefRefCounts
<1> QED
  BY Zenon, <1>2 DEF S, CountOf, RowCountOf, HoldersOfIn

\* A file that file_unref frees had its last descriptors in out, and is in
\* no table afterwards.
LEMMA DeadFilesGone ==
  ASSUME NEW t \in Tasks, NEW out \in Table, NEW in \in Table,
         NEW new \in Table, HeapInv, Matches(t, out, in, new),
         NEW f \in DeadFiles(out)
  PROVE  /\ f \in files
         /\ HoldersOfIn(fds', f) = {}
         /\ RowCountOf(in, f) = 0
<1>1. f \in files /\ RowCountOf(out, f) > 0 /\ refs[f] = RowCountOf(out, f)
  BY DEF DeadFiles
<1>2. f \in Files
  BY <1>1 DEF HeapInv
<1>3. RowCountOf(in, f) = 0
  <2>1. \A d \in Fd : in[d] \notin {f}
    BY <1>2, FdAssumption DEF Matches
  <2> QED
    BY <2>1, CountTypes DEF RowCountOf
<1>4. /\ CountOf(fds', f) = CountOf(fds, f) - RowCountOf(out, f)
                                            + RowCountOf(in, f)
      /\ RowCountOf(out, f) <= CountOf(fds, f)
      /\ CountOf(fds', f) \in Nat /\ CountOf(fds, f) \in Nat
      /\ RowCountOf(out, f) \in Nat
      /\ CountOf(fds', f) = 0 <=> HoldersOfIn(fds', f) = {}
      /\ CountOf(fds, f) = 0 <=> HoldersOfIn(fds, f) = {}
  BY <1>2, UnrefRefCount
<1>5. HoldersOfIn(fds, f) # {}
  BY <1>1, <1>4
<1>6. refs[f] = CountOf(fds, f)
  BY <1>1, <1>5, HoldersHoldersIn DEF HeapInv, RefsExact
<1> QED
  BY <1>1, <1>3, <1>4, <1>6

\* A call whose table change matches its file_unref and file_ref calls keeps
\* every count exact, frees nothing that is referred to, and leaves no pipe
\* without an end.
LEMMA UnrefRefKeeps ==
  ASSUME NEW t \in Tasks, NEW out \in Table, NEW in \in Table,
         NEW new \in Table, HeapInv, Matches(t, out, in, new),
         UnrefRef(out, in)
  PROVE  HeapInv'
<1> DEFINE dead == DeadFiles(out)
<1>1. /\ files' = files \ dead
      /\ refs' = [f \in Files |->
                    refs[f] - RowCountOf(out, f) + RowCountOf(in, f)]
      /\ pipeOf' = [f \in Files |-> IF f \in dead THEN NULL ELSE pipeOf[f]]
      /\ end' = [f \in Files |-> IF f \in dead THEN "r" ELSE end[f]]
      /\ pipes' = pipes \ DeadPipes(out, dead)
      /\ refs_r' = [p \in Pipes |-> refs_r[p] - RowCount(out, EndFiles(p, "r"))
                                              + RowCount(in, EndFiles(p, "r"))]
      /\ refs_w' = [p \in Pipes |-> refs_w[p] - RowCount(out, EndFiles(p, "w"))
                                              + RowCount(in, EndFiles(p, "w"))]
  BY DEF UnrefRef
<1>2. \A f \in dead : /\ f \in files
                      /\ HoldersOfIn(fds', f) = {}
                      /\ RowCountOf(in, f) = 0
  BY DeadFilesGone
<1>3. \A f \in Files :
         /\ CountOf(fds', f) = CountOf(fds, f) - RowCountOf(out, f)
                                               + RowCountOf(in, f)
         /\ RowCountOf(out, f) <= CountOf(fds, f)
         /\ CountOf(fds', f) \in Nat /\ CountOf(fds, f) \in Nat
         /\ RowCountOf(out, f) \in Nat /\ RowCountOf(in, f) \in Nat
         /\ CountOf(fds', f) = 0 <=> HoldersOfIn(fds', f) = {}
         /\ CountOf(fds, f) = 0 <=> HoldersOfIn(fds, f) = {}
  BY UnrefRefCount
<1>4. \A p \in Pipes, e \in Ends : EndFiles(p, e) \in SUBSET Files
  BY DEF EndFiles, HeapInv
<1>5. \A p \in Pipes, e \in Ends :
         /\ Count(fds', EndFiles(p, e)) =
              Count(fds, EndFiles(p, e)) - RowCount(out, EndFiles(p, e))
                                         + RowCount(in, EndFiles(p, e))
         /\ RowCount(out, EndFiles(p, e)) <= Count(fds, EndFiles(p, e))
         /\ Count(fds', EndFiles(p, e)) \in Nat
         /\ Count(fds, EndFiles(p, e)) \in Nat
         /\ RowCount(out, EndFiles(p, e)) \in Nat
         /\ RowCount(in, EndFiles(p, e)) \in Nat
         /\ Count(fds', EndFiles(p, e)) = 0 <=> HoldersIn(fds', EndFiles(p, e)) = {}
  BY <1>4, UnrefRefCounts
<1>6. \A p \in Pipes, e \in Ends : EndFiles(p, e)' = EndFiles(p, e) \ dead
  BY <1>1, FdAssumption DEF EndFiles, HeapInv
<1>7. \A p \in Pipes, e \in Ends :
         HoldersIn(fds', EndFiles(p, e)') = HoldersIn(fds', EndFiles(p, e))
  BY <1>2, <1>6 DEF HoldersIn, HoldersOfIn
<1>8. /\ \A f \in files : \/ refs[f] = CountOf(fds, f)
                          \/ /\ HoldersOfIn(fds, f) = {}
                             /\ refs[f] = 1 /\ pipeOf[f] = NULL
      /\ \A p \in pipes : /\ refs_r[p] = Count(fds, EndFiles(p, "r"))
                          /\ refs_w[p] = Count(fds, EndFiles(p, "w"))
  BY HoldersHoldersIn DEF HeapInv, RefsExact, EndsExact
<1>9. /\ \A f : HoldersOf(f)' = HoldersOfIn(fds', f)
      /\ \A f : Cardinality(HoldersOf(f))' = CountOf(fds', f)
      /\ \A p \in Pipes, e \in Ends :
           Cardinality(Holders(EndFiles(p, e)))' = Count(fds', EndFiles(p, e)')
  BY DEF Holders, HoldersIn, Count, HoldersOf, HoldersOfIn, CountOf
<1> HIDE DEF dead
<1>10. /\ files' \in SUBSET Files
       /\ pipes' \in SUBSET Pipes
       /\ pipeOf' \in [Files -> Pipes \cup {NULL}]
       /\ end' \in [Files -> Ends]
       /\ fds' \in [Tasks -> Table]
  BY <1>1 DEF HeapInv, Matches, Ends
<1>11. \A f \in Files : RowCountOf(out, f) <= refs[f]
  <2>1. \A f \in Files \ files : HoldersOfIn(fds, f) = {}
    BY FdAssumption DEF HeapInv, NoDangling, HoldersOfIn, HoldersIn, Table
  <2> QED
    BY <1>3, <1>8, <2>1 DEF HeapInv
<1>12. refs' \in [Files -> Nat]
  BY <1>1, <1>3, <1>11 DEF HeapInv
<1>13. refs_r' \in [Pipes -> Nat] /\ refs_w' \in [Pipes -> Nat]
  <2>1. \A p \in Pipes \ pipes, e \in Ends : EndFiles(p, e) = {}
    BY FdAssumption DEF HeapInv, NoDangling, EndFiles
  <2>2. \A p \in Pipes \ pipes, e \in Ends : RowCount(out, EndFiles(p, e)) = 0
    BY <2>1, CountTypes
  <2> SUFFICES ASSUME NEW p \in Pipes
               PROVE  refs_r'[p] \in Nat /\ refs_w'[p] \in Nat
    BY <1>1
  <2>3. /\ refs_r'[p] = refs_r[p] - RowCount(out, EndFiles(p, "r"))
                                  + RowCount(in, EndFiles(p, "r"))
        /\ refs_w'[p] = refs_w[p] - RowCount(out, EndFiles(p, "w"))
                                  + RowCount(in, EndFiles(p, "w"))
    BY <1>1
  <2>4. /\ RowCount(out, EndFiles(p, "r")) <= Count(fds, EndFiles(p, "r"))
        /\ Count(fds, EndFiles(p, "r")) \in Nat
        /\ RowCount(out, EndFiles(p, "r")) \in Nat
        /\ RowCount(in, EndFiles(p, "r")) \in Nat
        /\ RowCount(out, EndFiles(p, "w")) <= Count(fds, EndFiles(p, "w"))
        /\ Count(fds, EndFiles(p, "w")) \in Nat
        /\ RowCount(out, EndFiles(p, "w")) \in Nat
        /\ RowCount(in, EndFiles(p, "w")) \in Nat
    BY <1>5 DEF Ends
  <2>5. refs_r[p] \in Nat /\ refs_w[p] \in Nat
    BY DEF HeapInv
  <2>6. CASE p \in pipes
    BY <1>8, <2>3, <2>4, <2>6, SMTT(30)
  <2>7. CASE p \notin pipes
    <3>1. /\ RowCount(out, EndFiles(p, "r")) = 0
          /\ RowCount(out, EndFiles(p, "w")) = 0
      BY <2>2, <2>7 DEF Ends
    <3> QED
      BY <2>3, <2>4, <2>5, <3>1
  <2> QED
    BY <2>6, <2>7
<1>14. RefsExact'
  <2> SUFFICES ASSUME NEW f \in files'
               PROVE  \/ refs'[f] = CountOf(fds', f)
                      \/ /\ HoldersOfIn(fds', f) = {}
                         /\ refs'[f] = 1 /\ pipeOf'[f] = NULL
    BY <1>9 DEF RefsExact
  <2>1. f \in files /\ f \notin dead /\ f \in Files
    BY <1>1, <1>10
  <2>2. refs'[f] = refs[f] - RowCountOf(out, f) + RowCountOf(in, f)
    BY <1>1, <2>1
  <2>3. CASE refs[f] = CountOf(fds, f)
    BY <1>3, <2>1, <2>2, <2>3
  <2>4. CASE HoldersOfIn(fds, f) = {} /\ refs[f] = 1 /\ pipeOf[f] = NULL
    <3>1. RowCountOf(in, f) = 0
      <4>1. \A d \in Fd : in[d] \notin {f}
        BY <2>1, <2>4, HoldersHoldersIn, FdAssumption DEF Matches
      <4> QED
        BY Zenon, <4>1, CountTypes DEF RowCountOf
    <3>2. RowCountOf(out, f) = 0 /\ HoldersOfIn(fds', f) = {}
      BY <1>3, <2>1, <2>4, <3>1, SMTT(30)
    <3>3. pipeOf'[f] = NULL
      BY <1>1, <2>1, <2>4
    <3> QED
      BY <2>2, <2>4, <3>1, <3>2, <3>3
  <2> QED
    BY <1>8, <2>1, <2>3, <2>4
<1>15. EndsExact'
  <2> SUFFICES ASSUME NEW p \in pipes'
               PROVE  /\ refs_r'[p] = Count(fds', EndFiles(p, "r"))
                      /\ refs_w'[p] = Count(fds', EndFiles(p, "w"))
    BY Zenon, <1>7, <1>9, <1>10 DEF EndsExact, Count, Ends
  <2>1. p \in pipes /\ p \in Pipes
    BY <1>1, <1>10
  <2> QED
    BY Zenon, <1>1, <1>5, <1>8, <2>1 DEF Ends
\* A pipe file that survives keeps a descriptor.
<1>16. \A f \in files' : pipeOf'[f] # NULL => HoldersOfIn(fds', f) # {}
  <2> SUFFICES ASSUME NEW f \in files', pipeOf'[f] # NULL,
                      HoldersOfIn(fds', f) = {}
               PROVE  FALSE
    OBVIOUS
  <2>1. f \in files /\ f \notin dead /\ f \in Files /\ pipeOf[f] # NULL
    BY <1>1, <1>10
  <2>2. HoldersOfIn(fds, f) # {}
    BY <2>1, HoldersHoldersIn DEF HeapInv, NoOrphanPipe
  <2>3. refs[f] = RowCountOf(out, f) /\ RowCountOf(out, f) > 0
    BY <1>3, <1>8, <2>1, <2>2, SMTT(30)
  <2> QED
    BY <2>1, <2>3 DEF dead, DeadFiles
\* The pipe of a file that survives is not freed: if all the descriptors of
\* its ends were in out, so were all those of the file.
<1>17. \A f \in files' : pipeOf'[f] # NULL => pipeOf'[f] \in pipes'
  <2> SUFFICES ASSUME NEW f \in files', pipeOf'[f] # NULL,
                      pipeOf'[f] \notin pipes'
               PROVE  FALSE
    OBVIOUS
  <2>1. /\ f \in files /\ f \notin dead /\ f \in Files
        /\ pipeOf'[f] = pipeOf[f] /\ pipeOf[f] # NULL
    BY <1>1, <1>10
  <2> DEFINE p == pipeOf[f]
             E == EndFiles(p, end[f])
             A == {f}
             B == E \ {f}
  <2>2. p \in pipes /\ p \in Pipes /\ p \in DeadPipes(out, dead)
    BY <1>1, <2>1 DEF HeapInv, NoDangling
  <2>3. end[f] \in Ends /\ f \in E /\ E \in SUBSET Files
    BY <2>1 DEF EndFiles, HeapInv
  <2>4. /\ refs_r[p] = RowCount(out, EndFiles(p, "r"))
        /\ refs_w[p] = RowCount(out, EndFiles(p, "w"))
    BY <2>2 DEF DeadPipes
  <2>5. Count(fds, E) = RowCount(out, E)
    BY <1>8, <2>2, <2>3, <2>4 DEF Ends
  <2>6. /\ B \in SUBSET Files
        /\ Splits(E, A, B)
    BY <2>3 DEF Splits
  <2> HIDE DEF E, A, B
  <2>7. /\ RowCount(out, E) = RowCountOf(out, f) + RowCount(out, B)
        /\ Count(fds, E) = CountOf(fds, f) + Count(fds, B)
    <3>1. /\ RowCount(out, E) = RowCount(out, A) + RowCount(out, B)
          /\ Count(fds, E) = Count(fds, A) + Count(fds, B)
      BY <2>6, CountSplit DEF Count
    <3> QED
      BY <3>1 DEF A, RowCountOf, CountOf
  <2>8. /\ RowCount(out, B) <= Count(fds, B)
        /\ RowCount(out, B) \in Nat /\ Count(fds, B) \in Nat
    BY <2>6, UnrefRefCounts
  <2>9. CountOf(fds, f) = RowCountOf(out, f)
    BY <1>3, <2>1, <2>5, <2>7, <2>8, SMTT(30)
  <2>10. HoldersOfIn(fds, f) # {}
    BY <2>1, HoldersHoldersIn DEF HeapInv, NoOrphanPipe
  <2> QED
    BY <1>3, <1>8, <2>1, <2>9, <2>10, SMTT(30) DEF dead, DeadFiles
<1>18. NoDangling'
  <2>1. ASSUME NEW u \in Tasks, NEW d \in Fd, fds'[u][d] # NULL
        PROVE  fds'[u][d] \in files'
    <3> DEFINE g == fds'[u][d]
    <3>1. g \in Files
      BY <1>10, <2>1 DEF Table
    <3>2. HoldersOfIn(fds', g) # {}
      <4>1. <<u, d>> \in HoldersOfIn(fds', g)
        BY DEF HoldersOfIn, HoldersIn
      <4> QED
        BY <4>1
    <3>3. g \notin dead
      BY <1>2, <3>2
    <3>4. CASE CountOf(fds, g) > 0
      <4>1. HoldersOfIn(fds, g) # {}
        BY <1>3, <3>1, <3>4
      <4>2. g \in files
        BY <3>1, <4>1, FdAssumption
           DEF HeapInv, NoDangling, HoldersOfIn, HoldersIn
      <4> QED
        BY <1>1, <3>3, <4>2
    <3>5. CASE RowCountOf(in, g) > 0
      <4>1. \E e \in Fd : in[e] = g
        BY <3>5, CountTypes, SMTT(30) DEF RowCountOf
      <4>2. g \in files
        BY <3>1, <4>1, FdAssumption DEF Matches
      <4> QED
        BY <1>1, <3>3, <4>2
    <3> QED
      BY <1>3, <3>1, <3>2, <3>4, <3>5
  <2> QED
    BY <1>17, <2>1 DEF NoDangling
<1>19. NoOrphanPipe'
  <2>1. ASSUME NEW p \in pipes', \A f \in files' : pipeOf'[f] # p
        PROVE  FALSE
    <3>1. p \in pipes /\ p \in Pipes /\ p \notin DeadPipes(out, dead)
      BY <1>1, <1>10
    <3>2. \E f \in dead : pipeOf[f] = p
      BY Zenon, <1>1, <1>2, <2>1, <3>1 DEF HeapInv, NoOrphanPipe
    <3>3. \A e \in Ends : EndFiles(p, e)' = {}
      BY <2>1 DEF EndFiles
    <3>4. \A e \in Ends : HoldersIn(fds', EndFiles(p, e)) = {}
      BY <1>7, <3>1, <3>3 DEF HoldersIn
    <3>5. \A e \in Ends : Count(fds, EndFiles(p, e)) = RowCount(out, EndFiles(p, e))
      BY <1>5, <3>1, <3>4
    <3>6. /\ refs_r[p] = RowCount(out, EndFiles(p, "r"))
          /\ refs_w[p] = RowCount(out, EndFiles(p, "w"))
      BY Zenon, <1>8, <3>1, <3>5 DEF Ends
    <3> QED
      BY <3>1, <3>2, <3>6 DEF DeadPipes
  <2> QED
    BY <1>9, <1>16, <2>1 DEF NoOrphanPipe
<1> QED
  BY <1>10, <1>12, <1>13, <1>14, <1>15, <1>18, <1>19 DEF HeapInv

-----------------------------------------------------------------------------
(* Part 3: the calls.                                                       *)

\* The inductive invariant without the set of live tasks: what the calls on
\* one table have to preserve.
LEMMA IInvHeapInv == IInv <=> /\ HeapInv /\ DeadHoldNothing
                              /\ alive \in SUBSET Tasks
BY DEF IInv, HeapInv, TypeOK, Table

\* Replacing what descriptor d of t refers to by x, where x is NULL or a file
\* that survives: the table change of vfs_close, vfs_dup and vfs_dup2.
LEMMA PutMatches ==
  ASSUME HeapInv, NEW t \in Tasks, NEW d \in Fd, NEW x \in Files \cup {NULL},
         fds' = [fds EXCEPT ![t][d] = x],
         x # NULL => /\ x \in files \ DeadFiles(Only(d, fds[t][d]))
                     /\ HoldersOf(x) # {}
  PROVE  /\ Matches(t, Only(d, fds[t][d]), Only(d, x), [fds[t] EXCEPT ![d] = x])
         /\ Only(d, fds[t][d]) \in Table
         /\ Only(d, x) \in Table
         /\ [fds[t] EXCEPT ![d] = x] \in Table
<1> DEFINE new == [fds[t] EXCEPT ![d] = x]
           out == Only(d, fds[t][d])
           in == Only(d, x)
<1>1. fds \in [Tasks -> Table] /\ fds[t] \in Table /\ fds[t][d] \in Files \cup {NULL}
  BY DEF HeapInv, Table
<1>2. new \in Table
  BY <1>1 DEF Table
<1>3. fds' \in [Tasks -> Table] /\ fds'[t] = new /\ \A u \in Tasks \ {t} : fds'[u] = fds[u]
  BY <1>1, <1>2
<1>4. out \in Table /\ in \in Table
  BY <1>1, SmallTables
<1>5. ASSUME NEW S \in SUBSET Files
      PROVE  /\ RowCount(new, S) = RowCount(fds[t], S) - RowCount(out, S)
                                                       + RowCount(in, S)
             /\ RowCount(out, S) <= RowCount(fds[t], S)
  <2>1. RowCount(out, S) = IF fds[t][d] \in S THEN 1 ELSE 0
    BY <1>1, SmallTables
  <2>2. RowCount(in, S) = IF x \in S THEN 1 ELSE 0
    BY SmallTables
  <2>3. RowCount(new, S) = RowCount(fds[t], S) - (IF fds[t][d] \in S THEN 1 ELSE 0)
                                               + (IF x \in S THEN 1 ELSE 0)
    <3>1. new[d] = x /\ \A e \in Fd \ {d} : new[e] = fds[t][e]
      BY <1>1 DEF Table
    <3> HIDE DEF new
    <3> QED
      BY <1>1, <1>2, <3>1, RowPut
  <2>4. RowCount(fds[t], S) \in Nat /\ (fds[t][d] \in S => RowCount(fds[t], S) # 0)
    BY CountTypes
  <2> HIDE DEF new, out, in
  <2>5. CASE fds[t][d] \in S
    BY <2>1, <2>2, <2>3, <2>4, <2>5
  <2>6. CASE fds[t][d] \notin S
    BY <2>1, <2>2, <2>3, <2>4, <2>6
  <2> QED
    BY <2>5, <2>6
<1>6. \A e \in Fd : in[e] # NULL => in[e] = x
  BY DEF Only, EmptyTable
<1> QED
  BY Zenon, <1>2, <1>3, <1>4, <1>5, <1>6 DEF Matches

\* vfs_dup2 onto a free descriptor releases nothing.
LEMMA OnlyNull == ASSUME NEW d \in Fd PROVE Only(d, NULL) = EmptyTable
BY DEF Only, EmptyTable

\* No file dies when file_unref is not called.
LEMMA NobodyDies == DeadFiles(EmptyTable) \cap Files = {}
<1>1. \A f \in Files : RowCountOf(EmptyTable, f) = 0
  <2> SUFFICES ASSUME NEW f \in Files PROVE RowCountOf(EmptyTable, f) = 0
    OBVIOUS
  <2>1. \A d \in Fd : EmptyTable[d] \notin {f}
    BY FdAssumption DEF EmptyTable
  <2> QED
    BY <2>1, CountTypes DEF RowCountOf
<1> QED
  BY <1>1 DEF DeadFiles

\* What a descriptor refers to is alive and held.
LEMMA HeldAlive ==
  ASSUME HeapInv, NEW t \in Tasks, NEW d \in Fd, fds[t][d] # NULL
  PROVE  /\ fds[t][d] \in files /\ fds[t][d] \in Files
         /\ HoldersOf(fds[t][d]) # {}
<1>1. <<t, d>> \in HoldersOf(fds[t][d])
  BY DEF HoldersOf, Holders
<1> QED
  BY <1>1 DEF HeapInv, NoDangling

\* vfs_close preserves the invariant.
LEMMA CloseKeeps ==
  ASSUME IInv, NEW t \in Tasks, NEW d \in Fd, Close(t, d)
  PROVE  IInv'
<1> USE IInvHeapInv
<1>1. HeapInv'
  <2>1. fds' = [fds EXCEPT ![t][d] = NULL]
    BY DEF Close
  <2>2. UnrefRef(Only(d, fds[t][d]), Only(d, NULL))
    BY OnlyNull DEF Close
  <2> QED
    BY Zenon, <2>1, <2>2, PutMatches, UnrefRefKeeps
<1>2. DeadHoldNothing' /\ alive' \in SUBSET Tasks
  BY DEF Close, DeadHoldNothing, HeapInv
<1> QED
  BY <1>1, <1>2 DEF IInv, HeapInv, TypeOK, Table

\* vfs_dup preserves the invariant.
LEMMA DupKeeps ==
  ASSUME IInv, NEW t \in Tasks, NEW old \in Fd, Dup(t, old)
  PROVE  IInv'
<1> USE IInvHeapInv
<1> DEFINE x == fds[t][old]
<1>1. PICK d \in Fd : /\ IsLowest(d, FreeFrom(t, 0))
                      /\ fds' = [fds EXCEPT ![t][d] = x]
                      /\ UnrefRef(EmptyTable, Only(d, x))
  BY Zenon DEF Dup
<1>2. x # NULL /\ x \in files /\ x \in Files /\ HoldersOf(x) # {}
  BY HeldAlive DEF Dup
<1>3. fds[t][d] = NULL /\ alive' = alive /\ t \in alive
  BY <1>1 DEF Dup, IsLowest, FreeFrom
<1>4. UnrefRef(Only(d, fds[t][d]), Only(d, x))
  BY <1>1, <1>3, OnlyNull
<1>5. x \notin DeadFiles(Only(d, fds[t][d]))
  BY <1>2, <1>3, OnlyNull, NobodyDies
<1> HIDE DEF x
<1>6. HeapInv'
  BY Zenon, <1>1, <1>2, <1>3, <1>4, <1>5, PutMatches, UnrefRefKeeps
<1>7. DeadHoldNothing' /\ alive' \in SUBSET Tasks
  BY <1>1, <1>3 DEF DeadHoldNothing, HeapInv
<1> QED
  BY <1>6, <1>7 DEF IInv, HeapInv, TypeOK, Table

\* vfs_dup2 closes its target first: the file it duplicates survives that
\* even when the target refers to the same file, which then has two holders.
LEMMA Dup2Keeps ==
  ASSUME IInv, NEW t \in Tasks, NEW old \in Fd, NEW new \in Fd, Dup2(t, old, new)
  PROVE  IInv'
<1> USE IInvHeapInv
<1> DEFINE x == fds[t][old]
           out == Only(new, fds[t][new])
<1>1. x # NULL /\ x \in files /\ x \in Files /\ HoldersOf(x) # {} /\ old # new
  BY HeldAlive DEF Dup2
<1>2. /\ fds' = [fds EXCEPT ![t][new] = x]
      /\ UnrefRef(out, Only(new, x))
      /\ alive' = alive /\ t \in alive
  BY DEF Dup2
<1>3. fds \in [Tasks -> Table] /\ fds[t] \in Table /\ fds[t][new] \in Files \cup {NULL}
  BY DEF HeapInv, Table
<1>4. x \notin DeadFiles(out)
  <2> SUFFICES ASSUME x \in DeadFiles(out) PROVE FALSE
    OBVIOUS
  <2> DEFINE S == {x}
  <2>1. S \in SUBSET Files
    BY <1>1
  <2>2. RowCount(out, S) > 0 /\ refs[x] = RowCount(out, S)
    BY DEF DeadFiles, RowCountOf
  <2>3. RowCount(out, S) = IF fds[t][new] \in S THEN 1 ELSE 0
    BY <1>3, <2>1, SmallTables
  <2>4. fds[t][new] \in S /\ refs[x] = 1
    BY <2>2, <2>3
  <2> DEFINE row == [fds[t] EXCEPT ![new] = NULL]
  <2>5. /\ row \in Table /\ row[new] = NULL
        /\ \A e \in Fd \ {new} : row[e] = fds[t][e]
        /\ row[old] \in S /\ NULL \notin S
    BY <1>1, <1>3, FdAssumption DEF Table
  <2>6. refs[x] = Count(fds, S)
    BY <1>1, HoldersHoldersIn DEF HeapInv, RefsExact, CountOf
  <2> HIDE DEF row, S
  <2>7. RowCount(row, S) = RowCount(fds[t], S) - 1 + 0
    BY <1>3, <2>4, <2>5, RowPut, SMTT(30)
  <2>8. RowCount(row, S) # 0 /\ RowCount(row, S) \in Nat /\ RowCount(fds[t], S) \in Nat
    BY Zenon, <2>5, CountTypes
  <2>9. RowCount(fds[t], S) <= Count(fds, S) /\ Count(fds, S) \in Nat
    BY <1>3, RowReplace, CountTypes DEF Count
  <2> QED
    BY <2>4, <2>6, <2>7, <2>8, <2>9
<1> HIDE DEF x
<1>5. HeapInv'
  BY Zenon, <1>1, <1>2, <1>4, PutMatches, UnrefRefKeeps
<1>6. DeadHoldNothing' /\ alive' \in SUBSET Tasks
  BY <1>2 DEF DeadHoldNothing, HeapInv
<1> QED
  BY <1>5, <1>6 DEF IInv, HeapInv, TypeOK, Table

\* vfs_fd_inherit, called by task_create_user, preserves the invariant: the
\* slot it fills was emptied by the exit of its last task.
LEMMA SpawnKeeps ==
  ASSUME IInv, NEW c \in Tasks, Spawn(c)
  PROVE  IInv'
<1> USE IInvHeapInv
<1> DEFINE in == fds[Shell]
<1>1. /\ c \notin alive /\ alive' = alive \cup {c}
      /\ fds' = [fds EXCEPT ![c] = in]
      /\ UnrefRef(EmptyTable, in)
  BY DEF Spawn
<1>2. fds[c] = EmptyTable
  BY <1>1 DEF DeadHoldNothing
<1>3. /\ fds \in [Tasks -> Table] /\ in \in Table /\ EmptyTable \in Table
      /\ Shell \in Tasks
  BY FdAssumption DEF HeapInv, EmptyTable, Table
<1>4. \A S \in SUBSET Files :
        /\ RowCount(in, S) = RowCount(fds[c], S) - RowCount(EmptyTable, S)
                                                 + RowCount(in, S)
        /\ RowCount(EmptyTable, S) <= RowCount(fds[c], S)
  <2>1. \A S : RowCount(in, S) \in Nat /\ RowCount(EmptyTable, S) \in Nat
    BY Zenon, CountTypes
  <2> QED
    BY <1>2, <2>1
<1>5. \A d \in Fd : in[d] # NULL => /\ in[d] \in files \ DeadFiles(EmptyTable)
                                   /\ HoldersOf(in[d]) # {}
  BY <1>3, HeldAlive, NobodyDies
<1>6. Matches(c, EmptyTable, in, in)
  <2>1. fds' \in [Tasks -> Table] /\ fds'[c] = in /\ \A u \in Tasks \ {c} : fds'[u] = fds[u]
    BY <1>1, <1>3
  <2> QED
    BY <1>4, <1>5, <2>1 DEF Matches
<1>7. HeapInv'
  BY <1>1, <1>3, <1>6, UnrefRefKeeps
<1>8. DeadHoldNothing' /\ alive' \in SUBSET Tasks
  BY <1>1, <1>3 DEF DeadHoldNothing
<1> QED
  BY <1>7, <1>8 DEF IInv, HeapInv, TypeOK, Table

\* vfs_close_all, called by task_exit, preserves the invariant, although one
\* table may hold the same description several times.
LEMMA ExitKeeps ==
  ASSUME IInv, NEW t \in Tasks, Exit(t)
  PROVE  IInv'
<1> USE IInvHeapInv
<1> DEFINE out == fds[t]
<1>1. /\ alive' = alive \ {t}
      /\ fds' = [fds EXCEPT ![t] = EmptyTable]
      /\ UnrefRef(out, EmptyTable)
  BY DEF Exit
<1>2. fds \in [Tasks -> Table] /\ out \in Table /\ EmptyTable \in Table
  BY DEF HeapInv, EmptyTable, Table
<1>3. \A S \in SUBSET Files :
        /\ RowCount(EmptyTable, S) = RowCount(out, S) - RowCount(out, S)
                                                      + RowCount(EmptyTable, S)
        /\ RowCount(out, S) <= RowCount(out, S)
  <2>1. \A S : RowCount(out, S) \in Nat /\ RowCount(EmptyTable, S) \in Nat
    BY CountTypes
  <2> QED
    BY <2>1
<1>4. Matches(t, out, EmptyTable, EmptyTable)
  <2>1. /\ fds' \in [Tasks -> Table] /\ fds'[t] = EmptyTable
        /\ \A u \in Tasks \ {t} : fds'[u] = fds[u]
    BY <1>1, <1>2
  <2>2. \A d \in Fd : EmptyTable[d] = NULL
    BY DEF EmptyTable
  <2> QED
    BY <1>3, <2>1, <2>2 DEF Matches
<1>5. HeapInv'
  BY <1>1, <1>2, <1>4, UnrefRefKeeps
<1>6. DeadHoldNothing' /\ alive' \in SUBSET Tasks
  BY <1>1, <1>2 DEF DeadHoldNothing
<1> QED
  BY <1>5, <1>6 DEF IInv, HeapInv, TypeOK, Table

\* Filling a free descriptor d of t with x adds one holder of x.
LEMMA FillCounts ==
  ASSUME NEW T \in [Tasks -> Table], NEW t \in Tasks, NEW d \in Fd,
         NEW x \in Files, T[t][d] = NULL,
         NEW T2 \in [Tasks -> Table], NEW S \in SUBSET Files,
         T2[t][d] = x, \A e \in Fd \ {d} : T2[t][e] = T[t][e],
         \A u \in Tasks \ {t} : T2[u] = T[u]
  PROVE  /\ Count(T2, S) = Count(T, S) + (IF x \in S THEN 1 ELSE 0)
         /\ Count(T2, S) \in Nat /\ Count(T, S) \in Nat
<1>1. RowCount(T2[t], S) = RowCount(T[t], S) - 0 + (IF x \in S THEN 1 ELSE 0)
  BY RowPut, FdAssumption
<1>2. Count(T2, S) = Count(T, S) - RowCount(T[t], S) + RowCount(T2[t], S)
  BY RowReplace, SMTT(30) DEF Count
<1>3. /\ RowCount(T[t], S) \in Nat /\ RowCount(T2[t], S) \in Nat
      /\ Count(T, S) \in Nat /\ Count(T2, S) \in Nat
  BY Zenon, CountTypes DEF Count
<1>4. CASE x \in S
  BY <1>1, <1>2, <1>3, <1>4
<1>5. CASE x \notin S
  BY <1>1, <1>2, <1>3, <1>5, SMTT(30)
<1> QED
  BY <1>4, <1>5

\* A file that is not alive has no holder.
LEMMA FreshUnheld ==
  ASSUME HeapInv, NEW f \in Files \ files
  PROVE  HoldersOf(f) = {} /\ CountOf(fds, f) = 0
<1>1. HoldersOf(f) = {}
  BY FdAssumption DEF HeapInv, NoDangling, HoldersOf, Holders
<1> QED
  BY <1>1, HoldersHoldersIn, FS_EmptySet

\* A file has no descriptor exactly when their number is zero.
LEMMA CountOfZero ==
  ASSUME NEW T, NEW f
  PROVE  /\ CountOf(T, f) \in Nat
         /\ CountOf(T, f) = 0 <=> HoldersOfIn(T, f) = {}
BY Zenon, CountTypes DEF CountOf, Count, HoldersOfIn

\* Filling an empty descriptor with x adds one to the count of x only.
LEMMA FillCountOf ==
  ASSUME NEW T \in [Tasks -> Table], NEW t \in Tasks, NEW d \in Fd,
         NEW x \in Files, T[t][d] = NULL,
         NEW T2 \in [Tasks -> Table], NEW f \in Files,
         T2[t][d] = x, \A e \in Fd \ {d} : T2[t][e] = T[t][e],
         \A u \in Tasks \ {t} : T2[u] = T[u]
  PROVE  CountOf(T2, f) = CountOf(T, f) + (IF x = f THEN 1 ELSE 0)
<1> DEFINE S == {f}
<1>1. S \in SUBSET Files /\ (x \in S <=> x = f)
  OBVIOUS
<1> HIDE DEF S
<1>2. Count(T2, S) = Count(T, S) + (IF x \in S THEN 1 ELSE 0)
  BY <1>1, FillCounts, SMTT(30)
<1> QED
  BY <1>1, <1>2 DEF S, CountOf

\* vfs_open preserves the invariant, its -ENOMEM path included.
LEMMA OpenKeeps ==
  ASSUME IInv, NEW t \in Tasks, Open(t)
  PROVE  IInv'
<1> USE IInvHeapInv
<1>1. PICK f \in Files \ files :
        /\ files' = files \cup {f}
        /\ refs' = [refs EXCEPT ![f] = 1]
        /\ pipeOf' = [pipeOf EXCEPT ![f] = NULL]
        /\ \/ fds' = fds
           \/ \E d \in Fd : /\ IsLowest(d, FreeFrom(t, FirstFd))
                            /\ fds' = [fds EXCEPT ![t][d] = f]
  BY Zenon DEF Open
<1>2. /\ alive' = alive /\ end' = end /\ pipes' = pipes
      /\ refs_r' = refs_r /\ refs_w' = refs_w /\ t \in alive
  BY DEF Open
<1>3. /\ fds \in [Tasks -> Table] /\ files \in SUBSET Files
      /\ refs \in [Files -> Nat] /\ pipeOf \in [Files -> Pipes \cup {NULL}]
  BY DEF HeapInv
<1>4. /\ fds' \in [Tasks -> Table]
      /\ \A g \in Files : g # f => CountOf(fds', g) = CountOf(fds, g)
      /\ \A S \in SUBSET Files : f \notin S => Count(fds', S) = Count(fds, S)
      /\ CountOf(fds', f) \in {0, 1}
      /\ \A u \in Tasks, e \in Fd : fds'[u][e] = fds[u][e] \/ fds'[u][e] = f
  <2>1. CASE fds' = fds
    BY <1>3, <2>1, FreshUnheld
  <2>2. CASE \E d \in Fd : /\ IsLowest(d, FreeFrom(t, FirstFd))
                           /\ fds' = [fds EXCEPT ![t][d] = f]
    <3>1. PICK d \in Fd : /\ IsLowest(d, FreeFrom(t, FirstFd))
                          /\ fds' = [fds EXCEPT ![t][d] = f]
      BY Zenon, <2>2
    <3>2. fds[t][d] = NULL
      BY <3>1 DEF IsLowest, FreeFrom
    <3>3. /\ fds' \in [Tasks -> Table] /\ fds'[t][d] = f
          /\ \A e \in Fd \ {d} : fds'[t][e] = fds[t][e]
          /\ \A u \in Tasks \ {t} : fds'[u] = fds[u]
      BY <1>3, <3>1 DEF Table
    <3>4. \A g \in Files :
            CountOf(fds', g) = CountOf(fds, g) + (IF f = g THEN 1 ELSE 0)
      BY <1>3, <3>2, <3>3, FillCountOf, SMTT(30)
    <3>5. \A S \in SUBSET Files :
            /\ Count(fds', S) = Count(fds, S) + (IF f \in S THEN 1 ELSE 0)
            /\ Count(fds, S) \in Nat
      BY <1>3, <3>2, <3>3, FillCounts
    <3>6. \A u \in Tasks, e \in Fd : fds'[u][e] = fds[u][e] \/ fds'[u][e] = f
      BY <3>3
    <3>7. CountOf(fds, f) = 0 /\ \A g \in Files : CountOf(fds, g) \in Nat
      BY FreshUnheld, CountOfZero
    <3> QED
      BY <3>3, <3>4, <3>5, <3>6, <3>7, SMTT(30)
  <2> QED
    BY <1>1, <2>1, <2>2
<1>5. \A p \in Pipes, e \in Ends :
        /\ EndFiles(p, e)' = EndFiles(p, e)
        /\ EndFiles(p, e) \in SUBSET Files /\ f \notin EndFiles(p, e)
  BY <1>1, <1>2, <1>3, FdAssumption, SMTT(30) DEF EndFiles
<1>6. /\ \A g : HoldersOf(g)' = HoldersOfIn(fds', g)
      /\ \A g : Cardinality(HoldersOf(g))' = CountOf(fds', g)
      /\ \A p \in Pipes, e \in Ends :
           Cardinality(Holders(EndFiles(p, e)))' = Count(fds', EndFiles(p, e)')
  BY DEF Holders, HoldersIn, Count, HoldersOf, HoldersOfIn, CountOf
<1>7. \A g \in files : /\ g # f /\ g \in Files
                       /\ refs'[g] = refs[g] /\ pipeOf'[g] = pipeOf[g]
                       /\ HoldersOf(g) = {} <=> HoldersOf(g)' = {}
  BY <1>1, <1>3, <1>4, <1>6, HoldersHoldersIn, CountOfZero
<1>8. /\ files' \in SUBSET Files /\ refs' \in [Files -> Nat]
      /\ pipeOf' \in [Files -> Pipes \cup {NULL}]
      /\ refs'[f] = 1 /\ pipeOf'[f] = NULL
  BY <1>1, <1>3
<1>9. RefsExact'
  <2>1. \/ refs'[f] = Cardinality(HoldersOf(f))'
        \/ HoldersOf(f)' = {} /\ refs'[f] = 1 /\ pipeOf'[f] = NULL
    BY Zenon, <1>4, <1>6, <1>8, CountOfZero
  <2>2. \A g \in files :
          \/ refs'[g] = Cardinality(HoldersOf(g))'
          \/ HoldersOf(g)' = {} /\ refs'[g] = 1 /\ pipeOf'[g] = NULL
    <3> SUFFICES ASSUME NEW g \in files
                 PROVE  \/ refs'[g] = Cardinality(HoldersOf(g))'
                        \/ HoldersOf(g)' = {} /\ refs'[g] = 1 /\ pipeOf'[g] = NULL
      OBVIOUS
    <3>1. \/ refs[g] = Cardinality(HoldersOf(g))
          \/ HoldersOf(g) = {} /\ refs[g] = 1 /\ pipeOf[g] = NULL
      BY DEF HeapInv, RefsExact
    <3>2. CASE refs[g] = Cardinality(HoldersOf(g))
      <4>1. /\ refs[g] = CountOf(fds, g)
            /\ CountOf(fds', g) = CountOf(fds, g) /\ refs'[g] = refs[g]
        BY Zenon, <1>4, <1>7, <3>2, HoldersHoldersIn
      <4>2. Cardinality(HoldersOf(g))' = CountOf(fds', g)
        BY <1>6
      <4> QED
        BY <4>1, <4>2
    <3>3. CASE HoldersOf(g) = {} /\ refs[g] = 1 /\ pipeOf[g] = NULL
      BY <1>7, <3>3
    <3> QED
      BY Zenon, <3>1, <3>2, <3>3
  <2> QED
    BY <1>1, <2>1, <2>2 DEF RefsExact
<1>10. EndsExact'
  <2>1. \A p \in pipes, e \in Ends :
          Cardinality(Holders(EndFiles(p, e)))' = Cardinality(Holders(EndFiles(p, e)))
    <3> SUFFICES ASSUME NEW p \in pipes, NEW e \in Ends
                 PROVE  Cardinality(Holders(EndFiles(p, e)))' = Cardinality(Holders(EndFiles(p, e)))
      OBVIOUS
    <3>1. p \in Pipes
      BY DEF HeapInv
    <3>2. Count(fds', EndFiles(p, e)) = Count(fds, EndFiles(p, e))
      BY <1>4, <1>5, <3>1
    <3>3. Cardinality(Holders(EndFiles(p, e)))' = Count(fds', EndFiles(p, e))
      BY <1>5, <1>6, <3>1
    <3>4. Cardinality(Holders(EndFiles(p, e))) = Count(fds, EndFiles(p, e))
      BY HoldersHoldersIn
    <3> QED
      BY <3>2, <3>3, <3>4
  <2>2. \A p \in pipes : /\ refs_r[p] = Cardinality(Holders(EndFiles(p, "r")))
                         /\ refs_w[p] = Cardinality(Holders(EndFiles(p, "w")))
    BY DEF HeapInv, EndsExact
  <2>3. \A p \in pipes' :
          /\ refs_r'[p] = Cardinality(Holders(EndFiles(p, "r")))'
          /\ refs_w'[p] = Cardinality(Holders(EndFiles(p, "w")))'
    BY <1>2, <2>1, <2>2 DEF Ends
  <2> QED
    BY <2>3 DEF EndsExact
<1>11. NoDangling'
  BY <1>1, <1>2, <1>4, <1>7, <1>8, SMTT(30) DEF HeapInv, NoDangling
<1>12. NoOrphanPipe'
  BY <1>1, <1>2, <1>7, <1>8 DEF HeapInv, NoOrphanPipe
<1>13. DeadHoldNothing' /\ alive' \in SUBSET Tasks
  <2>1. \A u \in Tasks \ {t} : fds'[u] = fds[u]
    BY <1>1, <1>3
  <2> QED
    BY <1>2, <2>1 DEF DeadHoldNothing
<1>14. HeapInv'
  BY Zenon, <1>2, <1>4, <1>8, <1>9, <1>10, <1>11, <1>12 DEF HeapInv
<1> QED
  BY <1>13, <1>14 DEF IInv, HeapInv, TypeOK, Table

\* vfs_pipe preserves the invariant: two new descriptions, one new pipe.
LEMMA PipeKeeps ==
  ASSUME IInv, NEW t \in Tasks, Pipe(t)
  PROVE  IInv'
<1> USE IInvHeapInv
<1>1. PICK a \in Fd, b \in Fd, r \in Files \ files, w \in Files \ files,
           p \in Pipes \ pipes :
        /\ r # w
        /\ IsLowest(a, FreeFrom(t, FirstFd))
        /\ IsLowest(b, FreeFrom(t, FirstFd) \ {a})
        /\ fds' = [fds EXCEPT ![t] = [@ EXCEPT ![a] = r, ![b] = w]]
        /\ files' = files \cup {r, w}
        /\ refs' = [refs EXCEPT ![r] = 1, ![w] = 1]
        /\ pipeOf' = [pipeOf EXCEPT ![r] = p, ![w] = p]
        /\ end' = [end EXCEPT ![r] = "r", ![w] = "w"]
        /\ pipes' = pipes \cup {p}
        /\ refs_r' = [refs_r EXCEPT ![p] = 1]
        /\ refs_w' = [refs_w EXCEPT ![p] = 1]
  BY Zenon DEF Pipe
<1>2. a # b /\ fds[t][a] = NULL /\ fds[t][b] = NULL
  BY <1>1 DEF IsLowest, FreeFrom
<1>3. /\ fds \in [Tasks -> Table] /\ files \in SUBSET Files
      /\ refs \in [Files -> Nat] /\ pipeOf \in [Files -> Pipes \cup {NULL}]
      /\ end \in [Files -> Ends] /\ pipes \in SUBSET Pipes
      /\ refs_r \in [Pipes -> Nat] /\ refs_w \in [Pipes -> Nat]
  BY DEF HeapInv
<1> DEFINE T1 == [fds EXCEPT ![t][a] = r]
<1>4. /\ T1 \in [Tasks -> Table] /\ T1[t][a] = r /\ T1[t][b] = NULL
      /\ \A e \in Fd \ {a} : T1[t][e] = fds[t][e]
      /\ \A u \in Tasks \ {t} : T1[u] = fds[u]
  BY <1>2, <1>3 DEF Table
<1>5. /\ fds' \in [Tasks -> Table] /\ fds'[t][b] = w
      /\ \A e \in Fd \ {b} : fds'[t][e] = T1[t][e]
      /\ \A u \in Tasks \ {t} : fds'[u] = T1[u]
  BY Zenon, <1>1, <1>2, <1>3 DEF Table
<1>6. \A u \in Tasks, e \in Fd :
        fds'[u][e] = fds[u][e] \/ fds'[u][e] = r \/ fds'[u][e] = w
  BY <1>4, <1>5, SMTT(30)
<1>7. \A u \in Tasks \ {t} : fds'[u] = fds[u]
  BY <1>4, <1>5
<1> HIDE DEF T1
<1>8. \A g \in Files :
        /\ CountOf(T1, g) = CountOf(fds, g) + (IF r = g THEN 1 ELSE 0)
        /\ CountOf(fds', g) = CountOf(T1, g) + (IF w = g THEN 1 ELSE 0)
        /\ CountOf(fds, g) \in Nat /\ CountOf(T1, g) \in Nat
  <2>1. \A g \in Files : CountOf(T1, g) = CountOf(fds, g) + (IF r = g THEN 1 ELSE 0)
    BY <1>2, <1>3, <1>4, FillCountOf, SMTT(30)
  <2>2. \A g \in Files : CountOf(fds', g) = CountOf(T1, g) + (IF w = g THEN 1 ELSE 0)
    BY <1>4, <1>5, FillCountOf, SMTT(30)
  <2> QED
    BY <2>1, <2>2, CountOfZero
<1>9. \A S \in SUBSET files : Count(fds', S) = Count(fds, S)
  <2> SUFFICES ASSUME NEW S \in SUBSET files PROVE Count(fds', S) = Count(fds, S)
    OBVIOUS
  <2>1. S \in SUBSET Files /\ r \notin S /\ w \notin S
    BY <1>3
  <2>2. Count(T1, S) = Count(fds, S) + 0 /\ Count(fds, S) \in Nat
    BY <1>2, <1>3, <1>4, <2>1, FillCounts, SMTT(30)
  <2>3. Count(fds', S) = Count(T1, S) + 0
    BY <1>4, <1>5, <2>1, FillCounts, SMTT(30)
  <2> QED
    BY <2>2, <2>3
<1>10. /\ CountOf(fds', r) = 1 /\ CountOf(fds', w) = 1
       /\ \A g \in files : CountOf(fds', g) = CountOf(fds, g)
  <2>1. CountOf(fds, r) = 0 /\ CountOf(fds, w) = 0
    BY FreshUnheld
  <2>2. r # w /\ r \in Files /\ w \in Files
    BY <1>1
  <2>3. \A g \in files : g \in Files /\ r # g /\ w # g
    BY <1>3
  <2>4. CountOf(fds', r) = 1
    BY <1>8, <2>1, <2>2
  <2>5. CountOf(fds', w) = 1
    BY <1>8, <2>1, <2>2
  <2>6. \A g \in files : CountOf(fds', g) = CountOf(fds, g)
    BY <1>8, <2>3
  <2> QED
    BY <2>4, <2>5, <2>6
<1>11. \A q \in pipes, e \in Ends : /\ EndFiles(q, e)' = EndFiles(q, e)
                                    /\ EndFiles(q, e) \in SUBSET files
  BY <1>1, <1>3, SMTT(30) DEF EndFiles
<1>12. EndFiles(p, "r")' = {r} /\ EndFiles(p, "w")' = {w}
  <2>1. \A g \in files : pipeOf[g] # p
    BY FdAssumption DEF HeapInv, NoDangling
  <2> QED
    BY <1>1, <1>3, <2>1, SMTT(30) DEF EndFiles
<1>13. /\ \A g : HoldersOf(g)' = HoldersOfIn(fds', g)
       /\ \A g : Cardinality(HoldersOf(g))' = CountOf(fds', g)
       /\ \A q, e : Cardinality(Holders(EndFiles(q, e)))' = Count(fds', EndFiles(q, e)')
  BY DEF Holders, HoldersIn, Count, HoldersOf, HoldersOfIn, CountOf
<1>14. \A g \in files : /\ g # r /\ g # w /\ g \in Files
                        /\ refs'[g] = refs[g] /\ pipeOf'[g] = pipeOf[g]
                        /\ HoldersOf(g) = {} <=> HoldersOf(g)' = {}
  BY <1>1, <1>3, <1>10, <1>13, HoldersHoldersIn, CountOfZero, ZenonT(30)
<1>15. /\ files' \in SUBSET Files /\ refs' \in [Files -> Nat]
       /\ pipeOf' \in [Files -> Pipes \cup {NULL}] /\ end' \in [Files -> Ends]
       /\ pipes' \in SUBSET Pipes
       /\ refs_r' \in [Pipes -> Nat] /\ refs_w' \in [Pipes -> Nat]
       /\ refs'[r] = 1 /\ refs'[w] = 1 /\ pipeOf'[r] = p /\ pipeOf'[w] = p
       /\ refs_r'[p] = 1 /\ refs_w'[p] = 1
       /\ \A q \in pipes : refs_r'[q] = refs_r[q] /\ refs_w'[q] = refs_w[q]
  BY <1>1, <1>3 DEF Ends
<1>16. RefsExact'
  <2>1. \A g \in files :
          \/ refs'[g] = Cardinality(HoldersOf(g))'
          \/ HoldersOf(g)' = {} /\ refs'[g] = 1 /\ pipeOf'[g] = NULL
    <3> SUFFICES ASSUME NEW g \in files
                 PROVE  \/ refs'[g] = Cardinality(HoldersOf(g))'
                        \/ HoldersOf(g)' = {} /\ refs'[g] = 1 /\ pipeOf'[g] = NULL
      OBVIOUS
    <3>1. \/ refs[g] = Cardinality(HoldersOf(g))
          \/ HoldersOf(g) = {} /\ refs[g] = 1 /\ pipeOf[g] = NULL
      BY DEF HeapInv, RefsExact
    <3>2. CASE refs[g] = Cardinality(HoldersOf(g))
      <4>1. /\ refs[g] = CountOf(fds, g)
            /\ CountOf(fds', g) = CountOf(fds, g) /\ refs'[g] = refs[g]
        BY Zenon, <1>10, <1>14, <3>2, HoldersHoldersIn
      <4>2. Cardinality(HoldersOf(g))' = CountOf(fds', g)
        BY <1>13
      <4> QED
        BY Zenon, <4>1, <4>2
    <3>3. CASE HoldersOf(g) = {} /\ refs[g] = 1 /\ pipeOf[g] = NULL
      BY <1>14, <3>3
    <3> QED
      BY <3>1, <3>2, <3>3
  <2>2. /\ refs'[r] = Cardinality(HoldersOf(r))'
        /\ refs'[w] = Cardinality(HoldersOf(w))'
    BY Zenon, <1>10, <1>13, <1>15
  <2> QED
    BY Zenon, <1>1, <2>1, <2>2 DEF RefsExact
<1>17. EndsExact'
  <2>1. \A q \in pipes :
          /\ refs_r'[q] = Cardinality(Holders(EndFiles(q, "r")))'
          /\ refs_w'[q] = Cardinality(Holders(EndFiles(q, "w")))'
    <3> SUFFICES ASSUME NEW q \in pipes
                 PROVE  /\ refs_r'[q] = Count(fds', EndFiles(q, "r")')
                        /\ refs_w'[q] = Count(fds', EndFiles(q, "w")')
      BY <1>13
    <3>1. /\ refs_r[q] = Count(fds, EndFiles(q, "r"))
          /\ refs_w[q] = Count(fds, EndFiles(q, "w"))
      BY HoldersHoldersIn DEF HeapInv, EndsExact
    <3> QED
      BY Zenon, <1>9, <1>11, <1>15, <3>1 DEF Ends
  <2>2. /\ refs_r'[p] = Cardinality(Holders(EndFiles(p, "r")))'
        /\ refs_w'[p] = Cardinality(Holders(EndFiles(p, "w")))'
    <3>1. CountOf(fds', r) = Count(fds', {r}) /\ CountOf(fds', w) = Count(fds', {w})
      BY DEF CountOf
    <3>2. /\ Count(fds', EndFiles(p, "r")') = 1
          /\ Count(fds', EndFiles(p, "w")') = 1
      BY <1>10, <1>12, <3>1
    <3> QED
      BY Zenon, <1>13, <1>15, <3>2
  <2>3. pipes' = pipes \cup {p}
    BY <1>1
  <2>4. \A q \in pipes' :
          /\ refs_r'[q] = Cardinality(Holders(EndFiles(q, "r")))'
          /\ refs_w'[q] = Cardinality(Holders(EndFiles(q, "w")))'
    BY <2>1, <2>2, <2>3
  <2> QED
    BY Zenon, <2>4 DEF EndsExact
<1>18. NoDangling'
  <2>1. files' = files \cup {r, w} /\ pipes' = pipes \cup {p}
    BY <1>1
  <2>2. /\ \A u \in Tasks, e \in Fd : fds[u][e] # NULL => fds[u][e] \in files
        /\ \A f \in files : pipeOf[f] # NULL => pipeOf[f] \in pipes
    BY Zenon DEF HeapInv, NoDangling
  <2>3. \A u \in Tasks, e \in Fd : fds'[u][e] # NULL => fds'[u][e] \in files'
    BY <1>6, <2>1, <2>2
  <2>4. \A f \in files' : pipeOf'[f] # NULL => pipeOf'[f] \in pipes'
    BY Zenon, <1>14, <1>15, <2>1, <2>2
  <2> QED
    BY <2>3, <2>4 DEF NoDangling
<1>19. HoldersOf(r)' # {} /\ HoldersOf(w)' # {}
  BY <1>10, <1>13, CountOfZero
<1>20. NoOrphanPipe'
  BY <1>1, <1>14, <1>15, <1>19, ZenonT(30) DEF HeapInv, NoOrphanPipe
<1>21. DeadHoldNothing' /\ alive' \in SUBSET Tasks
  BY <1>7 DEF DeadHoldNothing, Pipe
<1>22. HeapInv'
  BY Zenon, <1>5, <1>15, <1>16, <1>17, <1>18, <1>20 DEF HeapInv
<1> QED
  BY <1>21, <1>22 DEF IInv, HeapInv, TypeOK, Table

\* vfs_devices_init: one description per standard descriptor, none shared.
LEMMA InitIInv == Init => IInv
<1> SUFFICES ASSUME Init PROVE IInv
  OBVIOUS
<1> USE IInvHeapInv
<1>1. PICK std \in [Std -> Files] :
        /\ \A i, j \in Std : std[i] = std[j] => i = j
        /\ fds = [t \in Tasks |-> [d \in Fd |->
                    IF t = Shell /\ d \in Std THEN std[d] ELSE NULL]]
        /\ files = {std[i] : i \in Std}
        /\ refs = [f \in Files |-> IF \E i \in Std : std[i] = f THEN 1 ELSE 0]
  BY DEF Init
<1>2. /\ alive = {Shell} /\ pipes = {}
      /\ pipeOf = [f \in Files |-> NULL] /\ end = [f \in Files |-> "r"]
      /\ refs_r = [p \in Pipes |-> 0] /\ refs_w = [p \in Pipes |-> 0]
  BY DEF Init
<1>3. Std \subseteq Fd
  BY FdAssumption DEF Std, Fd
<1>4. TypeOK
  BY <1>1, <1>2, FdAssumption DEF TypeOK, Ends
<1>5. RefsExact
  <2> SUFFICES ASSUME NEW f \in files PROVE refs[f] = Cardinality(HoldersOf(f))
    BY DEF RefsExact
  <2>1. PICK i \in Std : std[i] = f
    BY <1>1
  <2>2. f \in Files /\ f # NULL
    BY <2>1, FdAssumption
  <2>3. \A s \in Tasks \X Fd : fds[s[1]][s[2]] = f <=> s = <<Shell, i>>
    <3> SUFFICES ASSUME NEW u \in Tasks, NEW d \in Fd
                 PROVE  fds[u][d] = f <=> (u = Shell /\ d = i)
      OBVIOUS
    <3>1. fds[u][d] = IF u = Shell /\ d \in Std THEN std[d] ELSE NULL
      BY <1>1
    <3> QED
      BY <1>1, <2>1, <2>2, <3>1
  <2>4. HoldersOf(f) = {<<Shell, i>>}
    BY <1>3, <2>3, FdAssumption DEF HoldersOf, Holders
  <2>5. Cardinality(HoldersOf(f)) = 1
    BY Zenon, <2>4, FS_Singleton
  <2>6. refs[f] = 1
    BY <1>1, <2>1, <2>2
  <2> QED
    BY <2>5, <2>6
<1>6. EndsExact /\ NoOrphanPipe
  BY <1>1, <1>2 DEF EndsExact, NoOrphanPipe
<1>7. NoDangling
  BY <1>1, <1>2 DEF NoDangling
<1>8. DeadHoldNothing
  BY <1>1, <1>2 DEF DeadHoldNothing, EmptyTable
<1> QED
  BY <1>4, <1>5, <1>6, <1>7, <1>8 DEF IInv

\* Every call preserves the invariant.
LEMMA NextIInv == IInv /\ [Next]_vars => IInv'
<1> SUFFICES ASSUME IInv, [Next]_vars PROVE IInv'
  OBVIOUS
<1>1. CASE Next
  <2>1. CASE \E t \in Tasks : Open(t) \/ Pipe(t) \/ Spawn(t) \/ Exit(t)
    BY <2>1, OpenKeeps, PipeKeeps, SpawnKeeps, ExitKeeps
  <2>2. CASE \E t \in Tasks, d \in Fd : Close(t, d) \/ Dup(t, d)
    BY <2>2, CloseKeeps, DupKeeps
  <2>3. CASE \E t \in Tasks, old, new \in Fd : Dup2(t, old, new)
    BY <2>3, Dup2Keeps
  <2> QED
    BY <1>1, <2>1, <2>2, <2>3 DEF Next
<1>2. CASE UNCHANGED vars
  <2> USE <1>2 DEF vars
  <2>1. /\ \A f : HoldersOf(f)' = HoldersOf(f)
        /\ \A p, e : Holders(EndFiles(p, e))' = Holders(EndFiles(p, e))
    BY DEF HoldersOf, Holders, EndFiles
  <2>2. TypeOK' /\ NoDangling' /\ DeadHoldNothing'
    BY DEF IInv, TypeOK, NoDangling, DeadHoldNothing
  <2>3. RefsExact' /\ NoOrphanPipe'
    BY Zenon, <2>1 DEF IInv, RefsExact, NoOrphanPipe
  <2>4. EndsExact'
    BY Zenon, <2>1 DEF IInv, EndsExact
  <2> QED
    BY <2>2, <2>3, <2>4 DEF IInv
<1> QED
  BY <1>1, <1>2

\* The inductive invariant holds in every reachable state.
THEOREM FdInvariant == Spec => []IInv
BY InitIInv, NextIInv, PTL DEF Spec

\* Every struct vfs_file and struct vfs_pipe counts exactly the descriptors
\* that refer to it, whatever tasks open, close, duplicate, inherit and exit:
\* a pipe reader sees EOF, and a writer -EPIPE, exactly when the last
\* descriptor of the other end is gone.
THEOREM CountsExact == Spec => []CountsRight
BY FdInvariant, PTL DEF IInv, CountsRight

\* No descriptor and no open description refers to freed memory, and no pipe
\* outlives its last descriptor.
THEOREM HeapExact == Spec => []HeapRight
BY FdInvariant, PTL DEF IInv, HeapRight

=============================================================================
