------------------------------- MODULE VmTables -------------------------------
(***************************************************************************)
(* Proofs about module Vm, for any number of tasks, frames and pages.      *)
(*                                                                         *)
(* A frame is labelled with its one use: free, root, table or leaf; a      *)
(* table and a leaf also with the frame and the entry that refer to it.    *)
(* Every entry of a root or a table agrees with the label of the frame it  *)
(* names, and from that follows all of Separate: a frame with two uses     *)
(* would have two labels.  The label of a frame that is lost stays.        *)
(*                                                                         *)
(* Here: what mapping, unmapping and cloning do to the labels, the         *)
(* inductive invariant VmInv, and the steps of a load that leave memory    *)
(* as it is.                                                               *)
(***************************************************************************)
EXTENDS Vm, TLAPS

Words == Frames \cup {None, Junk}
Memory == [Frames -> [Idx -> Words]]
Kinds == {"free", "root", "table", "leaf"}

\* The entries of roots name tables, those of tables name leaves.
RootsAgree(d, k, u, a) ==
  \A r \in Frames, i \in Idx : k[r] = "root" /\ d[r][i] # None =>
    d[r][i] \in Frames /\ k[d[r][i]] = "table" /\ u[d[r][i]] = r /\ a[d[r][i]] = i
TablesAgree(d, k, u, a) ==
  \A h \in Frames, j \in Idx : k[h] = "table" /\ d[h][j] # None =>
    d[h][j] \in Frames /\ k[d[h][j]] = "leaf" /\ u[d[h][j]] = h /\ a[d[h][j]] = j

\* The labels k (kind), u (the frame above) and a (the entry there) describe
\* memory d with the free frames S.
Labels(d, S, k, u, a) ==
  /\ k \in [Frames -> Kinds] /\ u \in [Frames -> Frames] /\ a \in [Frames -> Idx]
  /\ \A f \in S : k[f] = "free"
  /\ RootsAgree(d, k, u, a) /\ TablesAgree(d, k, u, a)

\* Entry j of table i of space r.
Entry(d, r, i, j) == IF d[r][i] = None THEN None ELSE d[d[r][i]][j]

\* A step from memory d to e keeps an entry, and what its frame holds.
Kept(d, e, r, i, j) ==
  /\ Entry(e, r, i, j) = Entry(d, r, i, j)
  /\ Entry(d, r, i, j) # None => e[Entry(d, r, i, j)] = d[Entry(d, r, i, j)]

-----------------------------------------------------------------------------
(* Pages and their entries.                                                 *)

\* A number is its quotient and its remainder.
LEMMA DivMod ==
  ASSUME NEW n \in Nat \ {0}, NEW p \in Nat
  PROVE  p \div n \in Nat /\ p % n \in 0 .. n - 1 /\ p = n * (p \div n) + (p % n)
  BY SMT

\* The quotient of a page is an index of the top table.
LEMMA DivBound ==
  ASSUME NEW n \in Nat \ {0}, NEW p \in Nat, p < n * n
  PROVE  p \div n < n
<1>1. p \div n \in Nat /\ p % n \in 0 .. n - 1 /\ p = n * (p \div n) + (p % n)
  BY Zenon, DivMod
<1>2. SUFFICES ASSUME p \div n >= n PROVE FALSE
  BY <1>1
<1>3. \A q \in Nat : q >= n => n * q >= n * n
  BY SMT
<1> QED BY <1>1, <1>2, <1>3

\* Every page has an entry of its own.
LEMMA PageEntry ==
  /\ \A p \in Pages : p \in Nat /\ p \div Span \in Idx /\ p % Span \in Idx
  /\ \A p, q \in Pages : p \div Span = q \div Span /\ p % Span = q % Span => p = q
<1>1. Span \in Nat \ {0} /\ LastPage \in Nat /\ LastPage <= Span * Span
  BY VmAssumption
<1>2. ASSUME NEW p \in Pages
      PROVE  /\ p \in Nat /\ p < Span * Span /\ p \div Span \in Nat
             /\ p % Span \in 0 .. Span - 1 /\ p = Span * (p \div Span) + (p % Span)
  <2>1. p \in Nat /\ p < LastPage
    BY <1>1 DEF Pages
  <2>2. p < Span * Span
    BY <1>1, <2>1
  <2>3. p \div Span \in Nat /\ p % Span \in 0 .. Span - 1 /\ p = Span * (p \div Span) + (p % Span)
    BY Zenon, <1>1, <2>1, DivMod
  <2> QED BY <2>1, <2>2, <2>3
<1>3. ASSUME NEW p \in Pages PROVE p \div Span < Span
  BY <1>1, <1>2, DivBound
<1>4. \A p \in Pages : p \in Nat /\ p \div Span \in Idx /\ p % Span \in Idx
  BY <1>1, <1>2, <1>3 DEF Idx
<1>5. \A p, q \in Pages : p \div Span = q \div Span /\ p % Span = q % Span => p = q
  BY <1>2
<1> QED BY <1>4, <1>5

\* Walking the tables for page p reads its entry.
LEMMA TranslateIsEntry ==
  \A r, p : Translate(r, p) = Entry(data, r, p \div Span, p % Span)
  BY DEF Translate, TableOf, Entry

\* A frame is returned while there are any.
LEMMA PickIn ==
  ASSUME NEW S, S # {}
  PROVE  Pick(S) \in S
  BY DEF Pick

-----------------------------------------------------------------------------
(* What one change of memory does to the labels.                            *)

\* The labels after frame f has become a leaf, or a table, at entry j of h.
Relabelled(k, u, a, l, v, b, f, kind, h, j) ==
  /\ l \in [Frames -> Kinds] /\ v \in [Frames -> Frames] /\ b \in [Frames -> Idx]
  /\ l[f] = kind /\ v[f] = h /\ b[f] = j
  /\ \A g \in Frames : g # f => l[g] = k[g] /\ v[g] = u[g] /\ b[g] = a[g]

\* What the changes of memory are: word j of h becomes w (and frame f
\* anything); h is an empty table, named by entry i of r.
WordSet(d, e, h, j, w, f) ==
  /\ e \in Memory /\ e[h][j] = w /\ \A n \in Idx : n # j => e[h][n] = d[h][n]
  /\ \A g \in Frames : g # f /\ g # h => e[g] = d[g]
TableAdded(d, e, r, i, h) ==
  /\ e \in Memory /\ e[r][i] = h /\ \A n \in Idx : n # i => e[r][n] = d[r][n]
  /\ \A n \in Idx : e[h][n] = None
  /\ \A g \in Frames : g # h /\ g # r => e[g] = d[g]

\* Every entry of every space is kept; every one but entry j of table i of r.
AllKept(d, e, k) ==
  \A s \in Frames, m, n \in Idx : k[s] = "root" => Kept(d, e, s, m, n)
OthersKept(d, e, k, r, i, j) ==
  \A s \in Frames, m, n \in Idx :
    k[s] = "root" /\ (s # r \/ m # i \/ n # j) => Kept(d, e, s, m, n)

\* Map through a table h that is there: frame f becomes a leaf.
LeafPut(d, e, S, k, u, a, r, i, h, j, f, l, v, b) ==
  /\ d \in Memory /\ S \in SUBSET Frames /\ Labels(d, S, k, u, a)
  /\ r \in Frames /\ k[r] = "root" /\ i \in Idx /\ h = d[r][i] /\ h # None
  /\ j \in Idx /\ f \in S /\ Relabelled(k, u, a, l, v, b, f, "leaf", h, j)
  /\ WordSet(d, e, h, j, f, f)

\* The page is behind its entry, and every other entry is kept.
LEMMA PutLeaf ==
  ASSUME NEW d, NEW e, NEW S, NEW k, NEW u, NEW a, NEW r, NEW i, NEW h, NEW j, NEW f,
         NEW l, NEW v, NEW b, LeafPut(d, e, S, k, u, a, r, i, h, j, f, l, v, b)
  PROVE  /\ Labels(e, S \ {f}, l, v, b) /\ Entry(e, r, i, j) = f
         /\ OthersKept(d, e, k, r, i, j)
<1> USE DEF WordSet, LeafPut
<1>1. /\ k \in [Frames -> Kinds] /\ u \in [Frames -> Frames] /\ a \in [Frames -> Idx]
      /\ h \in Frames /\ k[h] = "table" /\ u[h] = r /\ a[h] = i /\ f \in Frames /\ k[f] = "free"
      /\ f # h /\ f # r /\ h # r
  BY DEF Labels, RootsAgree
<1>2. /\ l \in [Frames -> Kinds] /\ v \in [Frames -> Frames] /\ b \in [Frames -> Idx]
      /\ l[f] = "leaf" /\ v[f] = h /\ b[f] = j
      /\ \A g \in Frames : g # f => l[g] = k[g] /\ v[g] = u[g] /\ b[g] = a[g]
  BY DEF Relabelled
<1>5. \A g \in S \ {f} : l[g] = "free"
  BY <1>2 DEF Labels
<1>6. RootsAgree(e, l, v, b)
  <2> SUFFICES ASSUME NEW s \in Frames, NEW m \in Idx, l[s] = "root", e[s][m] # None
               PROVE  e[s][m] \in Frames /\ l[e[s][m]] = "table" /\ v[e[s][m]] = s /\ b[e[s][m]] = m
    BY DEF RootsAgree
  <2>1. s # f /\ s # h /\ k[s] = "root" /\ e[s] = d[s]
    BY <1>1, <1>2
  <2>2. d[s][m] \in Frames /\ k[d[s][m]] = "table" /\ u[d[s][m]] = s /\ a[d[s][m]] = m
    BY <2>1 DEF Labels, RootsAgree
  <2> QED BY <1>1, <1>2, <2>1, <2>2
<1>7. TablesAgree(e, l, v, b)
  <2> SUFFICES ASSUME NEW t \in Frames, NEW m \in Idx, l[t] = "table", e[t][m] # None
               PROVE  e[t][m] \in Frames /\ l[e[t][m]] = "leaf" /\ v[e[t][m]] = t /\ b[e[t][m]] = m
    BY DEF TablesAgree
  <2>1. t # f /\ k[t] = "table"
    BY <1>1, <1>2
  <2>2. CASE t = h /\ m = j
    BY <1>1, <1>2, <2>2
  <2>3. CASE ~(t = h /\ m = j)
    <3>1. e[t][m] = d[t][m]
      BY <1>2, <2>1, <2>3
    <3>2. d[t][m] \in Frames /\ k[d[t][m]] = "leaf" /\ u[d[t][m]] = t /\ a[d[t][m]] = m
      BY <2>1, <3>1 DEF Labels, TablesAgree
    <3> QED BY <1>1, <1>2, <3>1, <3>2
  <2> QED BY <2>2, <2>3
<1>8. Labels(e, S \ {f}, l, v, b)
  BY <1>2, <1>5, <1>6, <1>7 DEF Labels
<1>9. Entry(e, r, i, j) = f
  BY <1>1 DEF Entry
<1>10. ASSUME NEW s \in Frames, NEW m \in Idx, NEW n \in Idx, k[s] = "root",
              s # r \/ m # i \/ n # j
       PROVE  Kept(d, e, s, m, n)
  <2>1. e[s] = d[s]
    BY <1>1, <1>10
  <2>2. CASE d[s][m] = None
    BY <2>1, <2>2 DEF Kept, Entry
  <2>3. CASE d[s][m] # None
    <3>1. d[s][m] \in Frames /\ k[d[s][m]] = "table" /\ u[d[s][m]] = s /\ a[d[s][m]] = m
      BY <1>10, <2>3 DEF Labels, RootsAgree
    <3>2. e[d[s][m]][n] = d[d[s][m]][n]
      <4>1. s # r \/ m # i \/ n # j
        BY <1>10
      <4>2. CASE d[s][m] = h
        BY <1>1, <3>1, <4>1, <4>2
      <4>3. CASE d[s][m] # h
        BY <1>1, <3>1, <4>3
      <4> QED BY <4>2, <4>3
    <3>3. Entry(d, s, m, n) = d[d[s][m]][n] /\ Entry(e, s, m, n) = Entry(d, s, m, n)
      BY <2>1, <2>3, <3>2 DEF Entry
    <3>4. ASSUME d[d[s][m]][n] # None PROVE e[d[d[s][m]][n]] = d[d[d[s][m]][n]]
      <4>1. d[d[s][m]][n] \in Frames /\ k[d[d[s][m]][n]] = "leaf"
        BY <3>1, <3>4 DEF Labels, TablesAgree
      <4> QED BY <1>1, <4>1
    <3> QED BY <3>3, <3>4 DEF Kept
  <2> QED BY <2>2, <2>3
<1> QED BY <1>8, <1>9, <1>10 DEF OthersKept

\* A new table: nothing is mapped through it yet.
LEMMA AddTable ==
  ASSUME NEW d \in Memory, NEW e, NEW S \in SUBSET Frames, NEW k, NEW u, NEW a,
         Labels(d, S, k, u, a), NEW r \in Frames, k[r] = "root",
         NEW i \in Idx, d[r][i] = None, NEW h \in S,
         NEW l, NEW v, NEW b, Relabelled(k, u, a, l, v, b, h, "table", r, i),
         TableAdded(d, e, r, i, h)
  PROVE  Labels(e, S \ {h}, l, v, b) /\ AllKept(d, e, k)
<1> USE DEF TableAdded
<1>1. /\ k \in [Frames -> Kinds] /\ u \in [Frames -> Frames] /\ a \in [Frames -> Idx]
      /\ h \in Frames /\ k[h] = "free" /\ h # r
  BY DEF Labels
<1>2. /\ l \in [Frames -> Kinds] /\ v \in [Frames -> Frames] /\ b \in [Frames -> Idx]
      /\ l[h] = "table" /\ v[h] = r /\ b[h] = i
      /\ \A g \in Frames : g # h => l[g] = k[g] /\ v[g] = u[g] /\ b[g] = a[g]
  BY DEF Relabelled
<1>3. \A g \in S \ {h} : l[g] = "free"
  BY <1>2 DEF Labels
<1>4. RootsAgree(e, l, v, b)
  <2> SUFFICES ASSUME NEW s \in Frames, NEW m \in Idx, l[s] = "root", e[s][m] # None
               PROVE  e[s][m] \in Frames /\ l[e[s][m]] = "table" /\ v[e[s][m]] = s /\ b[e[s][m]] = m
    BY DEF RootsAgree
  <2>1. s # h /\ k[s] = "root"
    BY <1>1, <1>2
  <2>2. CASE s = r /\ m = i
    BY <1>1, <1>2, <2>2
  <2>3. CASE ~(s = r /\ m = i)
    <3>1. e[s][m] = d[s][m]
      BY <2>1, <2>3
    <3>2. d[s][m] \in Frames /\ k[d[s][m]] = "table" /\ u[d[s][m]] = s /\ a[d[s][m]] = m
      BY <2>1, <3>1 DEF Labels, RootsAgree
    <3> QED BY <1>1, <1>2, <3>1, <3>2
  <2> QED BY <2>2, <2>3
<1>5. TablesAgree(e, l, v, b)
  <2> SUFFICES ASSUME NEW t \in Frames, NEW m \in Idx, l[t] = "table", e[t][m] # None
               PROVE  e[t][m] \in Frames /\ l[e[t][m]] = "leaf" /\ v[e[t][m]] = t /\ b[e[t][m]] = m
    BY DEF TablesAgree
  <2>1. t # h
    OBVIOUS
  <2>2. k[t] = "table" /\ t # r /\ e[t] = d[t]
    BY <1>1, <1>2, <2>1
  <2>3. d[t][m] \in Frames /\ k[d[t][m]] = "leaf" /\ u[d[t][m]] = t /\ a[d[t][m]] = m
    BY <2>2 DEF Labels, TablesAgree
  <2> QED BY <1>1, <1>2, <2>2, <2>3
<1>6. Labels(e, S \ {h}, l, v, b)
  BY <1>2, <1>3, <1>4, <1>5 DEF Labels
<1>7. ASSUME NEW s \in Frames, NEW m \in Idx, NEW n \in Idx, k[s] = "root"
      PROVE  Kept(d, e, s, m, n)
  <2>1. CASE s = r /\ m = i
    BY <1>1, <2>1 DEF Kept, Entry
  <2>2. CASE ~(s = r /\ m = i)
    <3>1. e[s][m] = d[s][m]
      BY <1>1, <1>7, <2>2
    <3>2. CASE d[s][m] = None
      BY <3>1, <3>2 DEF Kept, Entry
    <3>3. CASE d[s][m] # None
      <4>1. d[s][m] \in Frames /\ k[d[s][m]] = "table"
        BY <1>7, <3>3 DEF Labels, RootsAgree
      <4>2. e[d[s][m]] = d[d[s][m]]
        BY <1>1, <4>1
      <4>3. Entry(d, s, m, n) = d[d[s][m]][n] /\ Entry(e, s, m, n) = Entry(d, s, m, n)
        BY <3>1, <3>3, <4>2 DEF Entry
      <4>4. ASSUME d[d[s][m]][n] # None PROVE e[d[d[s][m]][n]] = d[d[d[s][m]][n]]
        <5>1. d[d[s][m]][n] \in Frames /\ k[d[d[s][m]][n]] = "leaf"
          BY <4>1, <4>4 DEF Labels, TablesAgree
        <5> QED BY <1>1, <5>1
      <4> QED BY <4>3, <4>4 DEF Kept
    <3> QED BY <3>2, <3>3
  <2> QED BY <2>1, <2>2
<1> QED BY <1>6, <1>7 DEF AllKept

\* A new space: a free frame becomes an empty root.
RootAdded(d, e, S, k, u, a, h, l) ==
  /\ d \in Memory /\ e \in Memory /\ S \in SUBSET Frames /\ Labels(d, S, k, u, a) /\ h \in S
  /\ l \in [Frames -> Kinds] /\ l[h] = "root"
  /\ \A g \in Frames : g # h => l[g] = k[g] /\ e[g] = d[g]
  /\ \A n \in Idx : e[h][n] = None

\* The new space is empty and every other one is kept.
LEMMA AddRoot ==
  ASSUME NEW d, NEW e, NEW S, NEW k, NEW u, NEW a, NEW h, NEW l,
         RootAdded(d, e, S, k, u, a, h, l)
  PROVE  /\ Labels(e, S \ {h}, l, u, a) /\ \A m, n \in Idx : Entry(e, h, m, n) = None
         /\ AllKept(d, e, k)
<1> USE DEF RootAdded
<1>1. /\ k \in [Frames -> Kinds] /\ u \in [Frames -> Frames] /\ a \in [Frames -> Idx]
      /\ h \in Frames /\ k[h] = "free"
  BY DEF Labels
<1>2. \A g \in S \ {h} : l[g] = "free"
  BY DEF Labels
<1>3. RootsAgree(e, l, u, a)
  <2> SUFFICES ASSUME NEW s \in Frames, NEW m \in Idx, l[s] = "root", e[s][m] # None
               PROVE  e[s][m] \in Frames /\ l[e[s][m]] = "table" /\ u[e[s][m]] = s /\ a[e[s][m]] = m
    BY DEF RootsAgree
  <2>1. s # h /\ k[s] = "root" /\ e[s] = d[s]
    BY <1>1
  <2>2. d[s][m] \in Frames /\ k[d[s][m]] = "table" /\ u[d[s][m]] = s /\ a[d[s][m]] = m
    BY <2>1 DEF Labels, RootsAgree
  <2> QED BY <1>1, <2>1, <2>2
<1>4. TablesAgree(e, l, u, a)
  <2> SUFFICES ASSUME NEW t \in Frames, NEW m \in Idx, l[t] = "table", e[t][m] # None
               PROVE  e[t][m] \in Frames /\ l[e[t][m]] = "leaf" /\ u[e[t][m]] = t /\ a[e[t][m]] = m
    BY DEF TablesAgree
  <2>1. t # h /\ k[t] = "table" /\ e[t] = d[t]
    BY <1>1
  <2>2. d[t][m] \in Frames /\ k[d[t][m]] = "leaf" /\ u[d[t][m]] = t /\ a[d[t][m]] = m
    BY <2>1 DEF Labels, TablesAgree
  <2> QED BY <1>1, <2>1, <2>2
<1>5. Labels(e, S \ {h}, l, u, a)
  BY <1>1, <1>2, <1>3, <1>4 DEF Labels
<1>6. \A m, n \in Idx : Entry(e, h, m, n) = None
  BY DEF Entry
<1>7. ASSUME NEW s \in Frames, NEW m \in Idx, NEW n \in Idx, k[s] = "root"
      PROVE  Kept(d, e, s, m, n)
  <2>1. \A g \in Frames : k[g] # "free" => e[g] = d[g]
    BY <1>1
  <2> QED BY <1>7, <2>1 DEF Kept, Entry, Labels, RootsAgree, TablesAgree
<1> QED BY <1>5, <1>6, <1>7 DEF AllKept

\* A frame that is free, or a leaf, is overwritten.
LEMMA Overwrite ==
  ASSUME NEW d \in Memory, NEW e \in Memory, NEW S \in SUBSET Frames, NEW k, NEW u, NEW a,
         Labels(d, S, k, u, a), NEW h \in Frames, k[h] \in {"free", "leaf"},
         \A g \in Frames : g # h => e[g] = d[g]
  PROVE  /\ Labels(e, S, k, u, a)
         /\ \A s \in Frames, m, n \in Idx : k[s] = "root" =>
              /\ Entry(e, s, m, n) = Entry(d, s, m, n)
              /\ Entry(d, s, m, n) # h => Kept(d, e, s, m, n)
<1>1. \A g \in Frames : k[g] \in {"root", "table"} => e[g] = d[g]
  OBVIOUS
<1>2. RootsAgree(e, k, u, a)
  BY <1>1 DEF Labels, RootsAgree
<1>3. TablesAgree(e, k, u, a)
  BY <1>1 DEF Labels, TablesAgree
<1>4. Labels(e, S, k, u, a)
  BY <1>2, <1>3 DEF Labels
<1>5. ASSUME NEW s \in Frames, NEW m \in Idx, NEW n \in Idx, k[s] = "root"
      PROVE  /\ Entry(e, s, m, n) = Entry(d, s, m, n)
             /\ Entry(d, s, m, n) # h => Kept(d, e, s, m, n)
  <2>1. Entry(e, s, m, n) = Entry(d, s, m, n)
    BY <1>1, <1>5 DEF Entry, Labels, RootsAgree
  <2>2. Entry(d, s, m, n) # None => Entry(d, s, m, n) \in Frames
    BY <1>5 DEF Entry, Labels, RootsAgree, TablesAgree
  <2> QED BY <2>1, <2>2 DEF Kept
<1> QED BY <1>4, <1>5

\* A frame is cleared.
Clears(d, e, h) == e = [d EXCEPT ![h] = Zero]

LEMMA Cleared ==
  ASSUME NEW d \in Memory, NEW h \in Frames, NEW e, Clears(d, e, h)
  PROVE  /\ e \in Memory /\ \A g \in Frames : g # h => e[g] = d[g]
         /\ \A n \in Idx : e[h][n] = None
BY DEF Clears, Memory, Zero, Words

\* A free frame is overwritten: no walk finds it, so every walk stays.
FreeChanged(d, e, S, k, u, a, h) ==
  /\ d \in Memory /\ e \in Memory /\ S \in SUBSET Frames /\ Labels(d, S, k, u, a) /\ h \in S
  /\ \A g \in Frames : g # h => e[g] = d[g]

LEMMA FreeOverwritten ==
  ASSUME NEW d, NEW e, NEW S, NEW k, NEW u, NEW a, NEW h, FreeChanged(d, e, S, k, u, a, h)
  PROVE  Labels(e, S, k, u, a) /\ k[h] = "free" /\ AllKept(d, e, k)
<1>0. /\ d \in Memory /\ e \in Memory /\ S \in SUBSET Frames /\ Labels(d, S, k, u, a)
      /\ h \in S /\ \A g \in Frames : g # h => e[g] = d[g]
  BY Zenon DEF FreeChanged
<1>1. h \in Frames /\ k[h] = "free"
  BY <1>0 DEF Labels
<1>2. k[h] \in {"free", "leaf"}
  BY <1>1
<1>3. /\ Labels(e, S, k, u, a)
      /\ \A s \in Frames, m, n \in Idx : k[s] = "root" /\ Entry(d, s, m, n) # h =>
           Kept(d, e, s, m, n)
  BY <1>0, <1>1, <1>2, Overwrite
<1>4. ASSUME NEW s \in Frames, NEW m \in Idx, NEW n \in Idx, k[s] = "root"
      PROVE  Entry(d, s, m, n) # h
  <2>1. CASE d[s][m] = None
    BY <1>1, <2>1, VmAssumption DEF Entry
  <2>2. CASE d[s][m] # None
    <3>1. d[s][m] \in Frames /\ k[d[s][m]] = "table"
      BY <1>0, <1>4, <2>2 DEF Labels, RootsAgree
    <3>2. d[d[s][m]][n] # None => k[d[d[s][m]][n]] = "leaf"
      BY <1>0, <3>1 DEF Labels, TablesAgree
    <3> QED BY <1>1, <2>2, <3>2, VmAssumption DEF Entry
  <2> QED BY <2>1, <2>2
<1> QED BY Zenon, <1>1, <1>3, <1>4 DEF AllKept

\* An entry is cleared and its frame is free again.
LeafDropped(d, e, S, k, u, a, r, i, h, j, f, l) ==
  /\ d \in Memory /\ e \in Memory /\ S \in SUBSET Frames /\ Labels(d, S, k, u, a)
  /\ r \in Frames /\ k[r] = "root" /\ i \in Idx /\ j \in Idx
  /\ h = d[r][i] /\ h # None /\ f = d[h][j] /\ f # None
  /\ l \in [Frames -> Kinds] /\ l[f] = "free" /\ \A g \in Frames : g # f => l[g] = k[g]
  /\ WordSet(d, e, h, j, None, h)

\* The entry is empty, its frame can be free, every other entry is kept.
LEMMA DropLeaf ==
  ASSUME NEW d, NEW e, NEW S, NEW k, NEW u, NEW a, NEW r, NEW i, NEW h, NEW j, NEW f, NEW l,
         LeafDropped(d, e, S, k, u, a, r, i, h, j, f, l)
  PROVE  /\ f \in Frames /\ Labels(e, S \cup {f}, l, u, a) /\ Entry(e, r, i, j) = None
         /\ OthersKept(d, e, k, r, i, j)
<1> USE DEF WordSet, LeafDropped
<1>1. /\ k \in [Frames -> Kinds] /\ u \in [Frames -> Frames] /\ a \in [Frames -> Idx]
      /\ h \in Frames /\ k[h] = "table" /\ u[h] = r /\ a[h] = i /\ h # r
  BY DEF Labels, RootsAgree
<1>2. f \in Frames /\ k[f] = "leaf" /\ u[f] = h /\ a[f] = j /\ f # h /\ f # r
  BY <1>1 DEF Labels, TablesAgree
<1>3. \A g \in S \cup {f} : l[g] = "free"
  BY <1>2 DEF Labels
<1>4. RootsAgree(e, l, u, a)
  <2> SUFFICES ASSUME NEW s \in Frames, NEW m \in Idx, l[s] = "root", e[s][m] # None
               PROVE  e[s][m] \in Frames /\ l[e[s][m]] = "table" /\ u[e[s][m]] = s /\ a[e[s][m]] = m
    BY DEF RootsAgree
  <2>1. s # f /\ s # h /\ k[s] = "root" /\ e[s] = d[s]
    BY <1>1, <1>2
  <2>2. d[s][m] \in Frames /\ k[d[s][m]] = "table" /\ u[d[s][m]] = s /\ a[d[s][m]] = m
    BY <2>1 DEF Labels, RootsAgree
  <2> QED BY <1>2, <2>1, <2>2
<1>5. TablesAgree(e, l, u, a)
  <2> SUFFICES ASSUME NEW t \in Frames, NEW m \in Idx, l[t] = "table", e[t][m] # None
               PROVE  e[t][m] \in Frames /\ l[e[t][m]] = "leaf" /\ u[e[t][m]] = t /\ a[e[t][m]] = m
    BY DEF TablesAgree
  <2>1. t # f /\ k[t] = "table" /\ ~(t = h /\ m = j)
    BY <1>2
  <2>2. e[t][m] = d[t][m]
    BY <2>1
  <2>3. d[t][m] \in Frames /\ k[d[t][m]] = "leaf" /\ u[d[t][m]] = t /\ a[d[t][m]] = m
    BY <2>1, <2>2 DEF Labels, TablesAgree
  <2>4. d[t][m] # f
    BY <1>2, <2>1, <2>3
  <2> QED BY <2>2, <2>3, <2>4
<1>6. Labels(e, S \cup {f}, l, u, a)
  BY <1>1, <1>3, <1>4, <1>5 DEF Labels
<1>7. Entry(e, r, i, j) = None
  BY <1>1 DEF Entry
<1>8. ASSUME NEW s \in Frames, NEW m \in Idx, NEW n \in Idx, k[s] = "root",
             s # r \/ m # i \/ n # j
      PROVE  Kept(d, e, s, m, n)
  <2>1. e[s] = d[s]
    BY <1>1, <1>8
  <2>2. CASE d[s][m] = None
    BY <2>1, <2>2 DEF Kept, Entry
  <2>3. CASE d[s][m] # None
    <3>1. d[s][m] \in Frames /\ k[d[s][m]] = "table" /\ u[d[s][m]] = s /\ a[d[s][m]] = m
      BY <1>8, <2>3 DEF Labels, RootsAgree
    <3>2. e[d[s][m]][n] = d[d[s][m]][n]
      <4>1. s # r \/ m # i \/ n # j
        BY <1>8
      <4>2. CASE d[s][m] = h
        BY <1>1, <3>1, <4>1, <4>2
      <4>3. CASE d[s][m] # h
        BY <3>1, <4>3
      <4> QED BY <4>2, <4>3
    <3>3. Entry(d, s, m, n) = d[d[s][m]][n] /\ Entry(e, s, m, n) = Entry(d, s, m, n)
      BY <2>1, <2>3, <3>2 DEF Entry
    <3>4. ASSUME d[d[s][m]][n] # None PROVE e[d[d[s][m]][n]] = d[d[d[s][m]][n]]
      <4>1. d[d[s][m]][n] \in Frames /\ k[d[d[s][m]][n]] = "leaf"
        BY <3>1, <3>4 DEF Labels, TablesAgree
      <4> QED BY <1>1, <4>1
    <3> QED BY <3>3, <3>4 DEF Kept
  <2> QED BY <2>2, <2>3
<1> QED BY Zenon, <1>2, <1>6, <1>7, <1>8 DEF OthersKept

\* vmm_map_page_in through a table that is there.
LEMMA MappedThere ==
  ASSUME NEW d \in Memory, NEW r \in Frames, NEW p, NEW S, NEW f \in Frames,
         NEW i \in Idx, NEW j \in Idx, i = p \div Span, j = p % Span,
         NEW h \in Frames, h = d[r][i], h # None, NEW e, e = Mapped(d, r, p, f, S)
  PROVE  WordSet(d, e, h, j, f, h)
<1>1. e = [d EXCEPT ![h][j] = f]
  BY DEF Mapped
<1>2. d[h] \in [Idx -> Words] /\ d \in [Frames -> [Idx -> Words]]
  BY DEF Memory
<1>3. e = [d EXCEPT ![h] = [d[h] EXCEPT ![j] = f]]
  BY <1>1
<1>4. [d[h] EXCEPT ![j] = f] \in [Idx -> Words]
  BY <1>2 DEF Words
<1> QED BY <1>2, <1>3, <1>4 DEF WordSet, Memory

\* vmm_map_page_in with a new table: first the table is there and empty, then
\* the page is mapped.
LEMMA MappedNew ==
  ASSUME NEW d \in Memory, NEW r \in Frames, NEW p, NEW S, NEW f \in Frames,
         NEW i \in Idx, NEW j \in Idx, i = p \div Span, j = p % Span, d[r][i] = None,
         NEW h \in Frames, h = Pick(S), h # r
  PROVE  \A e : e = Mapped(d, r, p, f, S) =>
           \E x : x \in Memory /\ TableAdded(d, x, r, i, h) /\ WordSet(x, e, h, j, f, h)
<1>0. SUFFICES ASSUME NEW e, e = Mapped(d, r, p, f, S)
               PROVE  \E x : x \in Memory /\ TableAdded(d, x, r, i, h) /\ WordSet(x, e, h, j, f, h)
  OBVIOUS
<1>1. PICK x : x = [g \in Frames |-> IF g = r THEN [d[r] EXCEPT ![i] = h]
                                     ELSE IF g = h THEN Zero ELSE d[g]]
  BY Zenon
<1>2. /\ Zero \in [Idx -> Words] /\ (\A n \in Idx : Zero[n] = None) /\ d[r] \in [Idx -> Words]
      /\ d \in [Frames -> [Idx -> Words]]
  BY DEF Zero, Words, Memory
<1>3. [d[r] EXCEPT ![i] = h] \in [Idx -> Words] /\ [Zero EXCEPT ![j] = f] \in [Idx -> Words]
  BY <1>2 DEF Words
<1>4. /\ x \in Memory /\ x[r] = [d[r] EXCEPT ![i] = h] /\ x[h] = Zero
      /\ \A g \in Frames : g # r /\ g # h => x[g] = d[g]
  BY <1>1, <1>2, <1>3 DEF Memory
<1>5. TableAdded(d, x, r, i, h)
  BY <1>2, <1>4 DEF TableAdded
<1>6. e = [g \in Frames |-> IF g = h THEN [Zero EXCEPT ![j] = f]
                         ELSE IF g = r THEN [d[r] EXCEPT ![i] = h] ELSE d[g]]
  BY Zenon, <1>0, <1>2 DEF Mapped
<1>7. /\ e \in Memory /\ e[h] = [Zero EXCEPT ![j] = f] /\ e[r] = [d[r] EXCEPT ![i] = h]
      /\ \A g \in Frames : g # h /\ g # r => e[g] = d[g]
  BY <1>2, <1>3, <1>6 DEF Memory
<1>8. WordSet(x, e, h, j, f, h)
  BY <1>2, <1>4, <1>7 DEF WordSet
<1> QED BY <1>4, <1>5, <1>8

\* What mapping a page comes to: frame f, filled, is behind entry j of table
\* i, and nothing else changed.
PageMapped(d, e, k, r, i, j, f, fill, R) ==
  /\ e \in Memory /\ e[f] = fill /\ Entry(e, r, i, j) = f
  /\ \E l, v, b : Labels(e, R, l, v, b) /\ \A s \in Frames : k[s] = "root" => l[s] = "root"
  /\ OthersKept(d, e, k, r, i, j)

\* vmm_map_page_in with a fresh frame f, whether the table is there or not.
LEMMA MapStep ==
  ASSUME NEW d \in Memory, NEW S \in SUBSET Frames, NEW k, NEW u, NEW a,
         Labels(d, S, k, u, a), NEW r \in Frames, k[r] = "root",
         NEW p, NEW i \in Idx, NEW j \in Idx, i = p \div Span, j = p % Span,
         NEW f \in S, d[r][i] = None => S \ {f} # {}, NEW fill \in [Idx -> Words],
         NEW R, R = IF d[r][i] = None THEN (S \ {f}) \ {Pick(S \ {f})} ELSE S \ {f}
  PROVE  \A e : e = Mapped([d EXCEPT ![f] = fill], r, p, f, S \ {f}) =>
           PageMapped(d, e, k, r, i, j, f, fill, R)
<1>0. SUFFICES ASSUME NEW e, e = Mapped([d EXCEPT ![f] = fill], r, p, f, S \ {f})
               PROVE  PageMapped(d, e, k, r, i, j, f, fill, R)
  BY Zenon
<1>1. /\ k \in [Frames -> Kinds] /\ u \in [Frames -> Frames] /\ a \in [Frames -> Idx]
      /\ f \in S /\ f \in Frames /\ k[f] = "free" /\ f # r
  BY PickIn DEF Labels
<1>2. PICK c : c = [d EXCEPT ![f] = fill]
  BY Zenon
<1>3. c \in Memory /\ c[f] = fill /\ c[r] = d[r] /\ \A g \in Frames : g # f => c[g] = d[g]
  BY <1>1, <1>2 DEF Memory
<1>4. e = Mapped(c, r, p, f, S \ {f})
  BY <1>0, <1>2
<1>5. CASE d[r][i] # None
  <2>1. PICK h : h = d[r][i] /\ h # None
    BY <1>5
  <2>2. h \in Frames /\ k[h] = "table" /\ h # f
    BY <1>1, <2>1 DEF Labels, RootsAgree
  <2>3. WordSet(c, e, h, j, f, h)
    BY <1>1, <1>3, <1>4, <2>1, <2>2, MappedThere
  <2>4. WordSet(d, e, h, j, f, f) /\ e[f] = fill /\ e \in Memory
    BY <1>1, <1>3, <2>2, <2>3 DEF WordSet
  <2>5. PICK l, v, b : Relabelled(k, u, a, l, v, b, f, "leaf", h, j)
    <3>1. Relabelled(k, u, a, [k EXCEPT ![f] = "leaf"], [u EXCEPT ![f] = h], [a EXCEPT ![f] = j],
                     f, "leaf", h, j)
      BY <1>1, <2>2 DEF Relabelled, Kinds
    <3> QED BY <3>1
  <2>6. Labels(e, S \ {f}, l, v, b) /\ Entry(e, r, i, j) = f /\ OthersKept(d, e, k, r, i, j)
    <3>1. LeafPut(d, e, S, k, u, a, r, i, h, j, f, l, v, b)
      BY <2>1, <2>4, <2>5 DEF LeafPut
    <3> QED BY <3>1, PutLeaf
  <2>7. \A s \in Frames : k[s] = "root" => l[s] = "root"
    BY <1>1, <2>5 DEF Relabelled
  <2> QED BY <1>5, <2>4, <2>6, <2>7 DEF PageMapped
<1>6. CASE d[r][i] = None
  <2>1. PICK h : h = Pick(S \ {f})
    OBVIOUS
  <2>2. h \in S \ {f} /\ h \in Frames /\ k[h] = "free" /\ h # r /\ h # f /\ h # None
    BY <1>6, <2>1, PickIn, VmAssumption DEF Labels
  <2>3. c[r][i] = None
    BY <1>3, <1>6
  <2>4. PICK y : y \in Memory /\ TableAdded(c, y, r, i, h) /\ WordSet(y, e, h, j, f, h)
    BY Zenon, <1>1, <1>3, <1>4, <2>1, <2>2, <2>3, MappedNew
  <2>5. Labels(c, S, k, u, a) /\ AllKept(d, c, k)
    <3>1. /\ Labels(c, S, k, u, a)
          /\ \A s \in Frames, m, n \in Idx : k[s] = "root" /\ Entry(d, s, m, n) # f =>
               Kept(d, c, s, m, n)
      BY <1>1, <1>3, Overwrite
    <3>2. ASSUME NEW s \in Frames, NEW m \in Idx, NEW n \in Idx, k[s] = "root"
          PROVE  Entry(d, s, m, n) # f
      BY <1>1, <3>2, VmAssumption DEF Entry, Labels, RootsAgree, TablesAgree
    <3> QED BY <3>1, <3>2 DEF AllKept
  <2>6. PICK l, v, b : Relabelled(k, u, a, l, v, b, h, "table", r, i)
    <3>1. Relabelled(k, u, a, [k EXCEPT ![h] = "table"], [u EXCEPT ![h] = r], [a EXCEPT ![h] = i],
                     h, "table", r, i)
      BY <1>1, <2>2 DEF Relabelled, Kinds
    <3> QED BY <3>1
  <2>7. Labels(y, S \ {h}, l, v, b) /\ AllKept(c, y, k)
    BY Zenon, <1>3, <2>2, <2>3, <2>4, <2>5, <2>6, AddTable
  <2>8. /\ f \in S \ {h} /\ S \ {h} \in SUBSET Frames /\ h = y[r][i] /\ l[r] = "root"
        /\ \A s \in Frames : k[s] = "root" => l[s] = "root"
    BY <1>1, <2>2, <2>4, <2>6 DEF Relabelled, TableAdded
  <2>9. PICK l2, v2, b2 : Relabelled(l, v, b, l2, v2, b2, f, "leaf", h, j)
    <3>1. Relabelled(l, v, b, [l EXCEPT ![f] = "leaf"], [v EXCEPT ![f] = h], [b EXCEPT ![f] = j],
                     f, "leaf", h, j)
      BY <1>1, <2>2, <2>6 DEF Relabelled, Kinds
    <3> QED BY <3>1
  <2>10. WordSet(y, e, h, j, f, f) /\ e[f] = fill /\ e \in Memory
    BY <1>1, <1>3, <2>2, <2>4 DEF WordSet, TableAdded
  <2>11. /\ Labels(e, (S \ {h}) \ {f}, l2, v2, b2) /\ Entry(e, r, i, j) = f
         /\ OthersKept(y, e, l, r, i, j)
    <3>1. LeafPut(y, e, S \ {h}, l, v, b, r, i, h, j, f, l2, v2, b2)
      BY Zenon, <2>2, <2>4, <2>7, <2>8, <2>9, <2>10 DEF LeafPut
    <3> QED BY Zenon, <3>1, PutLeaf
  <2>12. OthersKept(d, e, k, r, i, j)
    <3> SUFFICES ASSUME NEW s \in Frames, NEW m \in Idx, NEW n \in Idx, k[s] = "root",
                        s # r \/ m # i \/ n # j
                 PROVE  Kept(d, e, s, m, n)
      BY DEF OthersKept
    <3>1. Kept(d, c, s, m, n) /\ Kept(c, y, s, m, n) /\ Kept(y, e, s, m, n)
      BY Zenon, <2>5, <2>7, <2>8, <2>11 DEF AllKept, OthersKept
    <3> QED BY <3>1 DEF Kept
  <2>13. \A s \in Frames : k[s] = "root" => l2[s] = "root"
    BY <1>1, <2>8, <2>9, <2>6 DEF Relabelled
  <2>14. Labels(e, (S \ {f}) \ {Pick(S \ {f})}, l2, v2, b2)
    <3>1. (S \ {h}) \ {f} = (S \ {f}) \ {Pick(S \ {f})}
      BY <2>1
    <3> QED BY Zenon, <2>11, <3>1
  <2> QED BY <1>6, <2>10, <2>11, <2>12, <2>13, <2>14 DEF PageMapped
<1> QED BY <1>5, <1>6

-----------------------------------------------------------------------------
(* The inductive invariant.                                                 *)

Loading(t) == op[t].kind \in {"image", "stack"}

\* There are labels, and every space in use has a root.
Labelled ==
  \E k, u, a : Labels(data, freeFrames, k, u, a) /\ \A r \in Roots : k[r] = "root"

OwnSpaces == \A t, u \in Slots : t # u => SpacesOf(t) \cap SpacesOf(u) = {}

\* From here to the stack nothing is mapped, unless the program has chosen an
\* address: mmap has come to its current page, and a rollback starts where it
\* gave up.
FreeFrom(t) ==
  IF op[t].kind = "mmap" THEN op[t].page ELSE IF op[t].kind = "undo" THEN op[t].end ELSE cursor[t]

\* What holds of a task: its call is in range, and
TaskOK(t) ==
  /\ op[t].kind \in {"mmap", "munmap", "undo"} =>
       /\ pml4[t] # None /\ op[t].start <= op[t].page /\ op[t].page <= op[t].end
       /\ op[t].kind # "munmap" /\ ~fixed[t] => op[t].start = cursor[t]
  /\ Loading(t) => pml4[t] # op[t].root
\* the pages that mmap has passed are mapped and zero,
Filled(t) ==
  op[t].kind = "mmap" => \A p \in Pages : op[t].start <= p /\ p < op[t].page =>
    Translate(pml4[t], p) # None /\ data[Translate(pml4[t], p)] = Zero
\* those munmap has passed are not,
Gone(t) ==
  op[t].kind \in {"munmap", "undo"} => \A p \in Pages : op[t].start <= p /\ p < op[t].page =>
    Translate(pml4[t], p) = None
\* there is room between the cursor and the stack,
Room(t) ==
  pml4[t] # None /\ ~fixed[t] => \A p \in Pages : FreeFrom(t) <= p /\ p < StackStart =>
    Translate(pml4[t], p) = None
\* and a space being loaded has nothing behind the image but its stack so far.
Loaded(t) ==
  /\ op[t].kind = "image" =>
       op[t].page <= ImageEnd /\ \A p \in Pages : op[t].page <= p => Translate(op[t].root, p) = None
  /\ op[t].kind = "stack" =>
       /\ op[t].page \in StackStart .. StackEnd
       /\ \A p \in Pages : (ImageEnd <= p /\ p < StackStart) \/ op[t].page <= p =>
            Translate(op[t].root, p) = None

PagesOK(t) == TaskOK(t) /\ Filled(t) /\ Gone(t) /\ Room(t) /\ Loaded(t)

VmInv == VmTypeOK /\ Labelled /\ OwnSpaces /\ \A t \in Slots : PagesOK(t)

\* The order of the parts of a space.
LEMMA Layout ==
  /\ LastPage \in Nat /\ ImageEnd \in Nat /\ MmapStart \in Nat /\ StackStart \in Nat
  /\ StackEnd \in Nat /\ 1 <= ImageEnd /\ ImageEnd <= MmapStart /\ MmapStart <= StackStart
  /\ StackStart < StackEnd /\ StackEnd <= LastPage
<1>1. LastPage \in 1 .. Span * Span /\ Span \in Nat
  BY VmAssumption
<1>2. LastPage \in Nat
  BY <1>1
<1> QED BY <1>2, VmAssumption

\* The fields of what a task may be doing.
LEMMA OpFields ==
  ASSUME NEW o \in Ops
  PROVE  /\ o.kind \in {"idle", "image", "stack", "mmap", "munmap", "undo"}
         /\ o.kind = "idle" <=> o = Idle
         /\ o.kind \in {"image", "stack"} =>
              /\ o.root \in Frames /\ o.page \in 0 .. LastPage /\ o.locked \in BOOLEAN
              /\ o = [kind |-> o.kind, root |-> o.root, page |-> o.page, locked |-> o.locked]
         /\ o.kind \in {"mmap", "munmap", "undo"} =>
              /\ o.start \in Pages /\ o.page \in 0 .. LastPage /\ o.end \in 0 .. LastPage
              /\ o = [kind |-> o.kind, start |-> o.start, page |-> o.page, end |-> o.end]
  BY DEF Ops, Idle

\* A page below an end is a page of the space.
LEMMA PageBelow ==
  ASSUME NEW p \in 0 .. LastPage, NEW e \in 0 .. LastPage, p < e
  PROVE  p \in Pages
BY Layout DEF Pages

LEMMA Ends == ImageEnd \in 0 .. LastPage /\ StackEnd \in 0 .. LastPage /\ 1 \in 0 .. LastPage
BY Layout

\* A load begins.
LEMMA NewLoad ==
  ASSUME NEW h \in Frames, NEW o,
         o = [kind |-> "image", root |-> h, page |-> 1, locked |-> FALSE]
  PROVE  o \in Ops /\ o.kind = "image" /\ o.root = h /\ o.page = 1
<1>1. o.kind = "image" /\ o.root = h /\ o.page = 1
  OBVIOUS
<1> QED BY Zenon, <1>1, Ends DEF Ops

\* A load and a call with some fields changed.
LEMMA LoadFields ==
  ASSUME NEW o \in Ops, o.kind \in {"image", "stack"}, NEW q \in 0 .. LastPage,
         NEW w, w = [o EXCEPT !.page = q]
  PROVE  w \in Ops /\ w.kind = o.kind /\ w.root = o.root /\ w.page = q
<1>1. o \in [kind : {"image", "stack"}, root : Frames, page : 0 .. LastPage, locked : BOOLEAN]
  BY DEF Ops, Idle
<1>2. w.kind = o.kind /\ w.root = o.root /\ w.page = q
  BY <1>1
<1>3. w \in [kind : {"image", "stack"}, root : Frames, page : 0 .. LastPage, locked : BOOLEAN]
  BY <1>1
<1> QED BY <1>2, <1>3 DEF Ops

\* preempt_disable changes one field of a load.
LEMMA LockFields ==
  ASSUME NEW o \in Ops, o.kind = "image", NEW w, w = [o EXCEPT !.locked = TRUE]
  PROVE  w \in Ops /\ w.kind = "image" /\ w.root = o.root /\ w.page = o.page
<1>1. o \in [kind : {"image", "stack"}, root : Frames, page : 0 .. LastPage, locked : BOOLEAN]
  BY DEF Ops, Idle
<1>2. w.kind = "image" /\ w.root = o.root /\ w.page = o.page
  BY <1>1
<1>3. w \in [kind : {"image", "stack"}, root : Frames, page : 0 .. LastPage, locked : BOOLEAN]
  BY Zenon, <1>1
<1> QED BY <1>2, <1>3 DEF Ops

\* The next page of an mmap or munmap.
LEMMA CallFields ==
  ASSUME NEW o \in Ops, o.kind \in {"mmap", "munmap", "undo"}, NEW q
  PROVE  [o EXCEPT !.page = q] = [kind |-> o.kind, start |-> o.start, page |-> q, end |-> o.end]
<1>1. o \in [kind : {"mmap", "munmap", "undo"}, start : Pages, page : 0 .. LastPage,
             end : 0 .. LastPage]
  BY DEF Ops, Idle
<1> QED BY <1>1

\* In the invariant, the roots are frames.
LEMMA RootFrames ==
  ASSUME VmInv, NEW t \in Slots
  PROVE  SpacesOf(t) \subseteq Frames /\ SpacesOf(t) \subseteq Roots
<1>1. op[t] \in Ops /\ pml4[t] \in Frames \cup {None}
  BY DEF VmInv, VmTypeOK
<1>2. SpacesOf(t) \subseteq Frames
  BY <1>1, OpFields DEF SpacesOf
<1> QED BY <1>2 DEF Roots

\* Nothing that holds of a task changes while it does nothing and its spaces
\* are kept.
LEMMA PagesKept ==
  ASSUME NEW t \in Slots, VmInv, PagesOK(t),
         op'[t] = op[t], pml4'[t] = pml4[t], cursor'[t] = cursor[t], fixed'[t] = fixed[t],
         \A s \in SpacesOf(t), m, n \in Idx : Kept(data, data', s, m, n)
  PROVE  PagesOK(t)' /\ SpacesOf(t)' = SpacesOf(t)
<1>1. SpacesOf(t)' = SpacesOf(t)
  BY DEF SpacesOf
<1>2. ASSUME NEW s \in SpacesOf(t), NEW p \in Pages
      PROVE  /\ Translate(s, p)' = Translate(s, p)
             /\ Translate(s, p) # None => data'[Translate(s, p)] = data[Translate(s, p)]
  <2>1. p \div Span \in Idx /\ p % Span \in Idx
    BY Zenon, PageEntry
  <2>2. Kept(data, data', s, p \div Span, p % Span)
    BY <2>1
  <2> QED BY Zenon, <2>2 DEF Kept, Entry, Translate, TableOf
<1>3. pml4[t] # None => pml4[t] \in SpacesOf(t)
  BY DEF SpacesOf
<1>4. Loading(t) => op[t].root \in SpacesOf(t)
  BY DEF SpacesOf, Loading
<1>5. TaskOK(t)'
  BY Zenon DEF PagesOK, TaskOK, Loading
<1>6. Filled(t)'
  BY Zenon, <1>2, <1>3 DEF PagesOK, TaskOK, Filled
<1>7. Gone(t)'
  BY Zenon, <1>2, <1>3 DEF PagesOK, TaskOK, Gone
<1>8. Room(t)'
  BY Zenon, <1>2, <1>3 DEF PagesOK, Room, FreeFrom
<1>9. Loaded(t)'
  BY Zenon, <1>2, <1>4 DEF PagesOK, Loaded, Loading
<1> QED BY Zenon, <1>1, <1>5, <1>6, <1>7, <1>8, <1>9 DEF PagesOK

-----------------------------------------------------------------------------
(* Steps.                                                                   *)

\* Task t goes on to do o, in space r, with cursor c; x: it has chosen an address.
Move(t, o, r, c, x) ==
  /\ op' = [op EXCEPT ![t] = o] /\ pml4' = [pml4 EXCEPT ![t] = r]
  /\ cursor' = [cursor EXCEPT ![t] = c] /\ fixed' = [fixed EXCEPT ![t] = x]
  /\ o \in Ops /\ r \in Frames \cup {None} /\ c \in 0 .. LastPage /\ x \in BOOLEAN
  /\ calls' \in 0 .. MaxCalls

Same(w) ==
  op'[w] = op[w] /\ pml4'[w] = pml4[w] /\ cursor'[w] = cursor[w] /\ fixed'[w] = fixed[w]

\* What a step of t must do to preserve the invariant.
StepOK(t) ==
  /\ VmTypeOK' /\ Labelled' /\ PagesOK(t)'
  /\ \A w \in Slots \ {t} :
       /\ Same(w) /\ \A s \in SpacesOf(w), m, n \in Idx : Kept(data, data', s, m, n)
       /\ SpacesOf(t)' \cap SpacesOf(w) = {}

\* After a move the types hold and the other tasks stand still.
LEMMA Moved ==
  ASSUME VmTypeOK, NEW t \in Slots, NEW o, NEW r, NEW c, NEW x, Move(t, o, r, c, x),
         data' \in Memory, freeFrames' \in SUBSET Frames
  PROVE  /\ VmTypeOK' /\ op'[t] = o /\ pml4'[t] = r /\ cursor'[t] = c /\ fixed'[t] = x
         /\ \A w \in Slots \ {t} : Same(w)
<1>1. op' \in [Slots -> Ops] /\ op'[t] = o /\ \A w \in Slots \ {t} : op'[w] = op[w]
  BY DEF VmTypeOK, Move
<1>2. /\ pml4' \in [Slots -> Frames \cup {None}] /\ pml4'[t] = r
      /\ \A w \in Slots \ {t} : pml4'[w] = pml4[w]
  BY DEF VmTypeOK, Move
<1>3. /\ cursor' \in [Slots -> 0 .. LastPage] /\ cursor'[t] = c
      /\ \A w \in Slots \ {t} : cursor'[w] = cursor[w]
  BY DEF VmTypeOK, Move
<1>4. fixed' \in [Slots -> BOOLEAN] /\ fixed'[t] = x /\ \A w \in Slots \ {t} : fixed'[w] = fixed[w]
  BY DEF VmTypeOK, Move
<1>5. VmTypeOK'
  BY <1>1, <1>2, <1>3, <1>4 DEF VmTypeOK, Move, Memory, Words
<1> QED BY <1>1, <1>2, <1>3, <1>4, <1>5 DEF Same

\* A step that is right for its task and keeps the others' spaces preserves
\* the invariant.
LEMMA Combine ==
  ASSUME VmInv, NEW t \in Slots, StepOK(t)
  PROVE  VmInv'
<1>1. ASSUME NEW w \in Slots \ {t} PROVE PagesOK(w)' /\ SpacesOf(w)' = SpacesOf(w)
  <2>1. /\ op'[w] = op[w] /\ pml4'[w] = pml4[w] /\ cursor'[w] = cursor[w] /\ fixed'[w] = fixed[w]
        /\ \A s \in SpacesOf(w), m, n \in Idx : Kept(data, data', s, m, n)
    BY DEF StepOK, Same
  <2>2. PagesOK(w)
    BY DEF VmInv
  <2> QED BY <2>1, <2>2, PagesKept
<1>2. \A w \in Slots : PagesOK(w)'
  BY <1>1 DEF StepOK
<1>3. OwnSpaces'
  <2> SUFFICES ASSUME NEW w \in Slots, NEW z \in Slots, w # z
               PROVE  SpacesOf(w)' \cap SpacesOf(z)' = {}
    BY DEF OwnSpaces
  <2>1. CASE w = t
    BY <1>1, <2>1 DEF StepOK
  <2>2. CASE z = t
    BY <1>1, <2>2 DEF StepOK
  <2>3. CASE w # t /\ z # t
    BY <1>1, <2>3 DEF VmInv, OwnSpaces
  <2> QED BY <2>1, <2>2, <2>3
<1> QED BY <1>2, <1>3 DEF VmInv, StepOK

\* The roots after a step of t: its own, and those of the others.
LEMMA RootsAfter ==
  ASSUME NEW t \in Slots, \A w \in Slots \ {t} : Same(w), NEW r, r \in Roots'
  PROVE  r \in Roots \/ r \in SpacesOf(t)'
<1>1. PICK w \in Slots : r \in SpacesOf(w)'
  BY DEF Roots
<1>2. CASE w = t
  BY <1>1, <1>2
<1>3. CASE w # t
  <2>1. SpacesOf(w)' = SpacesOf(w)
    BY <1>3 DEF Same, SpacesOf
  <2> QED BY <1>1, <2>1 DEF Roots
<1> QED BY <1>2, <1>3

\* A step that leaves memory alone and takes no new space.
LEMMA QuietStep ==
  ASSUME VmInv, NEW t \in Slots, NEW o, NEW r, NEW c, NEW x, Move(t, o, r, c, x),
         data' = data, freeFrames' \in SUBSET freeFrames,
         SpacesOf(t)' \subseteq SpacesOf(t), PagesOK(t)'
  PROVE  StepOK(t)
<1>1. VmTypeOK /\ data' \in Memory /\ freeFrames' \in SUBSET Frames
  BY DEF VmInv, VmTypeOK, Memory, Words
<1>2. VmTypeOK' /\ \A w \in Slots \ {t} : Same(w)
  BY <1>1, Moved
<1>3. PICK k, u, a : Labels(data, freeFrames, k, u, a) /\ \A s \in Roots : k[s] = "root"
  BY DEF VmInv, Labelled
<1>4. Labels(data', freeFrames', k, u, a)
  BY <1>3 DEF Labels
<1>5. \A s \in Roots' : k[s] = "root"
  <2> SUFFICES ASSUME NEW s \in Roots' PROVE k[s] = "root"
    OBVIOUS
  <2>1. s \in Roots \/ s \in SpacesOf(t)'
    BY <1>2, RootsAfter
  <2> QED BY <1>3, <2>1, RootFrames
<1>6. Labelled'
  BY <1>4, <1>5 DEF Labelled
<1>7. \A s, m, n : Kept(data, data', s, m, n)
  BY DEF Kept
<1>8. \A w \in Slots \ {t} : SpacesOf(t)' \cap SpacesOf(w) = {}
  BY DEF VmInv, OwnSpaces
<1> QED BY <1>2, <1>6, <1>7, <1>8 DEF StepOK

\* The types of task t's state, and the walk when memory does not change.
LEMMA TaskTypes ==
  ASSUME VmInv, NEW t \in Slots
  PROVE  /\ op[t] \in Ops /\ pml4[t] \in Frames \cup {None} /\ cursor[t] \in 0 .. LastPage
         /\ fixed[t] \in BOOLEAN /\ PagesOK(t)
         /\ op = [op EXCEPT ![t] = op[t]] /\ pml4 = [pml4 EXCEPT ![t] = pml4[t]]
         /\ cursor = [cursor EXCEPT ![t] = cursor[t]] /\ fixed = [fixed EXCEPT ![t] = fixed[t]]
  BY DEF VmInv, VmTypeOK

\* The walk depends on memory alone.
LEMMA SameWalk ==
  ASSUME data' = data, NEW s, NEW p
  PROVE  Translate(s, p)' = Translate(s, p)
  BY DEF Translate, TableOf

\* preempt_disable.
LEMMA LockOK ==
  ASSUME VmInv, NEW t \in Slots, Lock(t), calls' \in 0 .. MaxCalls
  PROVE  StepOK(t)
<1>1. PICK o : o = [op[t] EXCEPT !.locked = TRUE]
  BY Zenon
<1>2. op[t].kind = "image" /\ op[t].root \in Frames /\ op[t].page \in 0 .. LastPage
  BY TaskTypes, OpFields DEF Lock
<1>3. o \in Ops /\ o.kind = "image" /\ o.root = op[t].root /\ o.page = op[t].page
  BY <1>1, <1>2, TaskTypes, LockFields
<1>4. Move(t, o, pml4[t], cursor[t], fixed[t])
  <2>1. op' = [op EXCEPT ![t] = o]
    BY <1>1 DEF Lock
  <2> QED BY Zenon, <1>3, <2>1, TaskTypes DEF Lock, Move
<1>5. data' = data /\ freeFrames' = freeFrames
  BY DEF Lock
<1>6. op'[t] = o /\ pml4'[t] = pml4[t] /\ cursor'[t] = cursor[t] /\ fixed'[t] = fixed[t]
  BY <1>4 DEF Move, VmInv, VmTypeOK
<1>7. SpacesOf(t)' \subseteq SpacesOf(t)
  BY <1>2, <1>3, <1>6 DEF SpacesOf
<1>8. PagesOK(t)'
  <2>1. PagesOK(t) /\ \A s, p : Translate(s, p)' = Translate(s, p)
    BY <1>5, TaskTypes, SameWalk
  <2>2. TaskOK(t)'
    BY <1>2, <1>3, <1>6, <2>1 DEF PagesOK, TaskOK, Loading
  <2>3. Filled(t)' /\ Gone(t)'
    BY <1>3, <1>6 DEF Filled, Gone
  <2>4. Room(t)'
    BY Zenon, <1>2, <1>3, <1>6, <2>1 DEF PagesOK, Room, FreeFrom
  <2>5. Loaded(t)'
    BY <1>2, <1>3, <1>6, <2>1 DEF PagesOK, Loaded
  <2> QED BY <2>2, <2>3, <2>4, <2>5 DEF PagesOK
<1> QED BY <1>4, <1>5, <1>7, <1>8, QuietStep

\* From the image to the stack.
LEMMA LoadStackOK ==
  ASSUME VmInv, NEW t \in Slots, LoadStack(t), calls' \in 0 .. MaxCalls
  PROVE  StepOK(t)
<1>1. PICK o : o = [op[t] EXCEPT !.kind = "stack", !.page = StackStart]
  OBVIOUS
<1>2. op[t].kind = "image" /\ op[t].page = ImageEnd
  BY DEF LoadStack
<1>3. o \in Ops /\ o.kind = "stack" /\ o.root = op[t].root /\ o.page = StackStart
  <2>1. StackStart \in 0 .. LastPage
    BY Layout
  <2>2. PICK x : x = op[t]
    OBVIOUS
  <2>3. x \in Ops /\ x.kind = "image" /\ o = [x EXCEPT !.kind = "stack", !.page = StackStart]
    BY <1>1, <1>2, <2>2, TaskTypes
  <2>4. x \in [kind : {"image", "stack"}, root : Frames, page : 0 .. LastPage, locked : BOOLEAN]
    BY <2>3 DEF Ops, Idle
  <2>5. o.kind = "stack" /\ o.root = x.root /\ o.page = StackStart
    BY <2>3, <2>4
  <2>6. o \in [kind : {"image", "stack"}, root : Frames, page : 0 .. LastPage, locked : BOOLEAN]
    BY Zenon, <2>1, <2>3, <2>4
  <2>7. o \in Ops
    BY <2>6 DEF Ops
  <2> QED BY <2>2, <2>5, <2>7
<1>4. Move(t, o, pml4[t], cursor[t], fixed[t])
  <2>1. op' = [op EXCEPT ![t] = o]
    BY Zenon, <1>1 DEF LoadStack
  <2> QED BY Zenon, <1>3, <2>1, TaskTypes DEF LoadStack, Move
<1>5. data' = data /\ freeFrames' = freeFrames
  BY DEF LoadStack
<1>6. op'[t] = o /\ pml4'[t] = pml4[t] /\ cursor'[t] = cursor[t] /\ fixed'[t] = fixed[t]
  BY <1>4 DEF Move, VmInv, VmTypeOK
<1>7. SpacesOf(t)' \subseteq SpacesOf(t)
  BY <1>2, <1>3, <1>6 DEF SpacesOf
<1>8. PagesOK(t)'
  <2>1. PagesOK(t) /\ \A s, p : Translate(s, p)' = Translate(s, p)
    BY <1>5, TaskTypes, SameWalk
  <2>2. TaskOK(t)'
    BY <1>2, <1>3, <1>6, <2>1 DEF PagesOK, TaskOK, Loading
  <2>3. Filled(t)' /\ Gone(t)'
    BY <1>3, <1>6 DEF Filled, Gone
  <2>4. Room(t)'
    BY <1>2, <1>3, <1>6, <2>1 DEF PagesOK, Room, FreeFrom
  <2>5. Loaded(t)'
    <3>1. ASSUME NEW q \in Pages, (ImageEnd <= q /\ q < StackStart) \/ StackStart <= q
          PROVE  Translate(op[t].root, q) = None
      <4>1. q \in Nat
        BY PageEntry
      <4>2. ImageEnd <= q
        BY <3>1, <4>1, Layout
      <4> QED BY <1>2, <2>1, <4>2 DEF PagesOK, Loaded
    <3>2. StackStart \in StackStart .. StackEnd
      BY Layout
    <3> QED BY <1>3, <1>6, <2>1, <3>1, <3>2 DEF Loaded
  <2> QED BY <2>2, <2>3, <2>4, <2>5 DEF PagesOK
<1> QED BY <1>4, <1>5, <1>7, <1>8, QuietStep

\* The new space replaces the old one.
LEMMA LoadDoneOK ==
  ASSUME VmInv, NEW t \in Slots, LoadDone(t), calls' \in 0 .. MaxCalls
  PROVE  StepOK(t)
<1>1. op[t].kind = "stack" /\ op[t].root \in Frames
  BY TaskTypes, OpFields DEF LoadDone
<1>2. Move(t, Idle, op[t].root, MmapStart, FALSE)
  <2>1. Idle \in Ops /\ MmapStart \in 0 .. LastPage
    BY Layout DEF Ops
  <2> QED BY <1>1, <2>1 DEF LoadDone, Move
<1>3. data' = data /\ freeFrames' = freeFrames
  BY DEF LoadDone
<1>4. /\ op'[t] = Idle /\ pml4'[t] = op[t].root /\ cursor'[t] = MmapStart
      /\ Idle.kind = "idle"
  BY <1>2 DEF Move, VmInv, VmTypeOK, Idle
<1>5. SpacesOf(t)' \subseteq SpacesOf(t)
  BY <1>1, <1>4 DEF SpacesOf
<1>6. PagesOK(t)'
  <2>1. PagesOK(t) /\ \A s, p : Translate(s, p)' = Translate(s, p)
    BY <1>3, TaskTypes, SameWalk
  <2>2. TaskOK(t)' /\ Filled(t)' /\ Gone(t)' /\ Loaded(t)'
    BY <1>4 DEF TaskOK, Filled, Gone, Loaded, Loading
  <2>3. Room(t)'
    <3>1. \A p \in Pages : MmapStart <= p /\ p < StackStart => Translate(op[t].root, p) = None
      BY <1>1, <2>1, Layout, PageEntry DEF PagesOK, Loaded
    <3> QED BY <1>4, <2>1, <3>1 DEF Room, FreeFrom
  <2> QED BY <2>2, <2>3 DEF PagesOK
<1> QED BY Zenon, <1>2, <1>3, <1>5, <1>6, QuietStep

\* A load that fails: the new space is forgotten.
LEMMA LoadFailOK ==
  ASSUME VmInv, NEW t \in Slots, LoadFail(t), calls' \in 0 .. MaxCalls
  PROVE  StepOK(t)
<1>1. op[t].kind \in {"image", "stack"}
  BY DEF LoadFail
<1>2. Move(t, Idle, pml4[t], cursor[t], fixed[t])
  <2>1. Idle \in Ops
    BY DEF Ops
  <2> QED BY <2>1, TaskTypes DEF LoadFail, Move
<1>3. data' = data /\ freeFrames' \in SUBSET freeFrames
  BY DEF LoadFail
<1>4. /\ op'[t] = Idle /\ pml4'[t] = pml4[t] /\ cursor'[t] = cursor[t] /\ fixed'[t] = fixed[t]
      /\ Idle.kind = "idle"
  BY <1>2 DEF Move, VmInv, VmTypeOK, Idle
<1>5. SpacesOf(t)' \subseteq SpacesOf(t)
  BY <1>4 DEF SpacesOf
<1>6. PagesOK(t)'
  <2>1. PagesOK(t) /\ \A s, p : Translate(s, p)' = Translate(s, p)
    BY <1>3, TaskTypes, SameWalk
  <2>2. TaskOK(t)' /\ Filled(t)' /\ Gone(t)' /\ Loaded(t)'
    BY <1>4 DEF TaskOK, Filled, Gone, Loaded, Loading
  <2>3. Room(t)'
    BY Zenon, <1>1, <1>4, <2>1 DEF PagesOK, Room, FreeFrom
  <2> QED BY <2>2, <2>3 DEF PagesOK
<1> QED BY <1>2, <1>3, <1>5, <1>6, QuietStep

\* task_exit.
LEMMA VmExitOK ==
  ASSUME VmInv, NEW t \in Slots, VmExit(t), calls' \in 0 .. MaxCalls
  PROVE  StepOK(t)
<1>1. Move(t, op[t], None, MmapStart, FALSE) /\ op[t].kind = "idle"
  <2>1. MmapStart \in 0 .. LastPage
    BY Layout
  <2> QED BY <2>1, TaskTypes DEF VmExit, Move, Idle
<1>2. data' = data /\ freeFrames' = freeFrames
  BY DEF VmExit
<1>3. op'[t] = op[t] /\ pml4'[t] = None
  BY <1>1 DEF Move, VmInv, VmTypeOK
<1>4. SpacesOf(t)' \subseteq SpacesOf(t)
  BY <1>1, <1>3 DEF SpacesOf
<1>5. PagesOK(t)'
  BY Zenon, <1>1, <1>3 DEF PagesOK, TaskOK, Filled, Gone, Room, Loaded, Loading
<1> QED BY Zenon, <1>1, <1>2, <1>4, <1>5, QuietStep
=============================================================================
