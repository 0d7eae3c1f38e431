------------------------------ MODULE Accounts -------------------------------
(***************************************************************************)
(* The account files: useradd (userspace/useradd.c) and passwd             *)
(* (userspace/passwd.c), which read /etc/passwd, /etc/shadow and           *)
(* /etc/group into memory, change their copies and write whole files back. *)
(*                                                                         *)
(* The shell runs one command at a time, but the stages of a pipeline run  *)
(* together: together says whether programs overlap.  A save opens the     *)
(* file, which empties it, and writes it on close; the open can fail (the  *)
(* file is untouched) and so can the write (a part of it is written).      *)
(* A line keeps its name, ids and password field; home, shell, comment and *)
(* the aging fields are left out.  lines.n, which useradd does not         *)
(* initialise, is taken to be 0.                                           *)
(***************************************************************************)
EXTENDS Integers, SequencesExt

CONSTANTS Users, Root,   \* the names added; the account that exists
          Programs,      \* programs that run
          Uids,          \* the uids given with -u
          MinUid,        \* 1000
          Atoi,          \* atoi() of a name, 0 unless it begins with a digit
          MaxLines,      \* bound (MAX_LINES is 256): lines of a file
          MaxAlone, MaxTogether \* bounds: programs run one at a time, overlapping

ASSUME AccountsAssumption ==
  /\ Root \notin Users /\ MinUid \in Nat /\ MaxLines \in Nat
  /\ Atoi \in [Users \cup {Root} -> Nat]

VARIABLES
  file,      \* "passwd", "shadow", "group" |-> the lines
  run,       \* the programs: where they are and what they have in memory
  together,  \* programs overlap
  failed,    \* history: a save has failed
  secret,    \* history: name |-> the password set last and whether it is locked
  started    \* the number of programs run so far

acctVars == <<file, run, together, failed, secret, started>>

Files == {"passwd", "shadow", "group"}
Exited == [pc |-> "exited"]
\* "" is no password, "h" a hash.  Lines of passwd: asked tells a uid given
\* with -u, own that the user has a group of its own.
PwLine(n, uid, asked, own) == [name |-> n, uid |-> uid, asked |-> asked, own |-> own]
NamesIn(lines) == {lines[i].name : i \in DOMAIN lines}

AccountsInit ==
  /\ file = [passwd |-> <<PwLine(Root, 0, FALSE, TRUE)>>,
             shadow |-> <<[name |-> Root, hash |-> "h"]>>,
             group  |-> <<[name |-> Root, gid |-> 0]>>]
  /\ run = [p \in Programs |-> Exited]
  /\ together \in BOOLEAN
  /\ failed = FALSE
  /\ started = 0
  /\ secret = [n \in {Root} |-> [hash |-> "h", locked |-> FALSE]]

Start(p) ==
  /\ run[p] = Exited /\ (together \/ \A q \in Programs : run[q] = Exited)
  /\ started < (IF together THEN MaxTogether ELSE MaxAlone) /\ started' = started + 1

Goto(p, pc) == run' = [run EXCEPT ![p].pc = pc]
Exit(p) == run' = [run EXCEPT ![p] = Exited]

-----------------------------------------------------------------------------
(* lines_load and lines_save.                                               *)

Load(f) == SubSeq(file[f], 1, IF Len(file[f]) < MaxLines THEN Len(file[f]) ELSE MaxLines)

\* fopen "w", at pc, of file f.
SaveOpen(p, pc, f) ==
  /\ run[p].pc = pc
  /\ file' = [file EXCEPT ![f] = <<>>]
  /\ Goto(p, pc \o "2") /\ UNCHANGED <<started, together, failed, secret>>

SaveOpenFails(p, pc) ==
  /\ run[p].pc = pc
  /\ Exit(p) /\ failed' = TRUE /\ UNCHANGED <<started, file, together, secret>>

\* fputs and fclose.
SaveFails(p, pc, f, lines) ==
  /\ run[p].pc = pc \o "2"
  /\ \E k \in 0 .. Len(lines) - 1 : file' = [file EXCEPT ![f] = SubSeq(lines, 1, k)]
  /\ Exit(p) /\ failed' = TRUE /\ UNCHANGED <<started, together, secret>>

-----------------------------------------------------------------------------
(* useradd.                                                                 *)

\* The start: the three files are loaded one after the other.
AddStart(p, n, uid, g) ==
  /\ Start(p) /\ Len(file.group) < MaxLines
  /\ run' = [run EXCEPT ![p] = [pc |-> "addShadow", name |-> n, asked |-> uid, g |-> g,
                                passwd |-> Load("passwd"), shadow |-> <<>>, group |-> <<>>]]
  /\ UNCHANGED <<file, together, failed, secret>>

AddLoadShadow(p) ==
  /\ run[p].pc = "addShadow"
  /\ run' = [run EXCEPT ![p].pc = "addGroup", ![p].shadow = Load("shadow")]
  /\ UNCHANGED <<started, file, together, failed, secret>>

AddLoadGroup(p) ==
  /\ run[p].pc = "addGroup"
  /\ run' = [run EXCEPT ![p].pc = "addCheck", ![p].group = Load("group")]
  /\ UNCHANGED <<started, file, together, failed, secret>>

\* max_field(&pw, 0) looks at field 0, the name.
MaxField(lines) == Max({0} \cup {Atoi[n] : n \in NamesIn(lines)})

\* The -u check reads the file once more.
UidInUse(uid) == \E i \in DOMAIN Load("passwd") : Load("passwd")[i].uid = uid

\* The checks and the new lines.  asked < 0: no -u; g: "own", or the name of
\* a group given with -g.
AddCheck(p) ==
  LET r == run[p]
      uid == IF r.asked >= 0 THEN r.asked ELSE Max({MaxField(r.passwd) + 1, MinUid})
      own == r.g = "own"
      gr == IF own THEN Append(r.group, [name |-> r.name, gid |-> uid]) ELSE r.group
  IN  /\ r.pc = "addCheck"
      /\ IF \/ r.name \in NamesIn(r.passwd)
            \/ r.asked >= 0 /\ UidInUse(r.asked)
            \/ ~own /\ r.g \notin NamesIn(r.group)
         THEN Exit(p)
         ELSE run' = [run EXCEPT
                ![p].pc = IF own THEN "saveGroup" ELSE "savePasswd",
                ![p].group = gr,
                ![p].passwd = Append(r.passwd, PwLine(r.name, uid, r.asked >= 0, own)),
                ![p].shadow = Append(r.shadow, [name |-> r.name, hash |-> "!"])]
      /\ UNCHANGED <<started, file, together, failed, secret>>

SaveGroup(p) ==
  /\ run[p].pc = "saveGroup2"
  /\ file' = [file EXCEPT !.group = run[p].group]
  /\ Goto(p, "savePasswd") /\ UNCHANGED <<started, together, failed, secret>>

SavePasswd(p) ==
  /\ run[p].pc = "savePasswd2"
  /\ file' = [file EXCEPT !.passwd = run[p].passwd]
  /\ Goto(p, "saveShadow") /\ UNCHANGED <<started, together, failed, secret>>

\* The last save: without -p the account is locked.
SaveShadow(p) ==
  /\ run[p].pc = "saveShadow2"
  /\ file' = [file EXCEPT !.shadow = run[p].shadow]
  /\ Exit(p)
  /\ secret' = [n \in DOMAIN secret \cup {run[p].name} |->
                  IF n = run[p].name THEN [hash |-> "", locked |-> TRUE] ELSE secret[n]]
  /\ UNCHANGED <<started, together, failed>>

-----------------------------------------------------------------------------
(* passwd.  op: "delete" (-d), "lock", "unlock" or "change".                *)

Bare(h) == CASE h = "!" -> "" [] h = "!h" -> "h" [] OTHER -> h
Locked(h) == h \in {"!", "!h"}

\* Mutant of NewHash: locking a locked account without a password gives it one.
NewHashTwice(op, h) ==
  CASE op = "delete" -> "" [] op = "change" -> "h"
    [] op = "lock" -> IF h = "!" THEN "!h" ELSE IF Bare(h) = "h" THEN "!h" ELSE "!"
    [] op = "unlock" -> Bare(h)

\* The new password field.
NewHash(op, h) ==
  CASE op = "delete" -> "" [] op = "change" -> "h"
    [] op = "lock" -> IF Bare(h) = "h" THEN "!h" ELSE "!"
    [] op = "unlock" -> Bare(h)

LineOf(lines, n) == CHOOSE i \in DOMAIN lines :
                      lines[i].name = n /\ \A j \in 1 .. i - 1 : lines[j].name # n

\* The user is looked up in passwd, and the old field in shadow (shadow_get).
PassStart(p, n, op) ==
  /\ Start(p)
  /\ n \in NamesIn(file.passwd) /\ n \in NamesIn(file.shadow)
  /\ run' = [run EXCEPT ![p] = [pc |-> "pass", name |-> n, op |-> op,
                                hash |-> file.shadow[LineOf(file.shadow, n)].hash]]
  /\ UNCHANGED <<file, together, failed, secret>>

\* The second read, and the new line in the place of the old.
PassEdit(p) ==
  LET r == run[p]
      sh == Load("shadow")
  IN  /\ r.pc = "pass"
      /\ run' = [run EXCEPT ![p] =
           [pc |-> "savePass", name |-> r.name, op |-> r.op,
            shadow |-> IF r.name \in NamesIn(sh)
                       THEN [sh EXCEPT ![LineOf(sh, r.name)].hash = NewHash(r.op, r.hash)]
                       ELSE sh]]
      /\ UNCHANGED <<started, file, together, failed, secret>>

SavePass(p) ==
  LET r == run[p]
  IN  /\ r.pc = "savePass2"
      /\ file' = [file EXCEPT !.shadow = r.shadow]
      /\ secret' = IF r.name \notin DOMAIN secret THEN secret
                   ELSE [secret EXCEPT ![r.name] =
                     CASE r.op = "delete" -> [hash |-> "", locked |-> FALSE]
                       [] r.op = "change" -> [hash |-> "h", locked |-> FALSE]
                       [] OTHER -> [@ EXCEPT !.locked = r.op = "lock"]]
      /\ Exit(p) /\ UNCHANGED <<started, together, failed>>

-----------------------------------------------------------------------------
AddNext(p) ==
  \/ \E n \in Users, uid \in Uids \cup {-1}, g \in {"own", Root} : AddStart(p, n, uid, g)
  \/ AddLoadShadow(p) \/ AddLoadGroup(p) \/ AddCheck(p)
  \/ SaveGroup(p) \/ SavePasswd(p) \/ SaveShadow(p)

PassNext(p) ==
  \/ \E n \in Users, op \in {"delete", "lock", "unlock", "change"} : PassStart(p, n, op)
  \/ PassEdit(p) \/ SavePass(p)

Saves(p) ==
  \E s \in {<<"saveGroup", "group">>, <<"savePasswd", "passwd">>,
            <<"saveShadow", "shadow">>, <<"savePass", "shadow">>} :
    \/ SaveOpen(p, s[1], s[2]) \/ SaveOpenFails(p, s[1])
    \/ run[p].pc = s[1] \o "2" /\ SaveFails(p, s[1], s[2], run[p][s[2]])

AccountsNext == \E p \in Programs : AddNext(p) \/ PassNext(p) \/ Saves(p)

AccountsSpec == AccountsInit /\ [][AccountsNext]_acctVars

-----------------------------------------------------------------------------
(* Properties.                                                              *)

\* No name has two lines in /etc/passwd, also when programs overlap or fail:
\* a copy that is written back never holds a name twice.
NamesUnique ==
  \A i, j \in DOMAIN file.passwd :
    file.passwd[i].name = file.passwd[j].name => i = j

Quiet == ~together /\ ~failed /\ \A p \in Programs : run[p] = Exited

\* After commands that ran one at a time and whose saves succeeded, every
\* account has its line in all the files and no other account has.
FilesAgree ==
  Quiet =>
    /\ NamesIn(file.passwd) = NamesIn(file.shadow)
    /\ \A i \in DOMAIN file.passwd :
         file.passwd[i].own => file.passwd[i].name \in NamesIn(file.group)

\* A uid given with -u differs from those of all earlier accounts.  (uids
\* that useradd chooses itself do not: MaxField.)
UidFresh ==
  Quiet =>
    \A i, j \in DOMAIN file.passwd :
      i < j /\ file.passwd[j].asked => file.passwd[i].uid # file.passwd[j].uid

\* Whatever is locked, unlocked, deleted and changed, the password field is
\* the last password set, marked exactly when the account is locked: a lock
\* can be taken back and forgets nothing.
PasswordKept ==
  Quiet =>
    \A i \in DOMAIN file.shadow :
      LET l == file.shadow[i]
      IN  /\ Bare(l.hash) = secret[l.name].hash
          /\ Locked(l.hash) <=> secret[l.name].locked

\* useradd and passwd: names stay unique in every case; after commands that
\* succeeded one at a time the three files agree, uids asked for are fresh
\* and no password is lost.
AccountsExact == NamesUnique /\ FilesAgree /\ UidFresh /\ PasswordKept
=============================================================================
