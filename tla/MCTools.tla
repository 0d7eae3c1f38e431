------------------------------ MODULE MCTools ------------------------------
(* Small instances of the file system, console and program modules, side by *)
(* side in one run: a behaviour is one of the component named by part, and  *)
(* the variables of the others keep an initial value.                       *)
EXTENDS Namespace, FileData, Rootfs, Paths, ShellLine, Console, Scancode,
        Accounts, Grep, TLC

VARIABLE part

MCNames == {<<"a", 1>>, <<"b", 2>>}

MCEntries ==
  {<<<<"d">>, "dir", 0>>, <<<<"d", "f">>, "file", 1>>, <<<<"d", "f">>, "file", 2>>,
   <<<<"g">>, "file", 3>>, <<<<"e">>, "file", 0>>, <<<<"d">>, "link", 0>>, <<<<>>, "dir", 0>>}

MCNum == "0" :> 0 @@ "1" :> 1 @@ "2" :> 2 @@ "25" :> 25 @@ "41" :> 41
         @@ "1048" :> 1048 @@ "1049" :> 1049

CSI(bytes) == <<"ESC", "[">> \o bytes

MCOutputs ==
  {<<"x">>, <<"x", "x">>, <<"NL">>, <<"NL", "NL">>, <<"BS">>, <<"TAB">>, <<"CR">>, <<"ESC">>, <<"[">>}
  \cup {CSI(b) : b \in {<<"1", ";", "2", "H">>, <<"H">>, <<"2", "J">>, <<"K">>, <<"0", "K">>,
                        <<"B">>, <<"41", "m">>, <<"0", "m">>, <<"?", "25", "l">>,
                        <<"?", "1049", "h">>, <<"?", "1049", "l">>,
                        <<"?", "1048", "h">>, <<"?", "1048", "l">>}}

MCAtoi == [n \in Users \cup {Root} |-> 0]

MCQuantifiers == {<<1, 1>>, <<1, -1>>, <<2, 2>>, <<0, -1>>}

----------------------------------------------------------------------------
\* An archive, a search or an input is chosen only in the part it belongs to,
\* and grep's two halves (a search in a line, the loop over lines) in turn.
Init ==
  /\ part \in {"names", "data", "rootfs", "paths", "line", "console", "keys", "accounts",
               "search", "lines"}
  /\ NamespaceInit /\ FileInit /\ PathsInit /\ LineInit /\ ConsoleInit /\ ScancodeInit
  /\ AccountsInit /\ (part # "accounts" => ~together)
  /\ IF part = "rootfs" THEN RootfsInit
     ELSE /\ entries = <<>> /\ image = <<>> /\ at = 0 /\ mounted = "running"
          /\ tree = [p \in {<<>>} |-> <<"dir">>]
  /\ IF part = "lines" THEN TRUE ELSE hits = <<>> /\ after = 0 /\ before = 0 /\ most = -1
  /\ IF part = "search" THEN TRUE ELSE pattern = <<>> /\ text = <<>>
  /\ GrepInit

Next ==
  /\ UNCHANGED part
  /\ \/ /\ part = "names" /\ NamespaceNext
        /\ UNCHANGED <<fileVars, rootfsVars, pathVars, lineVars, conVars, kbVars, acctVars, grepVars>>
     \/ /\ part = "data" /\ FileNext
        /\ UNCHANGED <<nsVars, rootfsVars, pathVars, lineVars, conVars, kbVars, acctVars, grepVars>>
     \/ /\ part = "rootfs" /\ RootfsNext
        /\ UNCHANGED <<nsVars, fileVars, pathVars, lineVars, conVars, kbVars, acctVars, grepVars>>
     \/ /\ part = "paths" /\ PathsNext
        /\ UNCHANGED <<nsVars, fileVars, rootfsVars, lineVars, conVars, kbVars, acctVars, grepVars>>
     \/ /\ part = "line" /\ LineNext
        /\ UNCHANGED <<nsVars, fileVars, rootfsVars, pathVars, conVars, kbVars, acctVars, grepVars>>
     \/ /\ part = "console" /\ ConsoleNext
        /\ UNCHANGED <<nsVars, fileVars, rootfsVars, pathVars, lineVars, kbVars, acctVars, grepVars>>
     \/ /\ part = "keys" /\ ScancodeNext
        /\ UNCHANGED <<nsVars, fileVars, rootfsVars, pathVars, lineVars, conVars, acctVars, grepVars>>
     \/ /\ part = "accounts" /\ AccountsNext
        /\ UNCHANGED <<nsVars, fileVars, rootfsVars, pathVars, lineVars, conVars, kbVars, grepVars>>
     \/ /\ part \in {"search", "lines"} /\ GrepNext
        /\ UNCHANGED <<nsVars, fileVars, rootfsVars, pathVars, lineVars, conVars, kbVars, acctVars>>
=============================================================================
