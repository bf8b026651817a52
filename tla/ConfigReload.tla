---------------------------- MODULE ConfigReload ----------------------------
(***************************************************************************)
(* Loading conf.json and loading it again when it changed                  *)
(* (config/config.go, _cfg_load_config of config/config_loader.go).  A     *)
(* goroutine compares size and modification time, in seconds, with those   *)
(* of the loaded configuration; a load reads the file and looks at its     *)
(* size and time afterwards.  What JSON cannot be made of gives an empty   *)
(* configuration.  Editors replace the file, rewrite it in two steps, or   *)
(* take it away for a while.                                               *)
(***************************************************************************)
EXTENDS Integers

CONSTANTS Texts,     \* contents of the file
          SizeOf,    \* their sizes
          Half,      \* content and size of a file that is being written
          Gone,      \* no file
          MaxWrites, \* bound: changes of the file
          MaxTime    \* bound: seconds

ConfigAssumption ==
  /\ Half \notin Texts /\ Gone \notin Texts /\ Half # Gone
  /\ SizeOf \in [Texts \cup {Half, Gone} -> Nat]
  /\ MaxWrites \in Nat /\ MaxTime \in Nat \ {0}

VARIABLES
  now,
  file,     \* [text, size, mtime]
  rest,     \* what a writer still has to write, Gone if nothing
  writes,
  loading,  \* where the goroutine is: "wait", "read", "stat"
  text,     \* what it has read
  loaded,   \* the configuration: its text, cfg_file_size and
            \*   cfg_file_modified, when these were looked at, and whether
            \*   the file was another by then
  alive

vars == <<now, file, rest, writes, loading, text, loaded, alive>>

Stat(t) == [text |-> t, size |-> SizeOf[t], mtime |-> now]
Load(t) == [text |-> t, size |-> file.size, mtime |-> file.mtime,
            at |-> now, behind |-> file.text # t]

(* ReadConfig at the start; without a file the server does not start.       *)
Init ==
  /\ now = 1
  /\ \E t \in Texts : file = [text |-> t, size |-> SizeOf[t], mtime |-> 0]
  /\ rest = Gone /\ writes = 0
  /\ loading = "wait" /\ text = Gone /\ alive = TRUE
  /\ loaded = Load(file.text)

Second ==
  /\ now < MaxTime
  /\ now' = now + 1
  /\ UNCHANGED <<file, rest, writes, loading, text, loaded, alive>>

-----------------------------------------------------------------------------
(* Editors. *)

Change(t) == file' = Stat(t)
             /\ UNCHANGED <<now, loading, text, loaded, alive>>

Replace(t) ==
  /\ rest = Gone /\ writes < MaxWrites
  /\ writes' = writes + 1
  /\ Change(t) /\ UNCHANGED rest

WriteBegin(t) ==
  /\ rest = Gone /\ writes < MaxWrites
  /\ writes' = writes + 1
  /\ Change(Half) /\ rest' = t

Remove(t) ==
  /\ rest = Gone /\ writes < MaxWrites
  /\ writes' = writes + 1
  /\ Change(Gone) /\ rest' = t

WriteEnd == rest # Gone /\ Change(rest) /\ rest' = Gone /\ UNCHANGED writes

-----------------------------------------------------------------------------
(* The goroutine of init. *)

(* Mutant: only the size is compared. *)
PollSize ==
  /\ alive /\ loading = "wait"
  /\ file.text # Gone
  /\ loaded.size # file.size
  /\ loading' = "read"
  /\ UNCHANGED <<now, file, rest, writes, text, loaded, alive>>

Poll ==
  /\ alive /\ loading = "wait"
  /\ file.text # Gone
  /\ loaded.size # file.size \/ loaded.mtime # file.mtime
  /\ loading' = "read"
  /\ UNCHANGED <<now, file, rest, writes, text, loaded, alive>>

ReadFile ==
  /\ alive /\ loading = "read"
  /\ IF file.text = Gone THEN loading' = "wait" /\ UNCHANGED text
     ELSE loading' = "stat" /\ text' = file.text
  /\ UNCHANGED <<now, file, rest, writes, loaded, alive>>

(* Mutant: what does not decode leaves the configuration as it was, but    *)
(* under the new size and time.                                             *)
StoreDecoded ==
  /\ alive /\ loading = "stat"
  /\ IF file.text = Gone THEN alive' = FALSE /\ UNCHANGED <<loading, loaded>>
     ELSE /\ loaded' = IF text = Half THEN [Load(text) EXCEPT !.text = loaded.text] ELSE Load(text)
          /\ loading' = "wait" /\ UNCHANGED alive
  /\ UNCHANGED <<now, file, rest, writes, text>>

(* The second look at the file, whose error is not checked.                 *)
Store ==
  /\ alive /\ loading = "stat"
  /\ IF file.text = Gone THEN alive' = FALSE /\ UNCHANGED <<loading, loaded>>
     ELSE /\ loaded' = Load(text)
          /\ loading' = "wait" /\ UNCHANGED alive
  /\ UNCHANGED <<now, file, rest, writes, text>>

Reload == Poll \/ ReadFile \/ Store

Next == \/ Second
        \/ \E t \in Texts : Replace(t) \/ WriteBegin(t) \/ Remove(t)
        \/ WriteEnd
        \/ Reload

Spec == Init /\ [][Next]_vars

(* The goroutine polls; who begins to write ends.                           *)
Fairness == WF_vars(Reload) /\ WF_vars(WriteEnd)

-----------------------------------------------------------------------------
AllTexts == Texts \cup {Half, Gone}

TypeOK ==
  /\ now \in 1 .. MaxTime /\ writes \in 0 .. MaxWrites
  /\ file \in [text : AllTexts, size : Nat, mtime : 0 .. MaxTime]
  /\ file.size = SizeOf[file.text]
  /\ rest \in Texts \cup {Gone} /\ text \in AllTexts
  /\ loading \in {"wait", "read", "stat"} /\ alive \in BOOLEAN
  /\ loaded \in [text : Texts \cup {Half}, size : Nat, mtime : 0 .. MaxTime,
                 at : 1 .. MaxTime, behind : BOOLEAN]

(* The configuration is not that of the file, and no poll will notice.      *)
Stale == /\ loaded.text # file.text
         /\ loaded.size = file.size /\ loaded.mtime = file.mtime

(* That happens in two ways only: the file was changed between being read   *)
(* and being looked at, and a half-written file then stays in force as an   *)
(* empty configuration; or it was changed to the same size in the second in *)
(* which it was loaded.                                                     *)
StaleOnlyByRace == Stale => loaded.behind \/ loaded.at = loaded.mtime

(* When the file is left alone, the last change is picked up, unless it     *)
(* cannot be noticed or the file was missing at the second look.            *)
PickedUp == writes = MaxWrites /\ rest = Gone
              ~> loaded.text = file.text \/ Stale \/ ~alive
=============================================================================
