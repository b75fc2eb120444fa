--------------------------- MODULE DirectoryProofs ---------------------------
(***************************************************************************)
(* For any folder, any processes and any commands: that a scaffold never      *)
(* replaces a record, that an index tells of its scan, and that edits which do *)
(* not meet lose nothing.                                                    *)
(*                                                                         *)
(* The invariant behind the first: while `uwmd init` fills a file, the file    *)
(* cannot be read and no other command is about to write it, for such a       *)
(* command would have read the file before there was one, or while it could    *)
(* not be read. Behind the last: a file that no two commands met at has one    *)
(* command at most, which holds the file's own text.                         *)
(***************************************************************************)
EXTENDS Directory, FiniteSetTheorems, TLAPS

Busy == {"checked", "read", "parsed", "opened"}

\* A process; the texts it holds are not typed.
Shell(c) ==
  /\ DOMAIN c = {"kind", "file", "step", "text", "view"}
  /\ c.step \in Busy => c.file \in Files
  /\ c.step = "checked" => c.kind = "init"
  /\ c.step \in {"read", "parsed"} => c.kind # "init"

Typed(texts, commands) ==
  /\ DOMAIN texts = Files
  /\ DOMAIN commands = Shells
  /\ \A s \in Shells : Shell(commands[s])

\* A file that is not there is not read, and a command that has found or made its
\* file is at one that is there.
Found(stood, texts, commands) ==
  /\ \A f \in Files : f \notin stood => ~Readable(texts[f])
  /\ \A s \in Shells : commands[s].step \in {"read", "parsed", "opened"} => commands[s].file \in stood

Filling(c) == c.kind = "init" /\ c.step = "opened"

\* A file that init fills cannot be read, and nobody else is about to write it.
Alone(texts, commands) ==
  \A s \in Shells : Filling(commands[s]) =>
    /\ ~Readable(texts[commands[s].file])
    /\ \A r \in Shells \ {s} :
         commands[r].file = commands[s].file => commands[r].step \notin {"parsed", "opened"}

FolderInv(stood, texts, commands) ==
  /\ Typed(texts, commands)
  /\ Found(stood, texts, commands)
  /\ Alone(texts, commands)

DirectoryInv == FolderInv(stands, disk, shell)

-----------------------------------------------------------------------------
(* What a command does to its own record and to its file.                    *)

\* A command that has not read yet, or has come to its end, disturbs nothing.
LEMMA CommandRests ==
  ASSUME NEW stood, NEW texts, NEW commands, FolderInv(stood, texts, commands),
         NEW s \in Shells, NEW c, Shell(c), c.step \notin {"read", "parsed", "opened"}
  PROVE  FolderInv(stood, texts, [commands EXCEPT ![s] = c])
BY DEF FolderInv, Typed, Found, Alone, Filling, Shell

\* A command that begins to read a file that is there.
LEMMA CommandReads ==
  ASSUME NEW stood, NEW texts, NEW commands, FolderInv(stood, texts, commands),
         NEW s \in Shells, NEW c, Shell(c), c.step = "read", c.file \in stood
  PROVE  FolderInv(stood, texts, [commands EXCEPT ![s] = c])
BY DEF FolderInv, Typed, Found, Alone, Filling, Shell

\* An edit that has parsed a file that can be read.
LEMMA CommandParses ==
  ASSUME NEW stood, NEW texts, NEW commands, FolderInv(stood, texts, commands),
         NEW s \in Shells, NEW c, Shell(c), c.step = "parsed", c.file \in stood,
         Readable(texts[c.file])
  PROVE  FolderInv(stood, texts, [commands EXCEPT ![s] = c])
BY DEF FolderInv, Typed, Found, Alone, Filling, Shell

\* An edit that truncates the file it has parsed.
LEMMA EditOpens ==
  ASSUME NEW stood, NEW texts, NEW commands, FolderInv(stood, texts, commands),
         NEW s \in Shells, NEW c, Shell(c), c.step = "opened",
         commands[s].step = "parsed", c.file = commands[s].file, c.kind = commands[s].kind
  PROVE  FolderInv(stood, [texts EXCEPT ![c.file] = Empty], [commands EXCEPT ![s] = c])
BY DEF FolderInv, Typed, Found, Alone, Filling, Shell, Empty, Readable, Busy

\* An init that makes a file that was not there.
LEMMA InitOpens ==
  ASSUME NEW stood, NEW texts, NEW commands, FolderInv(stood, texts, commands),
         NEW s \in Shells, NEW c, Shell(c), Filling(c), c.file \notin stood
  PROVE  FolderInv(stood \cup {c.file}, [texts EXCEPT ![c.file] = Empty], [commands EXCEPT ![s] = c])
BY DEF FolderInv, Typed, Found, Alone, Filling, Shell, Empty, Readable, Busy

\* A command that fills the file it has opened.
LEMMA CommandFills ==
  ASSUME NEW stood, NEW texts, NEW commands, FolderInv(stood, texts, commands),
         NEW s \in Shells, NEW c, Shell(c), c.step = "done", NEW text,
         commands[s].step = "opened", c.file = commands[s].file
  PROVE  FolderInv(stood, [texts EXCEPT ![c.file] = text], [commands EXCEPT ![s] = c])
BY DEF FolderInv, Typed, Found, Alone, Filling, Shell, Busy

-----------------------------------------------------------------------------
(* The steps.                                                              *)

\* One command of one process.
Command(s) ==
  \/ \E f \in Files, kind \in {"supersede", "replace"} : BeginInit(s, f) \/ BeginEdit(s, f, kind)
  \/ CreateFile(s) \/ LoadSource(s) \/ Edit(s) \/ Fill(s) \/ Kill(s)

LEMMA LeftCommandIsAShell ==
  ASSUME NEW c, Shell(c), NEW step \in {"done", "failed"}
  PROVE  LET d == [c EXCEPT !.step = step, !.text = Empty, !.view = Empty]
         IN Shell(d) /\ d.step = step /\ d.file = c.file /\ d.kind = c.kind
BY DEF Shell, Busy

LEMMA LeavingKeepsTheInvariant ==
  ASSUME DirectoryInv, NEW s \in Shells, Leave(s, "failed"), UNCHANGED <<stands, disk>>
  PROVE  DirectoryInv'
<1> DEFINE c == [shell[s] EXCEPT !.step = "failed", !.text = Empty, !.view = Empty]
<1>1. Shell(shell[s])
  BY DEF DirectoryInv, FolderInv, Typed
<1>2. Shell(c) /\ c.step = "failed"
  BY <1>1, LeftCommandIsAShell
<1>3. shell' = [shell EXCEPT ![s] = c]
  BY DEF Leave
<1> HIDE DEF c
<1>4. FolderInv(stands, disk, [shell EXCEPT ![s] = c])
  BY <1>2, CommandRests DEF DirectoryInv
<1> QED
  BY <1>3, <1>4 DEF DirectoryInv

\* A command keeps the invariant, one step at a time.
LEMMA CommandsKeepTheInvariant ==
  ASSUME DirectoryInv, NEW s \in Shells, Command(s)
  PROVE  DirectoryInv'
<1>1. Shell(shell[s])
  BY DEF DirectoryInv, FolderInv, Typed
<1>2. ASSUME NEW f \in Files, BeginInit(s, f), f \notin stands PROVE DirectoryInv'
  <2> DEFINE c == [shell[s] EXCEPT !.kind = "init", !.file = f, !.step = "checked",
                                   !.text = DealText(<<Version(s, 1)>>)]
  <2>1. shell' = [shell EXCEPT ![s] = c] /\ UNCHANGED <<stands, disk>>
    BY <1>2 DEF BeginInit
  <2>2. Shell(c) /\ c.step = "checked"
    BY <1>1 DEF Shell, Busy
  <2> HIDE DEF c
  <2>3. FolderInv(stands, disk, [shell EXCEPT ![s] = c])
    BY <2>2, CommandRests DEF DirectoryInv
  <2> QED
    BY <2>1, <2>3 DEF DirectoryInv
<1>3. ASSUME NEW f \in Files, BeginInit(s, f), f \in stands PROVE DirectoryInv'
  BY <1>3, LeavingKeepsTheInvariant DEF BeginInit
<1>4. ASSUME NEW f \in Files, NEW kind \in {"supersede", "replace"}, BeginEdit(s, f, kind), f \in stands
      PROVE DirectoryInv'
  <2> DEFINE c == [shell[s] EXCEPT !.kind = kind, !.file = f, !.step = "read", !.text = disk[f]]
  <2>1. shell' = [shell EXCEPT ![s] = c] /\ UNCHANGED <<stands, disk>>
    BY <1>4 DEF BeginEdit
  <2>2. Shell(c) /\ c.step = "read" /\ c.file = f
    BY <1>1 DEF Shell, Busy
  <2> HIDE DEF c
  <2>3. FolderInv(stands, disk, [shell EXCEPT ![s] = c])
    BY <1>4, <2>2, CommandReads DEF DirectoryInv
  <2> QED
    BY <2>1, <2>3 DEF DirectoryInv
<1>5. ASSUME NEW f \in Files, NEW kind \in {"supersede", "replace"}, BeginEdit(s, f, kind), f \notin stands
      PROVE DirectoryInv'
  BY <1>5, LeavingKeepsTheInvariant DEF BeginEdit
<1>6. ASSUME CreateFile(s), shell[s].file \notin stands PROVE DirectoryInv'
  <2> DEFINE c == [shell[s] EXCEPT !.step = "opened"]
  <2>1. /\ shell' = [shell EXCEPT ![s] = c]
        /\ disk' = [disk EXCEPT ![shell[s].file] = Empty]
        /\ stands' = stands \cup {shell[s].file}
    BY <1>6 DEF CreateFile, To, Write
  <2>2. Shell(c) /\ Filling(c) /\ c.file = shell[s].file
    BY <1>1, <1>6 DEF CreateFile, Shell, Busy, Filling
  <2> HIDE DEF c
  <2>3. FolderInv(stands \cup {c.file}, [disk EXCEPT ![c.file] = Empty], [shell EXCEPT ![s] = c])
    BY <1>6, <2>2, InitOpens DEF DirectoryInv
  <2> QED
    BY <2>1, <2>2, <2>3 DEF DirectoryInv
<1>7. ASSUME CreateFile(s), shell[s].file \in stands PROVE DirectoryInv'
  BY <1>7, LeavingKeepsTheInvariant DEF CreateFile
<1>8. ASSUME LoadSource(s), Readable(disk[shell[s].file]) PROVE DirectoryInv'
  <2> DEFINE c == [shell[s] EXCEPT !.step = "parsed", !.view = disk[shell[s].file]]
  <2>1. shell' = [shell EXCEPT ![s] = c] /\ UNCHANGED <<stands, disk>>
    BY <1>8 DEF LoadSource
  <2>2. Shell(c) /\ c.step = "parsed" /\ c.file = shell[s].file
    BY <1>1, <1>8 DEF LoadSource, Shell, Busy
  <2>3. shell[s].file \in stands
    BY <1>8 DEF LoadSource, DirectoryInv, FolderInv, Found
  <2> HIDE DEF c
  <2>4. FolderInv(stands, disk, [shell EXCEPT ![s] = c])
    BY <1>8, <2>2, <2>3, CommandParses DEF DirectoryInv
  <2> QED
    BY <2>1, <2>4 DEF DirectoryInv
<1>9. ASSUME LoadSource(s), ~Readable(disk[shell[s].file]) PROVE DirectoryInv'
  BY <1>9, LeavingKeepsTheInvariant DEF LoadSource
<1>10. ASSUME Edit(s), shell[s].kind = "supersede" /\ ~Readable(shell[s].text) PROVE DirectoryInv'
  BY <1>10, LeavingKeepsTheInvariant DEF Edit
<1>11. ASSUME Edit(s), ~(shell[s].kind = "supersede" /\ ~Readable(shell[s].text)) PROVE DirectoryInv'
  <2> DEFINE edited == IF shell[s].kind = "supersede" THEN Superseded(s, shell[s].text, shell[s].view)
                       ELSE Replaced(s, shell[s].text, shell[s].view)
             c == [shell[s] EXCEPT !.step = "opened", !.text = edited]
  <2>1. /\ shell' = [shell EXCEPT ![s] = c]
        /\ disk' = [disk EXCEPT ![shell[s].file] = Empty]
        /\ UNCHANGED stands
    BY <1>11 DEF Edit, Write
  <2> HIDE DEF edited
  <2>2. Shell(c) /\ c.step = "opened" /\ c.file = shell[s].file /\ c.kind = shell[s].kind
    BY <1>1, <1>11 DEF Edit, Shell, Busy
  <2> HIDE DEF c
  <2>3. FolderInv(stands, [disk EXCEPT ![c.file] = Empty], [shell EXCEPT ![s] = c])
    BY <1>11, <2>2, EditOpens DEF DirectoryInv, Edit
  <2> QED
    BY <2>1, <2>2, <2>3 DEF DirectoryInv
<1>12. ASSUME Fill(s) PROVE DirectoryInv'
  <2> DEFINE c == [shell[s] EXCEPT !.step = "done", !.text = Empty, !.view = Empty]
             text == Over(shell[s].text, disk[shell[s].file])
  <2>1. /\ shell' = [shell EXCEPT ![s] = c]
        /\ disk' = [disk EXCEPT ![shell[s].file] = text]
        /\ UNCHANGED stands
    BY <1>12 DEF Fill, Write, Leave
  <2>2. Shell(c) /\ c.step = "done" /\ c.file = shell[s].file
    BY <1>1, LeftCommandIsAShell
  <2> HIDE DEF c, text
  <2>3. FolderInv(stands, [disk EXCEPT ![c.file] = text], [shell EXCEPT ![s] = c])
    BY <1>12, <2>2, CommandFills DEF DirectoryInv, Fill
  <2> QED
    BY <2>1, <2>2, <2>3 DEF DirectoryInv
<1>13. ASSUME Kill(s) PROVE DirectoryInv'
  BY <1>13, LeavingKeepsTheInvariant DEF Kill
<1> QED
  BY <1>2, <1>3, <1>4, <1>5, <1>6, <1>7, <1>8, <1>9, <1>10, <1>11, <1>12, <1>13 DEF Command

-----------------------------------------------------------------------------
(* The theorem.                                                            *)

LEMMA FoldersStartSafe == DirectoryInit => DirectoryInv
BY DEF DirectoryInit, DirectoryStarts, DirectoryInv, FolderInv, Typed, Found, Alone, Filling,
       Shell, Busy, Unused, Empty, Readable

LEMMA StepsKeepTheInvariant ==
  ASSUME DirectoryInv, [DirectoryNext]_directoryVars
  PROVE  DirectoryInv'
<1>1. CASE \E s \in Shells : Command(s)
  BY <1>1, CommandsKeepTheInvariant
<1>2. CASE UNCHANGED <<stands, disk, shell>>
  BY <1>2 DEF DirectoryInv
<1>3. Discover \/ (\E f \in Files : IndexFile(f)) \/ EndScan => UNCHANGED <<stands, disk, shell>>
  BY DEF Discover, IndexFile, EndScan
<1> QED
  BY <1>1, <1>2, <1>3 DEF DirectoryNext, Command, directoryVars

\* What a step of init leaves of a file that can be read.
LEMMA InitLeavesRecords ==
  ASSUME DirectoryInv, DirectoryNext, NEW s \in Shells, NEW f \in Files,
         shell'[s] # shell[s], shell'[s].kind = "init", Readable(disk[f])
  PROVE  disk'[f] = disk[f]
<1>1. PICK r \in Shells : Command(r)
  BY DEF DirectoryNext, Command, Discover, IndexFile, EndScan
<1>2. DOMAIN disk = Files /\ DOMAIN shell = Shells /\ Shell(shell[r])
  BY DEF DirectoryInv, FolderInv, Typed
<1>3. CASE UNCHANGED disk
  BY <1>3
<1>4. CASE CreateFile(r)
  <2>1. disk' = [disk EXCEPT ![shell[r].file] = Empty] \/ UNCHANGED disk
    BY <1>4 DEF CreateFile, Write
  <2>2. shell[r].file \notin stands \/ UNCHANGED disk
    BY <1>4 DEF CreateFile
  <2>3. f \in stands
    BY DEF DirectoryInv, FolderInv, Found
  <2> QED
    BY <1>2, <2>1, <2>2, <2>3
<1>5. CASE Edit(r)
  <2>1. shell[r].step = "parsed" /\ shell[r].kind # "init"
    BY <1>2, <1>5 DEF Edit, Shell
  <2>2. UNCHANGED disk \/ (r = s /\ shell'[s].kind = shell[s].kind)
    BY <1>2, <1>5 DEF Edit, Shell
  <2> QED
    BY <2>1, <2>2
<1>6. CASE Fill(r)
  <2>1. r = s /\ shell'[s].kind = shell[s].kind /\ shell[r].step = "opened"
    BY <1>2, <1>6 DEF Fill, Leave, Shell
  <2>2. ~Readable(disk[shell[r].file])
    BY <2>1 DEF DirectoryInv, FolderInv, Alone, Filling
  <2> QED
    BY <1>2, <1>6, <2>2 DEF Fill, Write
<1> QED
  BY <1>1, <1>3, <1>4, <1>5, <1>6 DEF Command, BeginInit, BeginEdit, LoadSource, Kill

\* `uwmd init` never takes a deal's record away, whatever commands run beside it
\* and wherever they are killed: "`wx` closes the race between the check and the
\* write".
THEOREM ScaffoldsReplaceNothing == DirectorySpec => ScaffoldNeverReplaces
<1>1. DirectoryInit => DirectoryInv
  BY FoldersStartSafe
<1>2. DirectoryInv /\ [DirectoryNext]_directoryVars => DirectoryInv'
  BY StepsKeepTheInvariant
<1>3. DirectoryInv /\ [DirectoryNext]_directoryVars =>
        [\A s \in Shells, f \in Files :
           (shell'[s] # shell[s] /\ shell'[s].kind = "init" /\ Readable(disk[f]))
             => disk'[f] = disk[f]]_directoryVars
  BY InitLeavesRecords DEF directoryVars
<1> QED
  BY <1>1, <1>2, <1>3, PTL DEF DirectorySpec, ScaffoldNeverReplaces

-----------------------------------------------------------------------------
(* The index.                                                              *)

\* An entry tells of a text that its file has had since the scan began.
IsOfTheScan(deal, texts) ==
  IF deal.valid THEN deal.text \in texts[deal.path]
  ELSE \E text \in texts[deal.path] : ~Readable(text)

\* Every file looked at so far has one entry, and a file's text of now is one of
\* those it has had.
ScanInv ==
  /\ DOMAIN scan = {"step", "found", "todo", "deals"}
  /\ DOMAIN disk = Files /\ DOMAIN held = Files /\ stands \subseteq Files
  /\ scan.found \subseteq Files /\ scan.todo \subseteq scan.found
  /\ \E S : scan.deals \in Seq(S)
  /\ scan.step = "idle" => scan.deals = <<>>
  /\ scan.step = "reading" => \A f \in Files : disk[f] \in held[f]
  /\ scan.step = "done" => scan.todo = {}
  /\ scan.step # "idle" =>
       {scan.deals[n].path : n \in DOMAIN scan.deals} = scan.found \ scan.todo
  /\ \A m, n \in DOMAIN scan.deals : scan.deals[m].path = scan.deals[n].path => m = n
  /\ \A n \in DOMAIN scan.deals : IsOfTheScan(scan.deals[n], held)

LEMMA ScansStart == DirectoryInit => ScanInv
<1> SUFFICES ASSUME DirectoryInit PROVE ScanInv
  OBVIOUS
<1>1. /\ stands \subseteq Files /\ DOMAIN disk = Files /\ DOMAIN held = Files
      /\ scan = [step |-> "idle", found |-> {}, todo |-> {}, deals |-> <<>>]
  BY DEF DirectoryInit, DirectoryStarts
<1>2. /\ DOMAIN scan = {"step", "found", "todo", "deals"} /\ scan.step = "idle"
      /\ scan.found = {} /\ scan.todo = {} /\ scan.deals = <<>>
  BY <1>1
<1>3. scan.deals \in Seq({}) /\ DOMAIN scan.deals = {}
  BY <1>2
<1>4. QED
  BY <1>1, <1>2, <1>3, Zenon DEF ScanInv

\* A text that a command writes is one more the file has had, if a scan is on.
LEMMA WritesKeepTheScan ==
  ASSUME ScanInv, UNCHANGED scan, stands' \subseteq Files,
         \/ UNCHANGED <<disk, held>>
         \/ \E f \in Files : \E text : Write(f, text)
  PROVE  ScanInv'
<1>1. CASE UNCHANGED <<disk, held>>
  BY <1>1, Zenon DEF ScanInv, IsOfTheScan
<1>2. ASSUME NEW f \in Files, NEW text, Write(f, text) PROVE ScanInv'
  <2>1. disk' = [disk EXCEPT ![f] = text]
        /\ held' = IF scan.step = "reading" THEN [held EXCEPT ![f] = @ \cup {text}] ELSE held
    BY <1>2, Zenon DEF Write
  <2>2. DOMAIN disk' = Files /\ DOMAIN held' = Files
    BY <2>1 DEF ScanInv
  <2>3. \A g \in Files : held[g] \subseteq held'[g]
    BY <2>1 DEF ScanInv
  <2>4. scan.step = "reading" => \A g \in Files : disk'[g] \in held'[g]
    BY <2>1 DEF ScanInv
  <2>5. ASSUME NEW n \in DOMAIN scan.deals PROVE IsOfTheScan(scan.deals[n], held')
    <3>1. scan.deals[n].path \in Files
      <4>1. scan.step # "idle"
        <5>1. DOMAIN <<>> = {}
          OBVIOUS
        <5> QED
          BY <5>1, Zenon DEF ScanInv
      <4> QED
        BY <4>1, Zenon DEF ScanInv
    <3>2. IsOfTheScan(scan.deals[n], held) /\ held[scan.deals[n].path] \subseteq held'[scan.deals[n].path]
      BY <2>3, <3>1, Zenon DEF ScanInv
    <3> QED
      BY <3>2, Zenon DEF IsOfTheScan
  <2> QED
    BY <2>2, <2>4, <2>5, Zenon DEF ScanInv
<1>3. QED
  BY <1>1, <1>2, Zenon

\* What a command may write.
LEMMA CommandsWrite ==
  ASSUME DirectoryInv, ScanInv, NEW s \in Shells, Command(s)
  PROVE  /\ UNCHANGED scan /\ stands' \subseteq Files
         /\ UNCHANGED <<disk, held>> \/ \E f \in Files : \E text : Write(f, text)
<1>1. Shell(shell[s]) /\ stands \subseteq Files
  BY Zenon DEF DirectoryInv, FolderInv, Typed, ScanInv
<1>2. ASSUME NEW f \in Files, NEW kind, BeginInit(s, f) \/ BeginEdit(s, f, kind)
      PROVE  UNCHANGED <<scan, stands, disk, held>>
  BY <1>2, Zenon DEF BeginInit, BeginEdit
<1>3. LoadSource(s) \/ Kill(s) => UNCHANGED <<scan, stands, disk, held>>
  BY Zenon DEF LoadSource, Kill
<1>4. CASE CreateFile(s)
  <2>1. shell[s].file \in Files
    BY <1>1, <1>4, Zenon DEF CreateFile, Shell, Busy
  <2> QED
    BY <1>1, <1>4, <2>1, Zenon DEF CreateFile
<1>5. CASE Edit(s)
  <2>1. shell[s].file \in Files
    BY <1>1, <1>5, Zenon DEF Edit, Shell, Busy
  <2> QED
    BY <1>1, <1>5, <2>1, Zenon DEF Edit
<1>6. CASE Fill(s)
  <2>1. shell[s].file \in Files
    BY <1>1, <1>6, Zenon DEF Fill, Shell, Busy
  <2> QED
    BY <1>1, <1>6, <2>1, Zenon DEF Fill
<1>7. QED
  BY <1>1, <1>2, <1>3, <1>4, <1>5, <1>6, Zenon DEF Command

LEMMA DiscoveryKeepsTheScan ==
  ASSUME ScanInv, Discover PROVE ScanInv'
<1>1. /\ scan.step = "idle"
      /\ scan' = [scan EXCEPT !.step = "reading", !.found = stands, !.todo = stands]
      /\ held' = [f \in Files |-> {disk[f]}] /\ UNCHANGED <<stands, disk>>
  BY Zenon DEF Discover
<1>2. /\ DOMAIN scan' = {"step", "found", "todo", "deals"} /\ scan'.step = "reading"
      /\ scan'.found = stands /\ scan'.todo = stands /\ scan'.deals = <<>>
  BY <1>1 DEF ScanInv
<1>3. scan'.deals \in Seq({}) /\ DOMAIN scan'.deals = {}
  BY <1>2
<1>4. DOMAIN held' = Files /\ \A f \in Files : disk[f] \in held'[f]
  BY <1>1
<1>5. /\ {scan'.deals[n].path : n \in DOMAIN scan'.deals} = {}
      /\ scan'.found \ scan'.todo = {}
  BY <1>2, <1>3
<1>6. /\ DOMAIN disk' = Files /\ stands' \subseteq Files
      /\ scan'.found \subseteq Files /\ scan'.todo \subseteq scan'.found
      /\ \A f \in Files : disk'[f] \in held'[f]
  BY <1>1, <1>2, <1>4, Zenon DEF ScanInv
<1>7. scan'.step # "idle" /\ scan'.step # "done"
  BY <1>2
<1>8. QED
  BY <1>2, <1>3, <1>4, <1>5, <1>6, <1>7, Zenon DEF ScanInv

\* The entry of one more file.
LEMMA IndexingKeepsTheScan ==
  ASSUME ScanInv, NEW f \in Files, IndexFile(f) PROVE ScanInv'
<1> DEFINE text == IF Readable(disk[f]) THEN disk[f] ELSE Empty
           deal == [path |-> f, valid |-> Readable(text), text |-> text]
<1>1. /\ scan.step = "reading" /\ f \in scan.todo
      /\ scan' = [scan EXCEPT !.todo = @ \ {f}, !.deals = @ \o <<deal>>]
      /\ UNCHANGED <<stands, disk, held>>
  BY Zenon DEF IndexFile, IndexOf, Deal
<1>2. /\ DOMAIN scan' = {"step", "found", "todo", "deals"} /\ scan'.step = "reading"
      /\ scan'.found = scan.found /\ scan'.todo = scan.todo \ {f}
      /\ scan'.deals = scan.deals \o <<deal>>
  BY <1>1 DEF ScanInv
<1>3. deal.path = f /\ IsOfTheScan(deal, held)
  <2>1. deal.path = f /\ (deal.valid <=> Readable(text)) /\ deal.text = text
    BY Zenon
  <2>2. disk[f] \in held[f] /\ ~Readable(Empty)
    BY <1>1 DEF ScanInv, Readable, Empty
  <2> HIDE DEF deal
  <2> QED
    BY <2>1, <2>2, Zenon DEF IsOfTheScan
<1> HIDE DEF deal
<1>4. PICK S : scan.deals \in Seq(S)
  BY Zenon DEF ScanInv
<1> DEFINE old == scan.deals
           new == scan'.deals
<1>5. /\ new \in Seq(S \cup {deal}) /\ Len(old) \in Nat
      /\ DOMAIN old = 1..Len(old) /\ DOMAIN new = 1..(Len(old) + 1)
      /\ \A n \in 1..Len(old) : new[n] = old[n]
      /\ new[Len(old) + 1] = deal
  <2>1. old \in Seq(S \cup {deal}) /\ Len(old) \in Nat /\ DOMAIN old = 1..Len(old)
    BY <1>4
  <2> HIDE DEF old
  <2> QED
    BY <1>2, <2>1 DEF old
<1> HIDE DEF old, new
<1>6. \A n \in DOMAIN new : n \in DOMAIN old \/ n = Len(old) + 1
  BY <1>5, SMT
<1>7. \A n \in DOMAIN old : n \in DOMAIN new
  BY <1>5, SMT
<1>8. Len(old) + 1 \in DOMAIN new
  BY <1>5, SMT
<1>9. f \notin {old[n].path : n \in DOMAIN old} /\ {old[n].path : n \in DOMAIN old} = scan.found \ scan.todo
  BY <1>1, Zenon DEF ScanInv, old
<1>10. {new[n].path : n \in DOMAIN new} = {old[n].path : n \in DOMAIN old} \cup {f}
  <2>1. \A n \in DOMAIN old : new[n] = old[n]
    BY <1>5, Zenon
  <2> QED
    BY <1>3, <1>5, <1>6, <1>7, <1>8, <2>1
<1>11. scan.found \ (scan.todo \ {f}) = (scan.found \ scan.todo) \cup {f}
  BY <1>1, Zenon DEF ScanInv
<1>12. \A m, n \in DOMAIN new : new[m].path = new[n].path => m = n
  <2>1. \A m, n \in DOMAIN old : old[m].path = old[n].path => m = n
    BY Zenon DEF ScanInv, old
  <2> QED
    BY <1>3, <1>5, <1>6, <1>9, <2>1, Zenon
<1>13. \A n \in DOMAIN new : IsOfTheScan(new[n], held)
  <2>1. \A n \in DOMAIN old : IsOfTheScan(old[n], held)
    BY Zenon DEF ScanInv, old
  <2> QED
    BY <1>3, <1>5, <1>6, <2>1, Zenon
<1>14. {new[n].path : n \in DOMAIN new} = scan'.found \ scan'.todo
  BY <1>2, <1>9, <1>10, <1>11, Zenon
<1>15. QED
  BY <1>1, <1>2, <1>5, <1>12, <1>13, <1>14, Zenon DEF ScanInv, new

LEMMA StepsKeepTheScan ==
  ASSUME DirectoryInv, ScanInv, [DirectoryNext]_directoryVars PROVE ScanInv'
<1>1. CASE \E s \in Shells : Command(s)
  BY <1>1, CommandsWrite, WritesKeepTheScan, Zenon
<1>2. CASE Discover
  BY <1>2, DiscoveryKeepsTheScan
<1>3. CASE \E f \in Files : IndexFile(f)
  BY <1>3, IndexingKeepsTheScan
<1>4. CASE EndScan
  <2>1. /\ scan.step = "reading" /\ scan.todo = {} /\ scan' = [scan EXCEPT !.step = "done"]
        /\ UNCHANGED <<stands, disk, held>>
    BY <1>4, Zenon DEF EndScan
  <2>2. /\ DOMAIN scan' = DOMAIN scan /\ scan'.step = "done" /\ scan'.found = scan.found
        /\ scan'.todo = scan.todo /\ scan'.deals = scan.deals
    BY <2>1 DEF ScanInv
  <2>3. "done" # "idle" /\ "done" # "reading" /\ "reading" # "idle"
    OBVIOUS
  <2>4. scan'.found \ scan'.todo = scan.found \ scan.todo
    BY <2>2
  <2>5. /\ {scan'.deals[n].path : n \in DOMAIN scan'.deals} = scan'.found \ scan'.todo
        /\ \A m, n \in DOMAIN scan'.deals : scan'.deals[m].path = scan'.deals[n].path => m = n
        /\ \A n \in DOMAIN scan'.deals : IsOfTheScan(scan'.deals[n], held')
    BY <2>1, <2>2, <2>3, <2>4 DEF ScanInv
  <2> QED
    BY <2>1, <2>2, <2>3, <2>5, Zenon DEF ScanInv
<1>5. CASE UNCHANGED directoryVars
  BY <1>5, Zenon DEF directoryVars, ScanInv, IsOfTheScan
<1> QED
  BY <1>1, <1>2, <1>3, <1>4, <1>5, Zenon DEF DirectoryNext, Command

\* Every deal that was there when the scan began has one entry in its index,
\* which tells how the file stood at some moment of the scan, whatever commands
\* ran meanwhile.
THEOREM IndexStaysOfTheScan == DirectorySpec => []IndexIsOfTheScan
<1>1. ScanInv => IndexIsOfTheScan
  <2> SUFFICES ASSUME ScanInv, scan.step = "done"
               PROVE  /\ {scan.deals[n].path : n \in DOMAIN scan.deals} = scan.found
                      /\ \A m, n \in DOMAIN scan.deals :
                           scan.deals[m].path = scan.deals[n].path => m = n
                      /\ \A n \in DOMAIN scan.deals : IsOfTheScan(scan.deals[n], held)
    BY Zenon DEF IndexIsOfTheScan, IsOfTheScan
  <2>1. scan.step # "idle"
    OBVIOUS
  <2> QED
    BY <2>1, Zenon DEF ScanInv
<1> QED
  BY <1>1, FoldersStartSafe, StepsKeepTheInvariant, ScansStart, StepsKeepTheScan,
     PTL DEF DirectorySpec

-----------------------------------------------------------------------------
(* Edits that do not meet.                                                 *)

Block == [by : Shells \cup {Origin}, revision : Nat, live : BOOLEAN]

\* A text after so many edits, so many of them supersedes.
Stacked(text, edits, marks) ==
  /\ DOMAIN text = {"front", "blocks"} /\ text.front = TRUE
  /\ text.blocks \in Seq(Block)
  /\ \A n \in 1..Len(text.blocks) : text.blocks[n].live <=> n = Len(text.blocks)
  /\ Len(text.blocks) = 1 + marks
  /\ text.blocks[1 + marks].revision = 1 + edits

LEMMA ScaffoldIsStacked ==
  ASSUME NEW s \in Shells \cup {Origin} PROVE Stacked(DealText(<<Version(s, 1)>>), 0, 0)
<1>1. Version(s, 1) \in Block /\ Version(s, 1).live = TRUE /\ Version(s, 1).revision = 1
  BY SMT DEF Version, Block
<1> DEFINE v == Version(s, 1)
<1> HIDE DEF v
<1>2. v \in Block /\ v.live = TRUE /\ v.revision = 1
  BY <1>1 DEF v
<1>3. /\ <<v>> \in Seq(Block) /\ Len(<<v>>) = 1 /\ <<v>>[1] = v
      /\ \A n \in 1..1 : n = 1
  BY <1>2, SMT
<1>4. /\ DOMAIN DealText(<<v>>) = {"front", "blocks"} /\ DealText(<<v>>).front = TRUE
      /\ DealText(<<v>>).blocks = <<v>>
  BY Zenon DEF DealText
<1>5. \A n \in 1..Len(<<v>>) : <<v>>[n].live <=> n = Len(<<v>>)
  BY <1>2, <1>3, Zenon
<1>6. 1 + 0 = 1
  BY SMT
<1>7. QED
  BY <1>2, <1>3, <1>4, <1>5, <1>6 DEF Stacked, v

\* What an edit finds in a stacked text: its last block is the live one.
LEMMA HeadIsLast ==
  ASSUME NEW text, NEW e \in Nat, NEW m \in Nat, Stacked(text, e, m)
  PROVE  LiveHead(text) = 1 + m
<1>1. 1 + m \in 1..(1 + m)
  BY SMT
<1>2. DOMAIN text.blocks = 1..(1 + m)
  BY SMT DEF Stacked
<1>3. {n \in DOMAIN text.blocks : text.blocks[n].live} = {1 + m}
  <2>1. \A n \in 1..(1 + m) : text.blocks[n].live <=> n = 1 + m
    BY Zenon DEF Stacked
  <2> QED
    BY <1>1, <1>2, <2>1
<1>4. LiveHead(text) = Max({1 + m})
  BY <1>3, Zenon DEF LiveHead
<1>5. QED
  BY <1>4, SMT DEF Max

LEMMA NextIsABlock ==
  ASSUME NEW text, NEW e \in Nat, NEW m \in Nat, Stacked(text, e, m), NEW s \in Shells
  PROVE  /\ NextVersion(s, text) \in Block
         /\ NextVersion(s, text).live = TRUE /\ NextVersion(s, text).revision = 1 + (e + 1)
<1>1. NextVersion(s, text) = Version(s, (1 + e) + 1)
  BY HeadIsLast, Zenon DEF NextVersion, Stacked
<1>2. (1 + e) + 1 \in Nat /\ (1 + e) + 1 = 1 + (e + 1)
  BY SMT
<1>3. QED
  BY <1>1, <1>2 DEF Version, Block

LEMMA SupersededIsStacked ==
  ASSUME NEW text, NEW e \in Nat, NEW m \in Nat, Stacked(text, e, m), NEW s \in Shells
  PROVE  Stacked(Superseded(s, text, text), e + 1, m + 1)
<1> DEFINE new == NextVersion(s, text)
           old == [n \in DOMAIN text.blocks |->
                     [text.blocks[n] EXCEPT !.live = @ /\ n # LiveHead(text)]]
           bs == Append(old, new)
<1>1. new \in Block /\ new.live = TRUE /\ new.revision = 1 + (e + 1)
  BY NextIsABlock, Zenon
<1>2. /\ DOMAIN text.blocks = 1..(1 + m) /\ \A n \in 1..(1 + m) : text.blocks[n] \in Block
  BY SMT DEF Stacked
<1>3. \A n \in 1..(1 + m) : text.blocks[n].live <=> n = 1 + m
  BY Zenon DEF Stacked
<1>4. \A n \in 1..(1 + m) :
        /\ old[n] = [text.blocks[n] EXCEPT !.live = @ /\ n # LiveHead(text)]
        /\ old[n] \in Block /\ old[n].live = FALSE
  <2> SUFFICES ASSUME NEW n \in 1..(1 + m)
               PROVE  /\ old[n] = [text.blocks[n] EXCEPT !.live = @ /\ n # LiveHead(text)]
                      /\ old[n] \in Block /\ old[n].live = FALSE
    OBVIOUS
  <2>1. old[n] = [text.blocks[n] EXCEPT !.live = @ /\ n # LiveHead(text)]
    BY <1>2, Zenon
  <2>2. (text.blocks[n].live /\ n # LiveHead(text)) = FALSE
    BY <1>3, HeadIsLast, Zenon
  <2>3. old[n] = [text.blocks[n] EXCEPT !.live = FALSE]
    BY <2>1, <2>2
  <2> HIDE DEF old
  <2>4. old[n] \in Block /\ old[n].live = FALSE
    BY <1>2, <2>3 DEF Block
  <2> QED
    BY <2>1, <2>4
<1>5. old = [n \in 1..(1 + m) |-> old[n]]
  BY <1>2
<1> HIDE DEF old, new
<1>6. old \in Seq(Block) /\ Len(old) = 1 + m
  BY <1>4, <1>5, SMT
<1>7. /\ bs \in Seq(Block) /\ Len(bs) = 1 + (m + 1)
      /\ \A n \in 1..(1 + m) : bs[n] = old[n]
      /\ bs[1 + (m + 1)] = new
  BY <1>1, <1>6, SMT
<1>8. Superseded(s, text, text) = [text EXCEPT !.blocks = bs]
  BY DEF Superseded, old, new
<1> HIDE DEF bs
<1>9. /\ DOMAIN Superseded(s, text, text) = {"front", "blocks"}
      /\ Superseded(s, text, text).front = TRUE /\ Superseded(s, text, text).blocks = bs
  BY <1>8 DEF Stacked
<1>10. \A n \in 1..(1 + (m + 1)) : (n \in 1..(1 + m) /\ n # 1 + (m + 1)) \/ n = 1 + (m + 1)
  BY SMT
<1>11. \A n \in 1..Len(bs) : bs[n].live <=> n = Len(bs)
  BY <1>1, <1>4, <1>7, <1>10, Zenon
<1>12. QED
  BY <1>1, <1>7, <1>9, <1>11, Zenon DEF Stacked

LEMMA ReplacedIsStacked ==
  ASSUME NEW text, NEW e \in Nat, NEW m \in Nat, Stacked(text, e, m), NEW s \in Shells
  PROVE  Stacked(Replaced(s, text, text), e + 1, m)
<1> DEFINE new == NextVersion(s, text)
           bs == [text.blocks EXCEPT ![1 + m] = new]
<1>1. new \in Block /\ new.live = TRUE /\ new.revision = 1 + (e + 1)
  BY NextIsABlock, Zenon
<1>2. 1 + m \in 1..(1 + m) /\ text.blocks \in Seq(Block) /\ Len(text.blocks) = 1 + m
      /\ DOMAIN text.blocks = 1..(1 + m)
  BY SMT DEF Stacked
<1>3. Replaced(s, text, text) = [text EXCEPT !.blocks = bs]
  BY <1>2, HeadIsLast DEF Replaced
<1> HIDE DEF new
<1>4. /\ bs \in Seq(Block) /\ Len(bs) = 1 + m /\ bs[1 + m] = new
      /\ \A n \in 1..(1 + m) : n # 1 + m => bs[n] = text.blocks[n]
  BY <1>1, <1>2, SMT
<1> HIDE DEF bs
<1>5. /\ DOMAIN Replaced(s, text, text) = {"front", "blocks"}
      /\ Replaced(s, text, text).front = TRUE /\ Replaced(s, text, text).blocks = bs
  BY <1>3 DEF Stacked
<1>6. \A n \in 1..Len(bs) : bs[n].live <=> n = Len(bs)
  BY <1>1, <1>2, <1>4, Zenon DEF Stacked
<1>7. QED
  BY <1>1, <1>4, <1>5, <1>6, Zenon DEF Stacked

\* Over an empty file a text is filled in as it is.
LEMMA FilledIsStacked ==
  ASSUME NEW text, NEW e \in Nat, NEW m \in Nat, Stacked(text, e, m)
  PROVE  Stacked(Over(text, Empty), e, m)
<1>1. text.blocks \in Seq(Block) /\ Len(text.blocks) \in Nat
  BY SMT DEF Stacked
<1>2. Empty.blocks = <<>> /\ Len(<<>>) = 0
  BY SMT DEF Empty
<1>3. SubSeq(<<>>, Len(text.blocks) + 1, 0) = <<>>
  BY <1>1, SMT
<1>4. text.blocks \o <<>> = text.blocks
  BY <1>1, SMT
<1>5. Over(text, Empty) = [text EXCEPT !.blocks = text.blocks]
  BY <1>2, <1>3, <1>4, Zenon DEF Over
<1>6. /\ DOMAIN Over(text, Empty) = DOMAIN text /\ Over(text, Empty).blocks = text.blocks
      /\ Over(text, Empty).front = text.front
  BY <1>5 DEF Stacked
<1>7. QED
  BY <1>6, Zenon DEF Stacked

EditKinds == {"supersede", "replace"}
Steps == Busy \cup {"idle", "done", "failed"}

At(c, f) == c.step \in Busy /\ c.file = f
Ended(c, f) == c.step = "done" /\ c.file = f
SameButAt(s, new, commands) == \A r \in Shells : r # s => new[r] = commands[r]
AwayButFor(s, commands, f) == \A r \in Shells : r # s => ~At(commands[r], f)
Edited(commands, f, kinds) ==
  {s \in Shells : commands[s].step = "done" /\ commands[s].file = f /\ commands[s].kind \in kinds}
CountOf(commands, f, kinds) == Cardinality(Edited(commands, f, kinds))
AddedBy(c, kinds) == IF c.kind \in kinds THEN 1 ELSE 0

\* What the one command at a file has in hand, by how far it is.
Holds(c, s, stood, text, edits, marks) ==
  /\ c.step = "checked" => c.file \notin stood /\ c.text = DealText(<<Version(s, 1)>>)
  /\ c.step \in {"read", "parsed"} => c.file \in stood /\ c.kind \in EditKinds /\ c.text = text
  /\ c.step = "parsed" => c.view = text
  /\ c.step = "opened" =>
       /\ c.file \in stood /\ text = Empty
       /\ Stacked(c.text, edits + AddedBy(c, EditKinds), marks + AddedBy(c, {"supersede"}))

\* A file no two commands met at: one command at most is at it, and between their
\* writes its text has every edit that is done.
FileStacks(f, stood, text, commands) ==
  /\ \A r, s \in Shells : At(commands[r], f) /\ At(commands[s], f) => r = s
  /\ f \notin stood => CountOf(commands, f, EditKinds) = 0 /\ CountOf(commands, f, {"supersede"}) = 0
  /\ \A s \in Shells : At(commands[s], f) =>
       Holds(commands[s], s, stood, text,
             CountOf(commands, f, EditKinds), CountOf(commands, f, {"supersede"}))
  /\ (f \in stood /\ \A s \in Shells : At(commands[s], f) => commands[s].step # "opened") =>
       Stacked(text, CountOf(commands, f, EditKinds), CountOf(commands, f, {"supersede"}))

StackInv ==
  /\ \A s \in Shells : shell[s].step \in Steps
  /\ \A f \in Files \ disturbed : FileStacks(f, stands, disk[f], shell)

LEMMA CountsAreNatural ==
  ASSUME NEW commands, NEW f, NEW kinds PROVE CountOf(commands, f, kinds) \in Nat
<1>1. Edited(commands, f, kinds) \in SUBSET Shells
  BY Zenon DEF Edited
<1>2. IsFiniteSet(Edited(commands, f, kinds))
  BY <1>1, ShellsAreFinite, FS_Subset, Zenon
<1>3. QED
  BY <1>2, FS_CardinalityType, Zenon DEF CountOf

\* A command that is not at its end before or after a step counts for nothing.
LEMMA CountsStay ==
  ASSUME NEW commands, NEW new, NEW s \in Shells, NEW f, NEW kinds,
         SameButAt(s, new, commands),
         ~Ended(commands[s], f), ~Ended(new[s], f)
  PROVE  CountOf(new, f, kinds) = CountOf(commands, f, kinds)
<1>1. \A r : r \in Edited(new, f, kinds) <=> r \in Edited(commands, f, kinds)
  BY Zenon DEF Edited, Ended, SameButAt
<1>2. Edited(new, f, kinds) = Edited(commands, f, kinds)
  BY <1>1, Zenon
<1>3. QED
  BY <1>2, Zenon DEF CountOf

\* A command that comes to its end counts from then on.
LEMMA CountsGrow ==
  ASSUME NEW commands, NEW new, NEW s \in Shells, NEW c, NEW f, NEW kinds,
         new[s] = c, SameButAt(s, new, commands),
         ~Ended(commands[s], f), Ended(c, f)
  PROVE  CountOf(new, f, kinds) = CountOf(commands, f, kinds) + AddedBy(c, kinds)
<1>1. new[s] = c /\ SameButAt(s, new, commands)
  OBVIOUS
<1>2. s \notin Edited(commands, f, kinds)
  BY Zenon DEF Edited, Ended, SameButAt
<1>3. IsFiniteSet(Edited(commands, f, kinds)) /\ CountOf(commands, f, kinds) \in Nat
  <2>1. Edited(commands, f, kinds) \in SUBSET Shells
    BY Zenon DEF Edited, Ended, SameButAt
  <2> QED
    BY <2>1, ShellsAreFinite, FS_Subset, CountsAreNatural, Zenon
<1>4. CASE c.kind \in kinds
  <2>1. \A r : r \in Edited(new, f, kinds) <=> r \in Edited(commands, f, kinds) \/ r = s
    BY <1>1, <1>4, Zenon DEF Edited, Ended, SameButAt
  <2>2. Edited(new, f, kinds) = Edited(commands, f, kinds) \cup {s}
    BY <2>1, Zenon
  <2>3. CountOf(new, f, kinds) = CountOf(commands, f, kinds) + 1
    BY <1>2, <1>3, <2>2, FS_AddElement, Zenon DEF CountOf
  <2> QED
    BY <1>4, <2>3, Zenon DEF AddedBy
<1>5. CASE c.kind \notin kinds
  <2>1. \A r : r \in Edited(new, f, kinds) <=> r \in Edited(commands, f, kinds)
    BY <1>1, <1>2, <1>5, Zenon DEF Edited, Ended, SameButAt
  <2>2. Edited(new, f, kinds) = Edited(commands, f, kinds)
    BY <2>1, Zenon
  <2>3. CountOf(new, f, kinds) = CountOf(commands, f, kinds) /\ AddedBy(c, kinds) = 0
    BY <1>5, <2>2, Zenon DEF CountOf, AddedBy
  <2> QED
    BY <1>3, <2>3, SMT
<1>6. QED
  BY <1>4, <1>5

\* A step of a command leaves other files, and those it is no longer at, stacked.
LEMMA OthersStayStacked ==
  ASSUME NEW f, NEW stood, NEW text, NEW commands, DOMAIN commands = Shells,
         FileStacks(f, stood, text, commands), NEW s \in Shells, NEW c,
         ~Ended(commands[s], f), ~Ended(c, f), ~At(c, f),
         At(commands[s], f) => commands[s].step # "opened"
  PROVE  FileStacks(f, stood, text, [commands EXCEPT ![s] = c])
<1> DEFINE new == [commands EXCEPT ![s] = c]
           e == CountOf(commands, f, EditKinds)
           m == CountOf(commands, f, {"supersede"})
<1>1. new[s] = c /\ SameButAt(s, new, commands)
  BY Zenon DEF SameButAt
<1>2. CountOf(new, f, EditKinds) = e /\ CountOf(new, f, {"supersede"}) = m
  <2>1. ~Ended(commands[s], f) /\ ~Ended(new[s], f)
    BY <1>1 DEF Ended
  <2> HIDE DEF new
  <2>2. ASSUME NEW kinds PROVE CountOf(new, f, kinds) = CountOf(commands, f, kinds)
    BY <1>1, <2>1, CountsStay
  <2> QED
    BY <2>2, Zenon
<1>3. \A r \in Shells : At(new[r], f) => r # s
  BY <1>1, Zenon
<1> HIDE DEF new
<1>4. \A q, r \in Shells : At(new[q], f) /\ At(new[r], f) => q = r
  BY <1>1, <1>3, Zenon DEF FileStacks, SameButAt
<1>5. f \notin stood => e = 0 /\ m = 0
  BY Zenon DEF FileStacks
<1>6. \A r \in Shells : At(new[r], f) => Holds(new[r], r, stood, text, e, m)
  BY <1>1, <1>3, Zenon DEF FileStacks, SameButAt
<1>7. (f \in stood /\ \A r \in Shells : At(new[r], f) => new[r].step # "opened") => Stacked(text, e, m)
  <2>1. ASSUME NEW r \in Shells, At(commands[r], f), \A q \in Shells : At(new[q], f) => new[q].step # "opened"
        PROVE  commands[r].step # "opened"
    BY <1>1, <2>1, Zenon DEF SameButAt, At
  <2> QED
    BY <2>1, Zenon DEF FileStacks
<1> HIDE DEF e, m
<1>8. FileStacks(f, stood, text, new)
  BY <1>2, <1>4, <1>5, <1>6, <1>7, Zenon DEF FileStacks
<1>9. QED
  BY <1>8 DEF new

\* The write of the one command at a file: its edit counts from then on.
LEMMA FillStaysStacked ==
  ASSUME NEW f, NEW stood, NEW text, NEW commands, DOMAIN commands = Shells,
         FileStacks(f, stood, text, commands), NEW s \in Shells, NEW c,
         At(commands[s], f), commands[s].step = "opened",
         c.step = "done", c.file = f, c.kind = commands[s].kind
  PROVE  FileStacks(f, stood, Over(commands[s].text, text), [commands EXCEPT ![s] = c])
<1> DEFINE new == [commands EXCEPT ![s] = c]
           e == CountOf(commands, f, EditKinds)
           m == CountOf(commands, f, {"supersede"})
           e2 == CountOf(new, f, EditKinds)
           m2 == CountOf(new, f, {"supersede"})
           out == Over(commands[s].text, text)
<1>1. new[s] = c /\ SameButAt(s, new, commands)
  BY Zenon DEF SameButAt
<1>2. e2 = e + AddedBy(commands[s], EditKinds) /\ m2 = m + AddedBy(commands[s], {"supersede"})
  <2>1. ~Ended(commands[s], f) /\ Ended(c, f)
    BY DEF Ended
  <2> HIDE DEF new
  <2> HIDE DEF e, m, e2, m2
  <2>4. ASSUME NEW kinds PROVE CountOf(new, f, kinds) = CountOf(commands, f, kinds) + AddedBy(c, kinds)
    BY <1>1, <2>1, CountsGrow
  <2>2. e2 = e + AddedBy(c, EditKinds) /\ m2 = m + AddedBy(c, {"supersede"})
    BY <2>4, Zenon DEF e, m, e2, m2
  <2>3. \A kinds : AddedBy(c, kinds) = AddedBy(commands[s], kinds)
    BY Zenon DEF AddedBy
  <2> QED
    BY <2>2, <2>3, Zenon
<1>3. e2 \in Nat /\ m2 \in Nat
  BY CountsAreNatural, Zenon
<1> HIDE DEF new, e2, m2
<1>4. f \in stood /\ text = Empty /\ Stacked(commands[s].text, e2, m2)
  <2>1. commands[s].file = f
    BY DEF At
  <2> QED
    BY <1>2, <2>1, Zenon DEF FileStacks, Holds
<1>5. Stacked(out, e2, m2)
  BY <1>3, <1>4, FilledIsStacked, Zenon
<1>6. \A r \in Shells : ~At(new[r], f)
  <2>1. ~At(c, f)
    BY DEF At, Busy
  <2> QED
    BY <1>1, <2>1, Zenon DEF FileStacks, SameButAt
<1> HIDE DEF out
<1>7. FileStacks(f, stood, out, new)
  BY <1>4, <1>5, <1>6, Zenon DEF FileStacks, e2, m2
<1>8. QED
  BY <1>7 DEF new, out
-----------------------------------------------------------------------------
(* The steps, and the files they leave stacked.                             *)

Edits(f) == CountOf(shell, f, EditKinds)
Marks(f) == CountOf(shell, f, {"supersede"})

\* The other files that are there do not matter.
LEMMA SameFileStacks ==
  ASSUME NEW f, NEW text, NEW commands, NEW stood, NEW stood2, f \in stood2 <=> f \in stood,
         FileStacks(f, stood, text, commands)
  PROVE  FileStacks(f, stood2, text, commands)
<1>1. \A r, e, m : At(commands[r], f) /\ Holds(commands[r], r, stood, text, e, m) =>
                  Holds(commands[r], r, stood2, text, e, m)
  BY Zenon DEF Holds, At
<1>2. QED
  BY <1>1, Zenon DEF FileStacks

\* A step of a command leaves every file but the command's own as it was.
LEMMA OwnFileSuffices ==
  ASSUME DirectoryInv, StackInv, NEW s \in Shells, NEW c, NEW f \in Files,
         shell' = [shell EXCEPT ![s] = c], c.step \in Steps, c.file = f,
         shell[s].step # "done", At(shell[s], shell[s].file) => shell[s].file = f,
         disturbed \subseteq disturbed',
         \A g \in Files : g # f => disk'[g] = disk[g] /\ (g \in stands' <=> g \in stands),
         f \notin disturbed' => FileStacks(f, stands', disk'[f], shell')
  PROVE  StackInv'
<1>1. DOMAIN shell = Shells
  BY DEF DirectoryInv, FolderInv, Typed
<1>2. \A r \in Shells : shell'[r].step \in Steps
  BY <1>1, Zenon DEF StackInv
<1>3. ASSUME NEW g \in Files \ disturbed' PROVE FileStacks(g, stands', disk'[g], shell')
  <2>1. CASE g = f
    BY <2>1, Zenon
  <2>2. CASE g # f
    <3>1. FileStacks(g, stands, disk[g], shell)
      BY Zenon DEF StackInv
    <3>2. ~Ended(shell[s], g) /\ ~Ended(c, g) /\ ~At(c, g)
      BY <2>2, Zenon DEF Ended, At
    <3>3. At(shell[s], g) => shell[s].step # "opened"
      BY <2>2, Zenon DEF At
    <3>4. FileStacks(g, stands, disk[g], [shell EXCEPT ![s] = c])
      BY <1>1, <3>1, <3>2, <3>3, OthersStayStacked
    <3>5. disk'[g] = disk[g] /\ (g \in stands' <=> g \in stands)
      BY <2>2, Zenon
    <3> QED
      BY <3>4, <3>5, SameFileStacks
  <2> QED
    BY <2>1, <2>2
<1> QED
  BY <1>2, <1>3, Zenon DEF StackInv

\* The same for a command that is still at its file: what it has in hand, and the
\* text there, are those of the file.
LEMMA CommandStaysStacked ==
  ASSUME DirectoryInv, StackInv, NEW s \in Shells, NEW c, NEW f \in Files,
         shell' = [shell EXCEPT ![s] = c], c.step \in Busy, c.file = f,
         shell[s].step # "done", At(shell[s], shell[s].file) => shell[s].file = f,
         disturbed \subseteq disturbed', stands \subseteq stands',
         \A g \in Files : g # f => disk'[g] = disk[g] /\ (g \in stands' <=> g \in stands),
         f \notin disturbed' =>
           /\ AwayButFor(s, shell, f)
           /\ Holds(c, s, stands', disk'[f], Edits(f), Marks(f))
           /\ (f \in stands' /\ c.step # "opened") => Stacked(disk'[f], Edits(f), Marks(f))
  PROVE  StackInv'
<1>1. DOMAIN shell = Shells
  BY DEF DirectoryInv, FolderInv, Typed
<1>2. c.step \in Steps /\ c.step # "done"
  BY DEF Steps, Busy
<1>3. shell'[s] = c /\ SameButAt(s, shell', shell)
  BY <1>1, Zenon DEF SameButAt
<1>4. ASSUME f \notin disturbed' PROVE FileStacks(f, stands', disk'[f], shell')
  <2> DEFINE e == CountOf(shell, f, EditKinds)
             m == CountOf(shell, f, {"supersede"})
  <2>1. FileStacks(f, stands, disk[f], shell)
    BY <1>4, Zenon DEF StackInv
  <2>2. /\ AwayButFor(s, shell, f)
        /\ Holds(c, s, stands', disk'[f], e, m)
        /\ (f \in stands' /\ c.step # "opened") => Stacked(disk'[f], e, m)
    BY <1>4, Zenon DEF Edits, Marks
  <2>3. ~Ended(shell[s], f) /\ ~Ended(shell'[s], f)
    BY <1>2, <1>3, Zenon DEF Ended
  <2>4. CountOf(shell', f, EditKinds) = e /\ CountOf(shell', f, {"supersede"}) = m
    <3>1. \A old, new, kinds : SameButAt(s, new, old) /\ ~Ended(old[s], f) /\ ~Ended(new[s], f) =>
            CountOf(new, f, kinds) = CountOf(old, f, kinds)
      BY CountsStay
    <3>2. SameButAt(s, shell', shell)
      BY <1>3, Zenon
    <3>3. \A kinds : CountOf(shell', f, kinds) = CountOf(shell, f, kinds)
      BY <2>3, <3>1, <3>2, Zenon
    <3> QED
      BY <3>3, Zenon
  <2>5. At(c, f) /\ \A r \in Shells : At(shell'[r], f) => r = s
    BY <1>3, <2>2, Zenon DEF SameButAt, AwayButFor, At
  <2>6. f \notin stands' => e = 0 /\ m = 0
    BY <2>1, Zenon DEF FileStacks
  <2>7. \A r \in Shells : At(shell'[r], f) => Holds(shell'[r], r, stands', disk'[f], e, m)
    BY <1>3, <2>2, <2>5, Zenon
  <2>8. (f \in stands' /\ \A r \in Shells : At(shell'[r], f) => shell'[r].step # "opened") =>
          Stacked(disk'[f], e, m)
    BY <1>3, <2>2, <2>5, Zenon
  <2> HIDE DEF e, m
  <2> QED
    BY <2>4, <2>5, <2>6, <2>7, <2>8, Zenon DEF FileStacks
<1> QED
  BY <1>2, <1>4, OwnFileSuffices

\* A command that fails, refuses or is killed: at an opened file it disturbs it.
LEMMA LeavingStaysStacked ==
  ASSUME DirectoryInv, StackInv, NEW s \in Shells, Leave(s, "failed"), UNCHANGED <<stands, disk>>,
         shell[s].step # "done", disturbed \subseteq disturbed',
         shell[s].step = "opened" => shell[s].file \in disturbed'
  PROVE  StackInv'
<1> DEFINE c == [shell[s] EXCEPT !.step = "failed", !.text = Empty, !.view = Empty]
<1>1. DOMAIN shell = Shells /\ Shell(shell[s])
  BY DEF DirectoryInv, FolderInv, Typed
<1>2. c.step = "failed"
  BY <1>1, LeftCommandIsAShell
<1>3. shell' = [shell EXCEPT ![s] = c]
  BY DEF Leave
<1> HIDE DEF c
<1>4. c.step \in Steps /\ c.step # "done" /\ c.step \notin Busy
  BY <1>2 DEF Steps, Busy
<1>5. \A r \in Shells : shell'[r].step \in Steps
  BY <1>1, <1>3, <1>4, Zenon DEF StackInv
<1>6. ASSUME NEW f \in Files \ disturbed' PROVE FileStacks(f, stands', disk'[f], shell')
  <2>1. FileStacks(f, stands, disk[f], shell)
    BY Zenon DEF StackInv
  <2>2. ~Ended(shell[s], f) /\ ~Ended(c, f) /\ ~At(c, f)
    BY <1>4, Zenon DEF Ended, At
  <2>3. At(shell[s], f) => shell[s].step # "opened"
    BY Zenon DEF At
  <2>4. FileStacks(f, stands, disk[f], [shell EXCEPT ![s] = c])
    BY <1>1, <2>1, <2>2, <2>3, OthersStayStacked
  <2> QED
    BY <1>3, <2>4, Zenon
<1> QED
  BY <1>5, <1>6, Zenon DEF StackInv

\* A command that begins at a file no two meet at is alone there.
LEMMA BeginnersAreAlone ==
  ASSUME StackInv, NEW s \in Shells, NEW f, Meet(s, f)
  PROVE  /\ disturbed \subseteq disturbed'
         /\ f \notin disturbed' => AwayButFor(s, shell, f)
<1>1. \A r \in Shells : At(shell[r], f) => Active(r) /\ shell[r].file = f
  BY DEF At, Active, Busy
<1>2. (\E r \in Shells \ {s} : Active(r) /\ shell[r].file = f) => disturbed' = disturbed \cup {f}
  BY Zenon DEF Meet
<1>3. disturbed' = disturbed \cup {f} \/ disturbed' = disturbed
  BY Zenon DEF Meet
<1> QED
  BY <1>1, <1>2, <1>3, Zenon DEF AwayButFor

\* A command that is at a file no two met at is alone there, and knows its text.
LEMMA WorkersAreAlone ==
  ASSUME DirectoryInv, StackInv, NEW s \in Shells, NEW f \in Files, At(shell[s], f), f \notin disturbed
  PROVE  /\ AwayButFor(s, shell, f)
         /\ Holds(shell[s], s, stands, disk[f], Edits(f), Marks(f))
         /\ (f \in stands /\ shell[s].step # "opened") => Stacked(disk[f], Edits(f), Marks(f))
         /\ f \notin stands => Edits(f) = 0 /\ Marks(f) = 0
         /\ Edits(f) \in Nat /\ Marks(f) \in Nat
<1>1. FileStacks(f, stands, disk[f], shell)
  BY Zenon DEF StackInv
<1>2. AwayButFor(s, shell, f)
  BY <1>1, Zenon DEF FileStacks, AwayButFor
<1>3. Holds(shell[s], s, stands, disk[f], Edits(f), Marks(f))
  BY <1>1, Zenon DEF FileStacks, Edits, Marks
<1>4. (f \in stands /\ shell[s].step # "opened") => Stacked(disk[f], Edits(f), Marks(f))
  BY <1>1, <1>2, Zenon DEF FileStacks, Edits, Marks, AwayButFor
<1>5. f \notin stands => Edits(f) = 0 /\ Marks(f) = 0
  BY <1>1, Zenon DEF FileStacks, Edits, Marks
<1>6. Edits(f) \in Nat /\ Marks(f) \in Nat
  BY CountsAreNatural, Zenon DEF Edits, Marks
<1> QED
  BY <1>2, <1>3, <1>4, <1>5, <1>6
\* A command leaves every file that no two met at stacked, one step at a time.
LEMMA CommandsKeepFilesStacked ==
  ASSUME DirectoryInv, StackInv, NEW s \in Shells, Command(s)
  PROVE  StackInv'
<1>1. Shell(shell[s]) /\ DOMAIN disk = Files
  BY DEF DirectoryInv, FolderInv, Typed
<1>2. ASSUME NEW f \in Files, BeginInit(s, f), f \notin stands PROVE StackInv'
  <2> DEFINE c == [shell[s] EXCEPT !.kind = "init", !.file = f, !.step = "checked",
                                   !.text = DealText(<<Version(s, 1)>>)]
  <2>1. shell' = [shell EXCEPT ![s] = c] /\ stands' = stands /\ disk' = disk
    BY <1>2 DEF BeginInit
  <2>2. c.step = "checked" /\ c.file = f /\ c.text = DealText(<<Version(s, 1)>>)
    BY <1>1 DEF Shell
  <2>3. shell[s].step = "idle" /\ Meet(s, f)
    BY <1>2 DEF BeginInit
  <2> HIDE DEF c
  <2>4. Holds(c, s, stands', disk'[f], Edits(f), Marks(f))
    BY <1>2, <2>1, <2>2, Zenon DEF Holds
  <2>5. c.step \in Busy /\ ~At(shell[s], shell[s].file) /\ shell[s].step # "done"
    BY <2>2, <2>3 DEF Busy, At
  <2>6. disturbed \subseteq disturbed' /\ (f \notin disturbed' => AwayButFor(s, shell, f))
    BY <2>3, BeginnersAreAlone, Zenon
  <2> QED
    BY <1>2, <2>1, <2>2, <2>4, <2>5, <2>6, CommandStaysStacked
<1>3. ASSUME NEW f \in Files, NEW kind \in {"supersede", "replace"}, BeginEdit(s, f, kind), f \in stands
      PROVE StackInv'
  <2> DEFINE c == [shell[s] EXCEPT !.kind = kind, !.file = f, !.step = "read", !.text = disk[f]]
  <2>1. shell' = [shell EXCEPT ![s] = c] /\ stands' = stands /\ disk' = disk
    BY <1>3 DEF BeginEdit
  <2>2. c.step = "read" /\ c.file = f /\ c.text = disk[f] /\ c.kind \in EditKinds
    BY <1>1 DEF Shell, EditKinds
  <2>3. shell[s].step = "idle" /\ Meet(s, f)
    BY <1>3 DEF BeginEdit
  <2> HIDE DEF c
  <2>4. Holds(c, s, stands', disk'[f], Edits(f), Marks(f))
    BY <1>3, <2>1, <2>2 DEF Holds
  <2>5. c.step \in Busy /\ ~At(shell[s], f) /\ ~At(shell[s], shell[s].file) /\ shell[s].step # "done"
    BY <2>2, <2>3 DEF Busy, At
  <2>6. disturbed \subseteq disturbed' /\ (f \notin disturbed' => AwayButFor(s, shell, f))
    BY <2>3, BeginnersAreAlone, Zenon
  <2>7. f \notin disturbed' => Stacked(disk[f], Edits(f), Marks(f))
    <3> SUFFICES ASSUME f \notin disturbed' PROVE Stacked(disk[f], Edits(f), Marks(f))
      OBVIOUS
    <3>1. FileStacks(f, stands, disk[f], shell)
      BY <2>6, Zenon DEF StackInv
    <3>2. \A r \in Shells : ~At(shell[r], f)
      BY <2>5, <2>6, Zenon DEF AwayButFor
    <3> QED
      BY <1>3, <3>1, <3>2, Zenon DEF FileStacks, Edits, Marks
  <2> QED
    BY <2>1, <2>2, <2>4, <2>5, <2>6, <2>7, CommandStaysStacked
<1>4. ASSUME CreateFile(s), shell[s].file \notin stands PROVE StackInv'
  <2> DEFINE f == shell[s].file
             c == [shell[s] EXCEPT !.step = "opened"]
  <2>1. shell' = [shell EXCEPT ![s] = c] /\ disk' = [disk EXCEPT ![f] = Empty]
        /\ stands' = stands \cup {f} /\ disturbed' = disturbed
    BY <1>4 DEF CreateFile, To, Write
  <2>2. c.step = "opened" /\ c.file = f /\ c.text = shell[s].text /\ c.kind = "init"
    BY <1>1, <1>4 DEF CreateFile, Shell
  <2>3. shell[s].step = "checked" /\ f \in Files /\ At(shell[s], f)
    BY <1>1, <1>4 DEF CreateFile, Shell, Busy, At
  <2> HIDE DEF c, f
  <2>4. f \notin stands
    BY <1>4 DEF f
  <2>5. c.step \in Busy /\ shell[s].step # "done"
    BY <2>2, <2>3 DEF Busy
  <2>6. disk'[f] = Empty /\ \A g \in Files : g # f => disk'[g] = disk[g] /\ (g \in stands' <=> g \in stands)
    BY <1>1, <2>1, <2>3, Zenon
  <2>7. ASSUME f \notin disturbed'
        PROVE  AwayButFor(s, shell, f) /\ Holds(c, s, stands', disk'[f], Edits(f), Marks(f))
    <3>1. /\ AwayButFor(s, shell, f) /\ Holds(shell[s], s, stands, disk[f], Edits(f), Marks(f))
          /\ Edits(f) = 0 /\ Marks(f) = 0
      BY <2>1, <2>3, <2>4, <2>7, WorkersAreAlone, Zenon
    <3>2. shell[s].text = DealText(<<Version(s, 1)>>)
      BY <2>3, <3>1, Zenon DEF Holds
    <3>3. AddedBy(c, EditKinds) = 0 /\ AddedBy(c, {"supersede"}) = 0 /\ 0 + 0 = 0
      BY <2>2, SMT DEF AddedBy, EditKinds
    <3>4. Stacked(c.text, Edits(f) + AddedBy(c, EditKinds), Marks(f) + AddedBy(c, {"supersede"}))
      BY <2>2, <3>1, <3>2, <3>3, ScaffoldIsStacked, Zenon
    <3> QED
      BY <2>1, <2>2, <2>6, <3>1, <3>4 DEF Holds
  <2> QED
    BY <2>1, <2>2, <2>3, <2>5, <2>6, <2>7, CommandStaysStacked DEF f
<1>5. ASSUME LoadSource(s), Readable(disk[shell[s].file]) PROVE StackInv'
  <2> DEFINE f == shell[s].file
             c == [shell[s] EXCEPT !.step = "parsed", !.view = disk[shell[s].file]]
  <2>1. shell' = [shell EXCEPT ![s] = c] /\ disk' = disk /\ stands' = stands /\ disturbed' = disturbed
    BY <1>5 DEF LoadSource
  <2>2. /\ c.step = "parsed" /\ c.file = f /\ c.text = shell[s].text /\ c.kind = shell[s].kind
        /\ c.view = disk[f]
    BY <1>1, <1>5 DEF LoadSource, Shell
  <2>3. shell[s].step = "read" /\ f \in Files /\ At(shell[s], f)
    BY <1>1, <1>5 DEF LoadSource, Shell, Busy, At
  <2> HIDE DEF c
  <2>4. f \in stands
    BY <1>5 DEF LoadSource, DirectoryInv, FolderInv, Found
  <2> HIDE DEF f
  <2>5. c.step \in Busy /\ c.step # "opened" /\ shell[s].step # "done" /\ shell[s].step # "opened"
    BY <2>2, <2>3 DEF Busy
  <2>6. ASSUME f \notin disturbed'
        PROVE  /\ AwayButFor(s, shell, f) /\ Holds(c, s, stands', disk'[f], Edits(f), Marks(f))
               /\ Stacked(disk'[f], Edits(f), Marks(f))
    <3>1. /\ AwayButFor(s, shell, f) /\ Holds(shell[s], s, stands, disk[f], Edits(f), Marks(f))
          /\ Stacked(disk[f], Edits(f), Marks(f))
      BY <2>1, <2>3, <2>4, <2>5, <2>6, WorkersAreAlone, Zenon
    <3>2. shell[s].kind \in EditKinds /\ shell[s].text = disk[f]
      BY <2>3, <3>1 DEF Holds
    <3> QED
      BY <2>1, <2>2, <2>4, <3>1, <3>2 DEF Holds
  <2> QED
    BY <2>1, <2>2, <2>3, <2>5, <2>6, CommandStaysStacked DEF f
<1>6. ASSUME Edit(s), ~(shell[s].kind = "supersede" /\ ~Readable(shell[s].text)) PROVE StackInv'
  <2> DEFINE f == shell[s].file
             edited == IF shell[s].kind = "supersede" THEN Superseded(s, shell[s].text, shell[s].view)
                       ELSE Replaced(s, shell[s].text, shell[s].view)
             c == [shell[s] EXCEPT !.step = "opened", !.text = edited]
  <2>1. /\ shell' = [shell EXCEPT ![s] = c] /\ disk' = [disk EXCEPT ![f] = Empty]
        /\ stands' = stands /\ disturbed' = disturbed
    BY <1>6 DEF Edit, Write
  <2> HIDE DEF edited
  <2>2. c.step = "opened" /\ c.file = f /\ c.text = edited /\ c.kind = shell[s].kind
    BY <1>1, <1>6 DEF Edit, Shell
  <2>3. shell[s].step = "parsed" /\ f \in Files /\ At(shell[s], f)
    BY <1>1, <1>6 DEF Edit, Shell, Busy, At
  <2> HIDE DEF c
  <2>4. f \in stands
    BY <1>6 DEF Edit, DirectoryInv, FolderInv, Found
  <2> HIDE DEF f
  <2>5. c.step \in Busy /\ shell[s].step # "done" /\ shell[s].step # "opened"
    BY <2>2, <2>3 DEF Busy
  <2>6. disk'[f] = Empty /\ \A g \in Files : g # f => disk'[g] = disk[g] /\ (g \in stands' <=> g \in stands)
    BY <1>1, <2>1, <2>3, Zenon
  <2>7. ASSUME f \notin disturbed'
        PROVE  AwayButFor(s, shell, f) /\ Holds(c, s, stands', disk'[f], Edits(f), Marks(f))
    <3>1. /\ AwayButFor(s, shell, f) /\ Holds(shell[s], s, stands, disk[f], Edits(f), Marks(f))
          /\ Stacked(disk[f], Edits(f), Marks(f)) /\ Edits(f) \in Nat /\ Marks(f) \in Nat
      BY <2>1, <2>3, <2>4, <2>5, <2>7, WorkersAreAlone, Zenon
    <3>2. shell[s].kind \in EditKinds /\ shell[s].text = disk[f] /\ shell[s].view = disk[f]
      BY <2>3, <3>1 DEF Holds
    <3>3. Stacked(c.text, Edits(f) + AddedBy(c, EditKinds), Marks(f) + AddedBy(c, {"supersede"}))
      <4>1. CASE shell[s].kind = "supersede"
        <5>1. edited = Superseded(s, disk[f], disk[f])
          BY <3>2, <4>1 DEF edited
        <5>2. AddedBy(c, EditKinds) = 1 /\ AddedBy(c, {"supersede"}) = 1
          BY <2>2, <4>1 DEF AddedBy, EditKinds
        <5> QED
          BY <2>2, <3>1, <5>1, <5>2, SupersededIsStacked, Zenon
      <4>2. CASE shell[s].kind = "replace"
        <5>1. edited = Replaced(s, disk[f], disk[f])
          BY <3>2, <4>2 DEF edited
        <5>2. AddedBy(c, EditKinds) = 1 /\ AddedBy(c, {"supersede"}) = 0 /\ Marks(f) + 0 = Marks(f)
          BY <2>2, <3>1, <4>2 DEF AddedBy, EditKinds
        <5> QED
          BY <2>2, <3>1, <5>1, <5>2, ReplacedIsStacked, Zenon
      <4> QED
        BY <3>2, <4>1, <4>2, Zenon DEF EditKinds
    <3> QED
      BY <2>1, <2>2, <2>4, <2>6, <3>1, <3>3 DEF Holds
  <2> QED
    BY <2>1, <2>2, <2>3, <2>5, <2>6, <2>7, CommandStaysStacked DEF f
<1>7. ASSUME Fill(s) PROVE StackInv'
  <2> DEFINE f == shell[s].file
             c == [shell[s] EXCEPT !.step = "done", !.text = Empty, !.view = Empty]
             text == Over(shell[s].text, disk[f])
  <2>1. /\ shell' = [shell EXCEPT ![s] = c] /\ disk' = [disk EXCEPT ![f] = text]
        /\ stands' = stands /\ disturbed' = disturbed
    BY <1>7 DEF Fill, Write, Leave
  <2>2. c.step = "done" /\ c.file = f /\ c.kind = shell[s].kind
    BY <1>1, LeftCommandIsAShell
  <2>3. shell[s].step = "opened" /\ f \in Files /\ At(shell[s], f)
    BY <1>1, <1>7 DEF Fill, Shell, Busy, At
  <2> HIDE DEF c
  <2>4. c.step \in Steps /\ shell[s].step # "done"
    BY <2>2, <2>3 DEF Steps
  <2>5. DOMAIN shell = Shells
    BY DEF DirectoryInv, FolderInv, Typed
  <2>6. disk'[f] = text /\ \A g \in Files : g # f => disk'[g] = disk[g] /\ (g \in stands' <=> g \in stands)
    BY <1>1, <2>1, <2>3, Zenon
  <2>7. ASSUME f \notin disturbed' PROVE FileStacks(f, stands', disk'[f], shell')
    <3>1. FileStacks(f, stands, disk[f], shell)
      BY <2>1, <2>3, <2>7, Zenon DEF StackInv
    <3> HIDE DEF f
    <3>2. FileStacks(f, stands, text, [shell EXCEPT ![s] = c])
      BY <2>2, <2>3, <2>5, <3>1, FillStaysStacked
    <3> QED
      BY <2>1, <2>6, <3>2, Zenon
  <2> HIDE DEF text
  <2> QED
    BY <2>1, <2>2, <2>3, <2>4, <2>6, <2>7, OwnFileSuffices
<1>8. ASSUME Leave(s, "failed"), UNCHANGED <<stands, disk, disturbed>>,
             shell[s].step \in {"checked", "read", "parsed"}
      PROVE StackInv'
  BY <1>8, LeavingStaysStacked
<1>9. ASSUME NEW f \in Files, Meet(s, f), Leave(s, "failed"), UNCHANGED <<stands, disk>>,
             shell[s].step = "idle"
      PROVE StackInv'
  <2>1. disturbed \subseteq disturbed'
    BY <1>9, BeginnersAreAlone, Zenon
  <2> QED
    BY <1>9, <2>1, LeavingStaysStacked
<1>10. ASSUME Kill(s) PROVE StackInv'
  <2>1. /\ shell[s].step # "done" /\ disturbed \subseteq disturbed'
        /\ shell[s].step = "opened" => shell[s].file \in disturbed'
    BY <1>10 DEF Kill, Active
  <2> QED
    BY <1>10, <2>1, LeavingStaysStacked DEF Kill
<1>11. ASSUME NEW f \in Files, NEW kind \in {"supersede", "replace"}, BeginInit(s, f) \/ BeginEdit(s, f, kind)
       PROVE StackInv'
  BY <1>2, <1>3, <1>9, <1>11 DEF BeginInit, BeginEdit
<1>12. ASSUME CreateFile(s) PROVE StackInv'
  BY <1>4, <1>8, <1>12 DEF CreateFile
<1>13. ASSUME LoadSource(s) PROVE StackInv'
  BY <1>5, <1>8, <1>13 DEF LoadSource
<1>14. ASSUME Edit(s) PROVE StackInv'
  BY <1>6, <1>8, <1>14 DEF Edit
<1> QED
  BY <1>7, <1>10, <1>11, <1>12, <1>13, <1>14, Zenon DEF Command

LEMMA FoldersStartStacked == DirectoryInit => StackInv
<1> SUFFICES ASSUME DirectoryInit PROVE StackInv
  OBVIOUS
<1>1. \A s \in Shells : shell[s].step = "idle"
  BY DEF DirectoryInit, DirectoryStarts, Unused
<1>2. \A s \in Shells, f \in Files : ~At(shell[s], f) /\ shell[s].step # "done" /\ shell[s].step \in Steps
  BY <1>1 DEF At, Busy, Steps
<1>3. \A f \in Files : f \in stands => disk[f] = Original
  BY DEF DirectoryInit, DirectoryStarts
<1>4. Stacked(Original, 0, 0)
  BY ScaffoldIsStacked, Zenon DEF Original
<1>5. ASSUME NEW f \in Files, NEW kinds PROVE CountOf(shell, f, kinds) = 0
  <2>1. Edited(shell, f, kinds) = {}
    BY <1>2, Zenon DEF Edited
  <2> QED
    BY <2>1, FS_EmptySet, Zenon DEF CountOf
<1>6. ASSUME NEW f \in Files PROVE FileStacks(f, stands, disk[f], shell)
  <2>1. CountOf(shell, f, EditKinds) = 0 /\ CountOf(shell, f, {"supersede"}) = 0
    BY <1>5, Zenon
  <2> QED
    BY <1>2, <1>3, <1>4, <2>1, Zenon DEF FileStacks
<1>7. \A s \in Shells : shell[s].step \in Steps
  BY <1>1 DEF Steps
<1> QED
  BY <1>6, <1>7, Zenon DEF StackInv

LEMMA StepsKeepFilesStacked ==
  ASSUME DirectoryInv, StackInv, [DirectoryNext]_directoryVars
  PROVE  StackInv'
<1>1. CASE \E s \in Shells : Command(s)
  BY <1>1, CommandsKeepFilesStacked
<1>2. CASE UNCHANGED <<stands, disk, shell, disturbed>>
  <2>1. /\ \A s \in Shells : shell'[s].step \in Steps
        /\ \A f \in Files \ disturbed' : FileStacks(f, stands', disk'[f], shell')
    BY <1>2, Zenon DEF StackInv
  <2> QED
    BY <2>1, Zenon DEF StackInv
<1>3. Discover \/ (\E f \in Files : IndexFile(f)) \/ EndScan =>
        UNCHANGED <<stands, disk, shell, disturbed>>
  BY DEF Discover, IndexFile, EndScan
<1> QED
  BY <1>1, <1>2, <1>3 DEF DirectoryNext, Command, directoryVars

\* What the invariant says of a file that no command is at.
LEMMA StackedFilesStack == StackInv => SeparateEditsStack
<1> SUFFICES ASSUME StackInv, NEW f \in Files \ disturbed, f \in stands,
                    ~\E s \in Shells : Active(s) /\ shell[s].file = f
             PROVE  LET blocks == disk[f].blocks
                    IN /\ Readable(disk[f])
                       /\ \A n \in DOMAIN blocks : blocks[n].live <=> n = Len(blocks)
                       /\ blocks[Len(blocks)].revision = 1 + Cardinality(Done(f, {"supersede", "replace"}))
                       /\ Len(blocks) = 1 + Cardinality(Done(f, {"supersede"}))
  BY Zenon DEF SeparateEditsStack
<1> DEFINE e == CountOf(shell, f, EditKinds)
           m == CountOf(shell, f, {"supersede"})
<1>1. \A s \in Shells : ~At(shell[s], f)
  BY DEF At, Active, Busy
<1>2. Stacked(disk[f], e, m)
  BY <1>1, Zenon DEF StackInv, FileStacks
<1>3. e = Cardinality(Done(f, {"supersede", "replace"})) /\ m = Cardinality(Done(f, {"supersede"}))
  BY Zenon DEF CountOf, Edited, Done, EditKinds
<1>4. e \in Nat /\ m \in Nat
  BY CountsAreNatural, Zenon
<1> HIDE DEF e, m
<1>5. DOMAIN disk[f].blocks = 1..Len(disk[f].blocks)
  BY <1>2, SMT DEF Stacked
<1>6. /\ Readable(disk[f])
      /\ \A n \in DOMAIN disk[f].blocks : disk[f].blocks[n].live <=> n = Len(disk[f].blocks)
      /\ disk[f].blocks[Len(disk[f].blocks)].revision = 1 + e
      /\ Len(disk[f].blocks) = 1 + m
  BY <1>2, <1>5, Zenon DEF Stacked, Readable
<1> QED
  BY <1>3, <1>6, Zenon

\* Edits no two of which met at a file, and none of which was killed while it
\* wrote there, lose nothing, though no command has a lock: whatever is done to
\* the other files, and wherever the other commands fail.
THEOREM SeparateEditsStayStacked == DirectorySpec => []SeparateEditsStack
BY FoldersStartSafe, StepsKeepTheInvariant, FoldersStartStacked, StepsKeepFilesStacked,
   StackedFilesStack, PTL DEF DirectorySpec
=============================================================================
