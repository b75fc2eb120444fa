------------------------------ MODULE Directory ------------------------------
(***************************************************************************)
(* A folder of deals: `uwmd init` and `uwmd edit` (@uwmd/core cli.ts) write   *)
(* the files, without a lock, while indexUWMDDirectory (@uwmd/batch) reads    *)
(* them. writeFileSync truncates a file before it fills it, and a process     *)
(* may be killed in between.                                                *)
(*                                                                         *)
(* A file is its frontmatter and the revisions of one section; what an edit   *)
(* does to a whole document is module Editor.                               *)
(***************************************************************************)
EXTENDS Integers, Sequences, SequencesExt, FiniteSets

CONSTANTS
  Files,
  Shells,     \* processes, one command each
  Commands,   \* the <<process, command, file>> that may be given
  Origin      \* who wrote the files that were there before

ASSUME ShellsAreFinite == IsFiniteSet(Shells)

VARIABLES
  stands,     \* the files that exist
  disk,       \* by file: its text
  shell,      \* by process: its command, how far it is, what it has read
  disturbed,  \* the files two commands were at together, or one was killed at
  scan,       \* the index: the files still to read, and their entries
  held        \* by file: the texts it has had since the scan began

directoryVars == <<stands, disk, shell, disturbed, scan, held>>

Version(s, n) == [by |-> s, revision |-> n, live |-> TRUE]
DealText(blocks) == [front |-> TRUE, blocks |-> blocks]
Empty == [front |-> FALSE, blocks |-> <<>>]

\* UNSUPPORTED_FORMAT_VERSION: a text without frontmatter is not read.
Readable(text) == text.front

-----------------------------------------------------------------------------
(* applyEdit of a text, by the line numbers of a view that was read later.    *)

LiveHead(view) == Max({n \in DOMAIN view.blocks : view.blocks[n].live})
NextVersion(s, view) == Version(s, view.blocks[LiveHead(view)].revision + 1)

\* Mutant of Superseded: the head is not marked.
SupersededUnmarked(s, text, view) ==
  [text EXCEPT !.blocks = Append(@, NextVersion(s, view))]

\* The head is marked where the view has it, the new block goes to the end.
Superseded(s, text, view) ==
  [text EXCEPT !.blocks =
     Append([n \in DOMAIN text.blocks |-> [text.blocks[n] EXCEPT !.live = @ /\ n # LiveHead(view)]],
            NextVersion(s, view))]

\* The lines of the head are replaced; past the end of the text they are added.
Replaced(s, text, view) ==
  [text EXCEPT !.blocks = IF LiveHead(view) \in DOMAIN @
                          THEN [@ EXCEPT ![LiveHead(view)] = NextVersion(s, view)]
                          ELSE Append(@, NextVersion(s, view))]

-----------------------------------------------------------------------------
(* The commands. Steps go "idle", then through the reads to "opened" (the    *)
(* file is truncated), and end in "done" or "failed".                        *)

Active(s) == shell[s].step \notin {"idle", "done", "failed"}
To(s, step) == shell' = [shell EXCEPT ![s].step = step]
Leave(s, step) == shell' = [shell EXCEPT ![s] = [@ EXCEPT !.step = step, !.text = Empty, !.view = Empty]]
Write(f, text) ==
  /\ disk' = [disk EXCEPT ![f] = text]
  /\ held' = IF scan.step = "reading" THEN [held EXCEPT ![f] = @ \cup {text}] ELSE held

\* Two commands on one file.
Meet(s, f) ==
  disturbed' = IF \E r \in Shells \ {s} : Active(r) /\ shell[r].file = f
               THEN disturbed \cup {f} ELSE disturbed

\* init: existsSync, and a refusal to overwrite.
BeginInit(s, f) ==
  /\ shell[s].step = "idle" /\ Meet(s, f)
  /\ IF f \in stands THEN Leave(s, "failed")
     ELSE shell' = [shell EXCEPT ![s] = [@ EXCEPT !.kind = "init", !.file = f, !.step = "checked",
                                                  !.text = DealText(<<Version(s, 1)>>)]]
  /\ UNCHANGED <<stands, disk, scan, held>>

\* Mutant of CreateFile: the flag is 'w'.
CreateFileAnyway(s) ==
  /\ shell[s].step = "checked"
  /\ To(s, "opened") /\ Write(shell[s].file, Empty)
  /\ stands' = stands \cup {shell[s].file}
  /\ UNCHANGED <<disturbed, scan>>

\* writeFileSync with the flag 'wx'.
CreateFile(s) ==
  /\ shell[s].step = "checked"
  /\ IF shell[s].file \notin stands
     THEN /\ To(s, "opened") /\ Write(shell[s].file, Empty)
          /\ stands' = stands \cup {shell[s].file}
     ELSE Leave(s, "failed") /\ UNCHANGED <<stands, disk, held>>
  /\ UNCHANGED <<disturbed, scan>>

\* edit: the text, read at once ...
BeginEdit(s, f, kind) ==
  /\ shell[s].step = "idle" /\ Meet(s, f)
  /\ IF f \notin stands THEN Leave(s, "failed")
     ELSE shell' = [shell EXCEPT ![s] = [@ EXCEPT !.kind = kind, !.file = f, !.step = "read",
                                                  !.text = disk[f]]]
  /\ UNCHANGED <<stands, disk, scan, held>>

\* ... and the source, read again by loadEditableUWXFile.
LoadSource(s) ==
  /\ shell[s].step = "read"
  /\ LET found == disk[shell[s].file] IN
       IF Readable(found)
       THEN shell' = [shell EXCEPT ![s].step = "parsed", ![s].view = found]
       ELSE Leave(s, "failed")
  /\ UNCHANGED <<stands, disk, disturbed, scan, held>>

\* A supersede reads the marked text again before it inserts: a text without
\* frontmatter stops it. A replace does not look.
Edit(s) ==
  /\ shell[s].step = "parsed"
  /\ LET text == shell[s].text
         view == shell[s].view
     IN IF shell[s].kind = "supersede" /\ ~Readable(text)
        THEN Leave(s, "failed") /\ UNCHANGED <<disk, held>>
        ELSE /\ shell' = [shell EXCEPT ![s].step = "opened",
                            ![s].text = IF shell[s].kind = "supersede"
                                        THEN Superseded(s, text, view)
                                        ELSE Replaced(s, text, view)]
             /\ Write(shell[s].file, Empty)
  /\ UNCHANGED <<stands, disturbed, scan>>

\* The text is written from the start of the file, over what another command has
\* put there meanwhile: the end of a longer text stays.
Over(text, old) ==
  [text EXCEPT !.blocks = @ \o SubSeq(old.blocks, Len(@) + 1, Len(old.blocks))]

Fill(s) ==
  /\ shell[s].step = "opened"
  /\ Write(shell[s].file, Over(shell[s].text, disk[shell[s].file])) /\ Leave(s, "done")
  /\ UNCHANGED <<stands, disturbed, scan>>

Kill(s) ==
  /\ Active(s) /\ Leave(s, "failed")
  /\ disturbed' = IF shell[s].step = "opened" THEN disturbed \cup {shell[s].file} ELSE disturbed
  /\ UNCHANGED <<stands, disk, scan, held>>

-----------------------------------------------------------------------------
(* indexUWMDDirectory.                                                      *)

Discover ==
  /\ scan.step = "idle"
  /\ scan' = [scan EXCEPT !.step = "reading", !.found = stands, !.todo = stands]
  /\ held' = [f \in Files |-> {disk[f]}]
  /\ UNCHANGED <<stands, disk, shell, disturbed>>

Deal(f, text) == <<[path |-> f, valid |-> Readable(text), text |-> text]>>

\* Mutant of IndexOf: a file that cannot be read is left out.
IndexOfReadable(f) == IF Readable(disk[f]) THEN Deal(f, disk[f]) ELSE <<>>

\* indexFile: whatever goes wrong with a file becomes its entry.
IndexOf(f) == Deal(f, IF Readable(disk[f]) THEN disk[f] ELSE Empty)

IndexFile(f) ==
  /\ scan.step = "reading" /\ f \in scan.todo
  /\ scan' = [scan EXCEPT !.todo = @ \ {f}, !.deals = @ \o IndexOf(f)]
  /\ UNCHANGED <<stands, disk, shell, disturbed, held>>

EndScan ==
  /\ scan.step = "reading" /\ scan.todo = {}
  /\ scan' = [scan EXCEPT !.step = "done"]
  /\ UNCHANGED <<stands, disk, shell, disturbed, held>>

-----------------------------------------------------------------------------
Original == DealText(<<Version(Origin, 1)>>)
Unused == [kind |-> "none", file |-> CHOOSE f \in Files : TRUE, step |-> "idle",
           text |-> Empty, view |-> Empty]

DirectoryStarts(present) ==
  /\ stands = present
  /\ disk = [f \in Files |-> IF f \in present THEN Original ELSE Empty]
  /\ shell = [s \in Shells |-> Unused]
  /\ disturbed = {}
  /\ scan = [step |-> "idle", found |-> {}, todo |-> {}, deals |-> <<>>]
  /\ held = [f \in Files |-> {}]

DirectoryInit == \E present \in SUBSET Files : DirectoryStarts(present)

DirectoryNext ==
  \/ \E s \in Shells, f \in Files :
       \/ <<s, "init", f>> \in Commands /\ BeginInit(s, f)
       \/ \E kind \in {"supersede", "replace"} : <<s, kind, f>> \in Commands /\ BeginEdit(s, f, kind)
  \/ \E s \in Shells : CreateFile(s) \/ LoadSource(s) \/ Edit(s) \/ Fill(s) \/ Kill(s)
  \/ Discover \/ (\E f \in Files : IndexFile(f)) \/ EndScan

DirectorySpec == DirectoryInit /\ [][DirectoryNext]_directoryVars

-----------------------------------------------------------------------------
Done(f, kinds) == {s \in Shells : shell[s].step = "done" /\ shell[s].file = f /\ shell[s].kind \in kinds}

\* cli.ts 631-634: "A scaffold must never replace an existing record ... `wx`
\* closes the race between the check and the write", and nothing but an edit
\* that got as far as writing takes a record away.
ScaffoldNeverReplaces ==
  [][\A s \in Shells, f \in Files :
       (shell'[s] # shell[s] /\ shell'[s].kind = "init" /\ Readable(disk[f]))
         => disk'[f] = disk[f]]_directoryVars

\* Edits that do not meet stack up: the file has one live block, the last one; its
\* revision counts every edit, and every superseded block is still there.
\* (Edits that meet, or are killed, may lose a revision or the deal: the command
\* has no lock.)
SeparateEditsStack ==
  \A f \in Files \ disturbed :
    (f \in stands /\ ~\E s \in Shells : Active(s) /\ shell[s].file = f) =>
      LET blocks == disk[f].blocks
      IN /\ Readable(disk[f])
         /\ \A n \in DOMAIN blocks : blocks[n].live <=> n = Len(blocks)
         /\ blocks[Len(blocks)].revision = 1 + Cardinality(Done(f, {"supersede", "replace"}))
         /\ Len(blocks) = 1 + Cardinality(Done(f, {"supersede"}))

\* Every deal that was there is listed once; one that nobody wrote is listed as it
\* is, and one that was being written as it stood at some moment of the scan or as
\* invalid because it could not be read at one.
IndexIsOfTheScan ==
  scan.step = "done" =>
    /\ {scan.deals[n].path : n \in DOMAIN scan.deals} = scan.found
    /\ \A m, n \in DOMAIN scan.deals : scan.deals[m].path = scan.deals[n].path => m = n
    /\ \A n \in DOMAIN scan.deals :
         LET deal == scan.deals[n]
         IN IF deal.valid THEN deal.text \in held[deal.path]
            ELSE \E text \in held[deal.path] : ~Readable(text)
=============================================================================
