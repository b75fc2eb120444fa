----------------------------- MODULE DealState -----------------------------
(***************************************************************************)
(* useDeal of the web editor (tools/web-editor state.ts): the deal that is   *)
(* open, its undo and redo stacks, and the text the diff and the unsaved     *)
(* marker compare with. One action per callback; React renders between two  *)
(* user events, so each runs on the state the one before has set.           *)
(*                                                                         *)
(* A text is the file it was begun as and the edits made to it since; an     *)
(* edit always changes a revision or a timestamp. Texts that differ in a     *)
(* timestamp only are one text. A Lite file stands for what it compiles to. *)
(***************************************************************************)
EXTENDS Integers, Sequences, SequencesExt, FiniteSets

CONSTANTS
  Files,         \* files that are there to be opened
  Sample,        \* the file that `?sample=` names, one of Files
  Scaffold,      \* what generateBlankUWFile begins a new deal with
  Ops,           \* edits
  None,          \* no deal is open; the empty string of originalSource
  HistoryLimit,  \* 50: how many states `past` keeps
  MaxEdits,      \* bound on the edits of a text
  MaxSaved       \* bound on the files there are

ASSUME HistoryLimitIsPositive == HistoryLimit \in Nat \ {0}
ASSUME BoundsAreNaturals == MaxEdits \in Nat /\ MaxSaved \in Nat
ASSUME SampleIsAFile == Sample \in Files
ASSUME NoneIsNoFile == None \notin Files \cup {Scaffold}

VARIABLES
  loaded,    \* the text that is open, or None
  past,      \* texts to undo to, the latest last
  future,    \* texts to redo to, the next first
  original,  \* originalSource
  tab,       \* the tab App shows; edits are dispatched from "edit" only
  fetching,  \* the fetch of the sample has not been answered yet
  disk       \* the texts that exist as files

dealVars == <<loaded, past, future, original, tab, fetching, disk>>

Tabs == {"edit", "receipt"}
Begun(f) == [file |-> f, edits |-> <<>>]
Text == [file : Files \cup {Scaffold}, edits : Seq(Ops)]

Dirty == loaded # None /\ loaded # original

DealTypeOK ==
  /\ loaded \in Text \cup {None}
  /\ past \in Seq(Text) /\ future \in Seq(Text)
  /\ original \in Text \cup {None}
  /\ tab \in Tabs /\ fetching \in BOOLEAN
  /\ disk \subseteq Text

-----------------------------------------------------------------------------
(* The callbacks.                                                          *)

\* The last n items of the stack.
Latest(stack, n) == SubSeq(stack, IF Len(stack) > n THEN Len(stack) - n + 1 ELSE 1,
                           Len(stack))

Show(text, clean) ==
  /\ loaded' = text
  /\ original' = clean
  /\ past' = <<>> /\ future' = <<>>

\* handleFile, once file.text() has resolved. A file that does not parse or
\* compile leaves the deal, and only the tab changes.
OpenFile ==
  /\ \/ \E t \in disk : Show(t, t)
     \/ UNCHANGED <<loaded, past, future, original>>
  /\ tab' = "edit"
  /\ UNCHANGED <<fetching, disk>>

\* The answer to the fetch of the sample, whatever has been opened since; the
\* tab is left as it is.
LoadSample ==
  /\ fetching
  /\ fetching' = FALSE
  /\ \/ Show(Begun(Sample), Begun(Sample))
     \/ UNCHANGED <<loaded, past, future, original>>
  /\ UNCHANGED <<tab, disk>>

\* Mutant of NewDeal: loadFile alone, which takes the scaffold for saved.
NewDealSaved ==
  /\ Show(Begun(Scaffold), Begun(Scaffold))
  /\ tab' = "edit"
  /\ UNCHANGED <<fetching, disk>>

\* newDeal: the scaffold exists nowhere else, so originalSource is emptied.
NewDeal ==
  /\ Show(Begun(Scaffold), None)
  /\ tab' = "edit"
  /\ UNCHANGED <<fetching, disk>>

\* applyOp, when runEdit accepts: a refused edit only sets the status line.
ApplyOp ==
  /\ loaded # None /\ tab = "edit" /\ Len(loaded.edits) < MaxEdits
  /\ \E op \in Ops : loaded' = [loaded EXCEPT !.edits = Append(@, op)]
  /\ past' = Append(Latest(past, HistoryLimit - 1), loaded)
  /\ future' = <<>>
  /\ UNCHANGED <<original, tab, fetching, disk>>

Undo ==
  /\ past # <<>> /\ loaded # None
  /\ loaded' = Last(past)
  /\ past' = Front(past)
  /\ future' = <<loaded>> \o future
  /\ UNCHANGED <<original, tab, fetching, disk>>

\* redo does not trim `past`.
Redo ==
  /\ future # <<>> /\ loaded # None
  /\ loaded' = Head(future)
  /\ future' = Tail(future)
  /\ past' = Append(past, loaded)
  /\ UNCHANGED <<original, tab, fetching, disk>>

\* downloadUWX: the text becomes a file, and the one to compare with.
Download ==
  /\ loaded # None
  /\ Cardinality(disk \cup {loaded}) <= MaxSaved
  /\ disk' = disk \cup {loaded}
  /\ original' = loaded
  /\ UNCHANGED <<loaded, past, future, tab, fetching>>

SelectTab ==
  /\ loaded # None
  /\ tab' \in Tabs \ {tab}
  /\ UNCHANGED <<loaded, past, future, original, fetching, disk>>

DealInit ==
  /\ loaded = None /\ past = <<>> /\ future = <<>> /\ original = None
  /\ tab = "edit" /\ fetching \in BOOLEAN
  /\ disk = {Begun(f) : f \in Files}

DealNext == OpenFile \/ LoadSample \/ NewDeal \/ ApplyOp \/ Undo \/ Redo
              \/ Download \/ SelectTab

DealSpec == DealInit /\ [][DealNext]_dealVars

-----------------------------------------------------------------------------
(* Properties.                                                             *)

\* A deal without the unsaved marker exists as a file, whatever was undone,
\* redone or begun since the last download.
CleanMeansSaved == loaded # None /\ ~Dirty => loaded \in disk
=============================================================================
