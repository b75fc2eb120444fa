------------------------------ MODULE Envelope ------------------------------
(***************************************************************************)
(* A parsed file written back as Markdown: toUWEnvelope gathers its views     *)
(* into an envelope, stringifyUWX lays the blocks out section by section and *)
(* reads its own text again, refusing a text that would not give the same    *)
(* envelope (@uwmd/verify envelope.ts and lite-bridge.ts).                    *)
(*                                                                         *)
(* A block is named by its place in the file that was read: two blocks are    *)
(* never taken for the same one.                                            *)
(***************************************************************************)
EXTENDS Parser

CONSTANT
  Unrendered   \* the text before stringifyUWX returns

VARIABLE
  rendered     \* what stringifyUWX returned: Unrendered, Refused, or the blocks in order

envelopeVars == <<vars, rendered>>

-----------------------------------------------------------------------------
(* The envelope. Members of an object have no order, elements of a list do;  *)
(* the records of an extension are kept sorted by their variant, null first. *)

Envelope(views) == [views EXCEPT !.entry = [s \in DOMAIN @ |-> ToSet(@[s])]]

-----------------------------------------------------------------------------
(* stringifyUWX. Sections, and the variants of a section, are laid out in     *)
(* the order of their names; SetToSeq stands for that order.                *)

Blocks(members) == [n \in DOMAIN members |-> members[n][2]]

InOrder(sections, list) ==
  FlattenSeq([n \in DOMAIN SetToSeq(sections) |-> list[SetToSeq(sections)[n]]])

LayOutEntries(e) ==
  InOrder(Standard, [s \in Standard |-> Blocks(SetToSeq(e.entry[s]))])
    \o InOrder(ExtensionSections, [s \in ExtensionSections |-> Blocks(SetToSeq(e.entry[s]))])

\* Mutant of LayOut: history is an option (includeSuperseded, now refused).
LayOutCurrent(e) == LayOutEntries(e) \o InOrder(AppendOnly, e.appended)

LayOut(e) ==
  InOrder(Sections \ AppendOnly, e.superseded) \o LayOutEntries(e) \o InOrder(AppendOnly, e.appended)

\* parseUWFile of the text, its blocks named as in the file that was read.
Reread(text) ==
  LET views == Route([n \in DOMAIN text |-> scanned[text[n]]])
      named(list) == [n \in DOMAIN list |-> text[list[n]]]
  IN [entry      |-> [s \in DOMAIN views.entry |->
                        [n \in DOMAIN views.entry[s] |->
                           <<views.entry[s][n][1], text[views.entry[s][n][2]]>>]],
      superseded |-> [s \in DOMAIN views.superseded |-> named(views.superseded[s])],
      appended   |-> [s \in DOMAIN views.appended |-> named(views.appended[s])]]

\* Mutant of Reprojects: the history is left out of the comparison.
ReprojectsCurrent(text, e) == Envelope(Reread(text)).entry = e.entry

Reprojects(text, e) == Envelope(Reread(text)) = e

\* UWX_MODEL_NOT_REPRESENTABLE when the text would change the model.
Stringify ==
  /\ result \notin {Unparsed, Refused} /\ rendered = Unrendered
  /\ LET e == Envelope(result) IN
       rendered' = IF Reprojects(LayOut(e), e) THEN LayOut(e) ELSE Refused
  /\ UNCHANGED vars

EnvelopeInit == Init /\ rendered = Unrendered
EnvelopeNext == (Next /\ UNCHANGED rendered) \/ Stringify

-----------------------------------------------------------------------------
Text == [n \in DOMAIN rendered |-> scanned[rendered[n]]]
Rendered == rendered \notin {Unrendered, Refused}

\* A text that was returned is the record it was made from: it has every block
\* once, and its reader finds the same canonical blocks and the same history in
\* the same order, whatever order the file had them in.
RenderedTextIsTheRecord ==
  Rendered =>
    /\ Len(rendered) = Len(scanned) /\ ToSet(rendered) = DOMAIN scanned
    /\ \A s \in Sections \ AppendOnly :
         /\ {rendered[n] : n \in HeadsOf(Text, s)} = HeadsOf(scanned, s)
         /\ LET history == Archive(Text, s)
            IN [n \in DOMAIN history |-> rendered[history[n]]] = Archive(scanned, s)

\* Only a file that leaves history unmarked can be refused: when every block but
\* the last of its section and variant says that it is superseded, as the editor
\* and the runner leave it, the record can be written as Markdown.
MarkedHistoryRenders ==
  rendered = Refused =>
    \E i, j \in Live(scanned) : i < j /\ Compete(scanned, i, j)

=============================================================================
