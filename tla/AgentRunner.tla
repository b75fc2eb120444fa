---------------------------- MODULE AgentRunner ----------------------------
(***************************************************************************)
(* The other writer of a document: a host that runs agents writes their      *)
(* output with writeAgentBlock and their failures with writeErrorEntry       *)
(* (@uwmd/core runner.ts), between the edits of Editor. It consults no        *)
(* policy, stamps no integrity and maintains no gaps, and it starts the log    *)
(* where there is none.                                                     *)
(*                                                                         *)
(* The caller builds _meta (buildMeta); it is taken to give the revision     *)
(* after that of the block it supersedes.                                   *)
(***************************************************************************)
EXTENDS EditorProperties

CONSTANTS
  RunTargets,   \* the <<section, variant>> pairs agents write
  Runner,       \* the source of their blocks
  Toolkit,      \* the source 'system/uwmd' of a log that is started
  Success,      \* the log entry of a run, by target
  Failure       \* the log entry of a failed run, by target

ASSUME RunsAreAddressed == RunTargets \subseteq Standard \X (Variants \cup {NoVariant})
ASSUME RunnersAreSources == Runner \in Sources /\ Toolkit \in Sources
ASSUME EntriesAreLogged == {Success, Failure} \subseteq [RunTargets -> Entries]

\* Mutants of AppendRunEntry: the entries that are there are written over;
\* without a log nothing is logged.
AppendOverLog(d, entry) ==
  LET logs == LogBlocks(d)
  IN IF logs = {} THEN d ELSE ReplaceAt(d, Max(logs), [d[Max(logs)] EXCEPT !.body = {entry}])
AppendToOldLog(d, entry) == IF LogBlocks(d) = {} THEN d ELSE AppendLogEntry(d, entry)

\* appendPipelineLogEntry: on the last log block, or on a new one at the end.
AppendRunEntry(d, entry) ==
  IF LogBlocks(d) = {}
  THEN Append(d, [section |-> PipelineLog, variant |-> NoVariant, source |-> Toolkit,
                  revision |-> 1, superseded |-> FALSE, role |-> FALSE,
                  body |-> {entry}, hash |-> Absent, parent |-> Absent])
  ELSE AppendLogEntry(d, entry)

\* The block of a run. What the agent says of _role and _overrides is dropped;
\* the role of the block before stays.
RunBlock(d, h, t, body) ==
  [section |-> t[1], variant |-> t[2], source |-> Runner, revision |-> NextRevision(d, h),
   superseded |-> FALSE, role |-> h # 0 /\ d[h].role, body |-> body,
   hash |-> Absent, parent |-> Absent]

\* Mutant of WriteAgentBlock: the log is rewritten at the lines the first parse
\* gave, where the new block is by now.
WriteAtOldLines(d, t, body) ==
  LET h == Lookup(d, t[1], t[2])
      inserted == InsertAt(MarkSuperseded(d, h), InsertionPoint(d), RunBlock(d, h, t, body))
  IN IF LogBlocks(d) = {} THEN AppendRunEntry(inserted, Success[t])
     ELSE ReplaceAt(inserted, Max(LogBlocks(d)), AppendRunEntry(d, Success[t])[Max(LogBlocks(d))])

\* The block found is marked, the new one goes before the first log block, and
\* the entry to the last log block of the text parsed again.
WriteAgentBlock(d, t, body) ==
  LET h == Lookup(d, t[1], t[2])
  IN AppendRunEntry(
       InsertAt(MarkSuperseded(d, h), InsertionPoint(d), RunBlock(d, h, t, body)), Success[t])

RunAgent ==
  /\ WithinBounds
  /\ \E t \in RunTargets : \E body \in BodiesOf(t[1]) : doc' = WriteAgentBlock(doc, t, body)
  /\ code' = "ok" /\ UNCHANGED stage

\* writeErrorEntry
RecordFailure ==
  /\ WithinBounds
  /\ \E t \in RunTargets : doc' = AppendRunEntry(doc, Failure[t])
  /\ code' = "ok" /\ UNCHANGED stage

RunnerNext == Next \/ RunAgent \/ RecordFailure
RunnerSpec == Init /\ [][RunnerNext]_vars

-----------------------------------------------------------------------------
(* Properties.                                                             *)

\* "Every successful agent write MUST append a pipeline_log entry" (agent
\* writers guide IX.5): a block of a run and the entry of that run are in the
\* document together, whatever is edited, superseded or logged after it.
RunsAreLogged ==
  \A i \in DOMAIN doc : doc[i].source = Runner =>
    \E l \in LogBlocks(doc) : Success[<<doc[i].section, doc[i].variant>>] \in doc[l].body

\* No writer loses what the log says: neither the edits around it nor the
\* insertions and rewrites of the runner.
LogOnlyGrows ==
  [][\A l \in LogBlocks(doc) : \A e \in doc[l].body :
       \E k \in LogBlocks(doc') : e \in doc'[k].body]_vars
=============================================================================
