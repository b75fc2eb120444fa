---------------------------- MODULE HistoryStore ----------------------------
(***************************************************************************)
(* What the protocol promises of a record (Format 2.7, Protocol V.2-V.4):    *)
(* each slot, a section or one variant of it, keeps the versions written to  *)
(* it, told apart by their revisions. Writing a slot takes the authority of  *)
(* the policy of its latest version. The new version is one revision on; the *)
(* latest version is kept with it, or gives way when its policy allows that. *)
(***************************************************************************)
EXTENDS Integers

CONSTANTS
  Slots,            \* sections, and variants of multi-variant sections
  MayFollow(_, _),  \* a writer's source may write over a version's source
  MayReplace(_)     \* versions of this source need not be kept

VARIABLE history    \* for each slot, the set of its versions

IsLatest(v, old) == v \in old /\ \A w \in old : w.revision <= v.revision

\* What the first version of a slot is, and the one after its latest.
FirstVersion(v) == v.revision = 1
NextVersion(v, last) == v.revision = last.revision + 1 /\ MayFollow(v.source, last.source)

\* The slot gains a version, every earlier one is kept as it was.
Superseded(old, new) ==
  \E v \in new :
    /\ new = old \cup {v}
    /\ \/ old = {} /\ FirstVersion(v)
       \/ \E last \in old : IsLatest(last, old) /\ NextVersion(v, last)

\* The latest version gives way to the new one.
Replaced(old, new) ==
  \E v \in new, last \in old :
    /\ IsLatest(last, old) /\ NextVersion(v, last) /\ MayReplace(last.source)
    /\ new = (old \ {last}) \cup {v}

\* A call writes the slot it names, and may bring the gaps slot up to date.
Write ==
  \A s \in Slots : \/ history'[s] = history[s]
                   \/ Superseded(history[s], history'[s])
                   \/ Replaced(history[s], history'[s])

Init == \A s \in Slots : \A v, w \in history[s] : v.revision = w.revision => v = w

Spec == Init /\ [][Write]_history
=============================================================================
