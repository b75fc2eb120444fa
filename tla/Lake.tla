-------------------------------- MODULE Lake --------------------------------
(***************************************************************************)
(* Loading the lake: planLakeLoad turns a bundle into statements and         *)
(* executeLakeLoad runs them one by one on the adopter's client, without a   *)
(* transaction (@uwmd/lake plan.ts, over the keys of schema.ts). Loads fail   *)
(* on the way, are run again, and overlap.                                  *)
(***************************************************************************)
EXTENDS Integers, Sequences, SequencesExt

CONSTANTS
  Loaders,
  Digests, Paths,            \* of documents
  PackageIds, Versions, Members,
  Bundles,                   \* the LakeLoadInputs
  NoBundle,
  MaxLoads                   \* bound on the runs of a loader

\* A bundle lists documents (with a path, their facts, and evidence on them),
\* receipts of documents, and packages, whose members are documents.
DocumentRow == [digest : Digests, path : Paths]
ReceiptRow == [digest : Digests, subject : Digests]
PackageRow == [id : PackageIds, version : Versions, members : Seq(Members \X Digests)]

ASSUME BundlesAreTyped ==
  Bundles \subseteq [documents : Seq(DocumentRow), receipts : Seq(ReceiptRow),
                     packages : Seq(PackageRow)]
ASSUME LoadsAreBounded == MaxLoads \in Nat

VARIABLES
  tables,   \* the rows, by table and primary key
  load,     \* by loader: its bundle, the statement it is at, how it stands
  loads,    \* by loader: the runs begun
  alone     \* by loader: no other loader has written since it began

lakeVars == <<tables, load, loads, alone>>

-----------------------------------------------------------------------------
(* planLakeLoad.                                                           *)

Statement(key, row) == [key |-> key, row |-> row]

\* planDocument, planFact, planSourceEvidence: keyed by the digest, the path is
\* a column.
PlanRow(table, d) == Statement(<<table, d.digest>>, [content |-> d.digest, path |-> d.path])

PlanRows(table, documents) ==
  [i \in DOMAIN documents |-> PlanRow(table, documents[i])]

\* planReceipt: keyed by the digest of the receipt, on which every column depends.
PlanReceipts(receipts) ==
  [i \in DOMAIN receipts |->
     Statement(<<"uw_receipts", receipts[i].digest>>,
               [content |-> receipts[i].digest, path |-> receipts[i].subject])]

PlanMembers(p) ==
  [i \in DOMAIN p.members |->
     Statement(<<"uw_package_members", p.id, p.members[i][1]>>,
               [content |-> p.members[i][2], path |-> p.id])]

\* The package statement first, then one for each member.
PlanPackage(p) ==
  <<Statement(<<"uw_packages", p.id>>, [content |-> p.version, path |-> p.id])>> \o PlanMembers(p)

Plan(b) ==
  PlanRows("uw_documents", b.documents) \o PlanRows("uw_facts", b.documents)
    \o PlanReceipts(b.receipts)
    \o FlattenSeq([i \in DOMAIN b.packages |-> PlanPackage(b.packages[i])])
    \o PlanRows("uw_source_evidence", b.documents)

-----------------------------------------------------------------------------
(* The database.                                                           *)

\* The foreign key of uw_package_members.
Unparented(key) == key[1] = "uw_package_members" /\ <<"uw_packages", key[2]>> \notin DOMAIN tables

\* Mutant of Upsert: ON CONFLICT DO NOTHING.
InsertOnce(s) ==
  [key \in DOMAIN tables \cup {s.key} |-> IF key \in DOMAIN tables THEN tables[key] ELSE s.row]

\* INSERT ... ON CONFLICT (primary key) DO UPDATE.
Upsert(s) ==
  [key \in DOMAIN tables \cup {s.key} |-> IF key = s.key THEN s.row ELSE tables[key]]

-----------------------------------------------------------------------------
(* executeLakeLoad.                                                        *)

Begin(l, b) ==
  /\ load[l].status # "running" /\ loads[l] < MaxLoads
  /\ load[l].status = "failed" => b = load[l].bundle
  /\ load' = [load EXCEPT ![l] = [bundle |-> b, at |-> 1, status |-> "running"]]
  /\ loads' = [loads EXCEPT ![l] = @ + 1]
  /\ alone' = [alone EXCEPT ![l] = TRUE]
  /\ UNCHANGED tables

NextStatement(l) == Plan(load[l].bundle)[load[l].at]
Running(l) == load[l].status = "running" /\ load[l].at <= Len(Plan(load[l].bundle))
Written(l) ==
  /\ ~Unparented(NextStatement(l).key)
  /\ tables' = Upsert(NextStatement(l))
  /\ alone' = [k \in Loaders |-> k = l /\ alone[l]]
  /\ UNCHANGED loads

Execute(l) ==
  /\ Running(l) /\ Written(l)
  /\ load' = [load EXCEPT ![l].at = @ + 1]

RefuseStatement(l) ==
  /\ Running(l) /\ Unparented(NextStatement(l).key)
  /\ load' = [load EXCEPT ![l].status = "refused"]
  /\ UNCHANGED <<tables, loads, alone>>

\* client.query throws: the statement took effect or it did not.
FailStatement(l) ==
  /\ Running(l)
  /\ load' = [load EXCEPT ![l].status = "failed"]
  /\ Written(l) \/ UNCHANGED <<tables, loads, alone>>

EndLoad(l) ==
  /\ load[l].status = "running" /\ load[l].at > Len(Plan(load[l].bundle))
  /\ load' = [load EXCEPT ![l].status = "done"]
  /\ UNCHANGED <<tables, loads, alone>>

LakeInit ==
  /\ tables = <<>>
  /\ load = [l \in Loaders |-> [bundle |-> NoBundle, at |-> 1, status |-> "idle"]]
  /\ loads = [l \in Loaders |-> 0] /\ alone = [l \in Loaders |-> FALSE]

LakeNext ==
  \E l \in Loaders : \/ \E b \in Bundles : Begin(l, b)
                     \/ Execute(l) \/ RefuseStatement(l) \/ FailStatement(l) \/ EndLoad(l)

LakeSpec == LakeInit /\ [][LakeNext]_lakeVars

-----------------------------------------------------------------------------
(* Properties.                                                             *)

Statements(l) == Plan(load[l].bundle)

\* The row a plan leaves under the key of its statement n: that of the last one.
LeftBy(l, n) ==
  Statements(l)[CHOOSE m \in DOMAIN Statements(l) :
     /\ Statements(l)[m].key = Statements(l)[n].key
     /\ \A k \in DOMAIN Statements(l) : Statements(l)[k].key = Statements(l)[n].key => k <= m].row

HasRow(key, row) == key \in DOMAIN tables /\ tables[key] = row

\* plan.ts 120-122 "dependency-safe", and 11-13 "loading the same bundle twice
\* leaves the same rows": no statement is refused by the foreign key, and a load
\* that ran to its end leaves all its rows, whatever loads, or parts of loads
\* that failed, came before it, unless another one overlaps.
LoadsConverge ==
  \A l \in Loaders :
    /\ load[l].status # "refused"
    /\ (load[l].status = "done" /\ alone[l]) =>
         \A n \in DOMAIN Statements(l) : HasRow(Statements(l)[n].key, LeftBy(l, n))
=============================================================================
