------------------------------ MODULE MCLibrary ------------------------------
(***************************************************************************)
(* The operations around the document, each on its own small instances. They  *)
(* share no state: a behaviour runs one of them and the others stay as they   *)
(* begin.                                                                   *)
(***************************************************************************)
EXTENDS EditBinding, MCComposite, MCSectionParts, MCRegistry, MCReceipts, MCDirectory, Lake

CONSTANTS alice, bob, star,                   \* clients of the binding
          d1, d2, r1, p1, p2, pkg1, m1, m2        \* rows of the lake

VARIABLE running   \* the operation this behaviour is about

libraryVars ==
  <<running, bindingVars, compositeVars, partsVars, registryVars, receiptVars, directoryVars,
    lakeVars>>

\* Two clients that pass the ETag they read and one that passes `*`.
MCSends == [c \in Clients |-> CASE c = star -> "any" [] OTHER -> "etag"]

\* A deal at one path in two versions, in a package that shrinks, and the first
\* version again at another path, now with a receipt.
MCBundles ==
  LET doc(d, p) == [digest |-> d, path |-> p]
      stated == [digest |-> r1, subject |-> d1]
      package(v, members) == [id |-> pkg1, version |-> v, members |-> members]
  IN { [documents |-> <<doc(d1, p1)>>, receipts |-> <<>>,
         packages |-> <<package("v1", << <<m1, d1>>, <<m2, d1>> >>)>>],
       [documents |-> <<doc(d2, p1)>>, receipts |-> <<>>,
         packages |-> <<package("v2", << <<m1, d2>> >>)>>],
       [documents |-> <<doc(d1, p2)>>, receipts |-> <<stated>>, packages |-> <<>>] }

NoComposite ==
  /\ pkg = NoPackage /\ verdict = "idle" /\ code = "none"
  /\ roots = <<>> /\ stack = <<>> /\ order = <<>> /\ stale = <<>>
  /\ onPath = {} /\ finished = {} /\ deepest = 0
NoParts == section = Inline(<<>>) /\ PartsInit
NoRegistry ==
  /\ listing = <<>> /\ caller = "sync" /\ policy = "ignore" /\ stage = "idle" /\ at = 1
  /\ loaded = <<>> /\ refusals = {}
  /\ owner = [id \in DeclaredIds |-> Nobody] /\ first = [id \in CalcIds |-> Nobody]

NoReceipts == record = Broken /\ release = (CHOOSE b \in Releases : TRUE) /\ Unissued

LibraryInit ==
  /\ running \in {"binding", "composite", "parts", "registry", "receipt", "directory", "lake"}
  /\ BindingInit
  /\ IF running = "composite" THEN CompositeInit ELSE NoComposite
  /\ IF running = "parts" THEN PartsInit ELSE NoParts
  /\ IF running = "registry" THEN RegistryInit ELSE NoRegistry
  /\ IF running = "receipt" THEN ReceiptInit ELSE NoReceipts
  /\ IF running = "directory" THEN DirectoryInit ELSE DirectoryStarts({})
  /\ LakeInit

LibraryNext ==
  /\ UNCHANGED running
  /\ \/ /\ running = "binding" /\ BindingNext
        /\ UNCHANGED <<compositeVars, partsVars, registryVars, receiptVars, directoryVars, lakeVars>>
     \/ /\ running = "composite" /\ CompositeNext
        /\ UNCHANGED <<bindingVars, partsVars, registryVars, receiptVars, directoryVars, lakeVars>>
     \/ /\ running = "parts" /\ PartsNext
        /\ UNCHANGED <<bindingVars, compositeVars, registryVars, receiptVars, directoryVars, lakeVars>>
     \/ /\ running = "registry" /\ RegistryNext
        /\ UNCHANGED <<bindingVars, compositeVars, partsVars, receiptVars, directoryVars, lakeVars>>
     \/ /\ running = "receipt" /\ ReceiptNext
        /\ UNCHANGED <<bindingVars, compositeVars, partsVars, registryVars, directoryVars, lakeVars>>
     \/ /\ running = "directory" /\ DirectoryNext
        /\ UNCHANGED <<bindingVars, compositeVars, partsVars, registryVars, receiptVars, lakeVars>>
     \/ /\ running = "lake" /\ LakeNext
        /\ UNCHANGED <<bindingVars, compositeVars, partsVars, registryVars, receiptVars, directoryVars>>

LibrarySpec == LibraryInit /\ [][LibraryNext]_libraryVars /\ CompositeFairness
=============================================================================
