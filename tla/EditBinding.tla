---------------------------- MODULE EditBinding ----------------------------
(***************************************************************************)
(* Source edits over HTTP or MCP: createReferenceBindings                    *)
(* (examples/bindings/reference-adapters.mjs) serving `uwmd.apply_edit` with *)
(* applyUWMDSourceEditWith (@uwmd/verify bindings.ts). Between a call and    *)
(* its answer everything is computed from the source the call was started    *)
(* with; the awaits in between are one gap in which other calls run.        *)
(*                                                                         *)
(* The stored source is the list of the edits in it. Each is named by its    *)
(* client and the call that made it: the digest covers _meta and             *)
(* frontmatter, so no edit made twice gives the same source twice.          *)
(***************************************************************************)
EXTENDS Integers, Sequences, FiniteSets

CONSTANTS
  Clients,   \* each has one edit to make
  Sends,     \* what a client passes as if_match: "etag", "any" (*) or "none"
  NoTag,     \* no If-Match, or no ETag read yet
  Star,      \* the tag *
  MaxCalls,  \* bound on the calls of a client: the first and its retries
  MaxOpen    \* bound on the calls under way

ASSUME ClientsSend == Sends \in [Clients -> {"etag", "any", "none"}]
ASSUME BoundsAreNatural == MaxCalls \in Nat /\ MaxOpen \in Nat

VARIABLES
  source,    \* the stored source
  tag,       \* the ETag each client read
  sent,      \* the number of calls each client has made
  open,      \* the calls under way
  answers    \* <<client, call, status>> of the calls answered; 200 is applied

bindingVars == <<source, tag, sent, open, answers>>

BindingStatuses == {200, 409, 412, 428}
SourceEdit == Clients \X Nat

ASSUME StarIsNoSource == Star \notin Seq(SourceEdit)

BindingTypeOK ==
  /\ source \in Seq(SourceEdit)
  /\ tag \in [Clients -> Seq(SourceEdit) \cup {NoTag}]
  /\ sent \in [Clients -> Nat]
  /\ open \subseteq [client : Clients, call : Nat, base : Seq(SourceEdit),
                     ifMatch : Seq(SourceEdit) \cup {NoTag, Star}]
  /\ answers \subseteq Clients \X Nat \X BindingStatuses

-----------------------------------------------------------------------------
\* uwmdETag: the semantic digest of a source, taken to be injective.
ETag(s) == s

\* Mutant of Matches: the tag is not compared.
MatchesAnything(ifMatch, s) == TRUE

\* etagListMatches, for a list of one tag.
Matches(ifMatch, s) == ifMatch \in {Star, ETag(s)}

\* assertUWIfMatch, where If-Match is required.
Precondition(ifMatch, s) == CASE ifMatch = NoTag -> 428
                              [] ifMatch # NoTag /\ ~Matches(ifMatch, s) -> 412
                              [] OTHER -> 200

IfMatchOf(c) == CASE Sends[c] = "etag" -> tag[c]
                  [] Sends[c] = "any" -> Star
                  [] Sends[c] = "none" -> NoTag

-----------------------------------------------------------------------------
\* currentETag, before the client first calls. It retains the tag for retries.
Read(c) ==
  /\ Sends[c] = "etag" /\ sent[c] = 0
  /\ tag' = [tag EXCEPT ![c] = ETag(source)]
  /\ UNCHANGED <<source, sent, open, answers>>

\* apply_edit up to its await: `source` is passed as it is now. A client calls
\* again when an answer is late or lost, whatever became of the calls before.
Call(c) ==
  /\ Sends[c] = "etag" => tag[c] # NoTag
  /\ sent[c] < MaxCalls
  /\ Cardinality(open) < MaxOpen
  /\ sent' = [sent EXCEPT ![c] = @ + 1]
  /\ open' = open \cup {[client |-> c, call |-> sent[c] + 1, base |-> source,
                         ifMatch |-> IfMatchOf(c)]}
  /\ UNCHANGED <<source, tag, answers>>

AnswerCall(call, status) ==
  /\ open' = open \ {call}
  /\ answers' = answers \cup {<<call.client, call.call, status>>}
  /\ UNCHANGED <<tag, sent>>

\* The call throws: 428, 412, or 409 when the editor refuses the operation.
RefuseCall(call) ==
  LET checked == Precondition(call.ifMatch, call.base)
  IN /\ AnswerCall(call, IF checked = 200 THEN 409 ELSE checked)
     /\ UNCHANGED source

\* `source = applied.edit.source`: what the edit made of the source it was
\* started with.
ApplyCall(call) ==
  /\ Precondition(call.ifMatch, call.base) = 200
  /\ source' = Append(call.base, <<call.client, call.call>>)
  /\ AnswerCall(call, 200)

BindingInit ==
  /\ source = <<>> /\ open = {} /\ answers = {}
  /\ tag = [c \in Clients |-> NoTag]
  /\ sent = [c \in Clients |-> 0]

BindingNext == \/ \E c \in Clients : Read(c) \/ Call(c)
        \/ \E call \in open : RefuseCall(call) \/ ApplyCall(call)

BindingSpec == BindingInit /\ [][BindingNext]_bindingVars

-----------------------------------------------------------------------------
(* Properties.                                                             *)

\* "retry-safe only when the caller retains the original if_match" (MCP binding
\* 5): the edit of a client that does is in the source at most once, whatever
\* calls overtake its retries.
RetriesAreSafe ==
  \A c \in Clients : Sends[c] = "etag" =>
    Cardinality({n \in DOMAIN source : source[n][1] = c}) <= 1

\* An edit answered as applied stays in the source: later edits are made on
\* top of it. (RFC 0014: "use If-Match to prevent lost updates".)
AcceptedEditsStay ==
  \A c \in Clients : \A n \in 1..sent[c] :
    <<c, n, 200>> \in answers => \E i \in DOMAIN source : source[i] = <<c, n>>

=============================================================================
