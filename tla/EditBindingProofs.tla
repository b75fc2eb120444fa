------------------------- MODULE EditBindingProofs -------------------------
(***************************************************************************)
(* A client that keeps its ETag has its edit in the source at most once, for  *)
(* any number of clients, calls and retries under way.                      *)
(*                                                                         *)
(* Why it holds: the tag a client keeps is of a source without its edit, so   *)
(* a call of its succeeds only on a source without it, and what others write  *)
(* is built on sources that hold the edit at most once already.             *)
(***************************************************************************)
EXTENDS EditBinding, FiniteSetTheorems, SequenceTheorems, TLAPS

Etag(c) == Sends[c] = "etag"
Free(c, s) == \A n \in 1..Len(s) : s[n][1] # c
Once(c, s) == \A m, n \in 1..Len(s) : s[m][1] = c /\ s[n][1] = c => m = n

Typed ==
  /\ source \in Seq(SourceEdit)
  /\ tag \in [Clients -> Seq(SourceEdit) \cup {NoTag}]
  /\ sent \in [Clients -> Nat]
  /\ \A call \in open : call.client \in Clients /\ call.call \in Nat /\ call.base \in Seq(SourceEdit)

\* What holds of a client that retains its ETag.
TagIsFree(c) == tag[c] # NoTag => Free(c, tag[c])
SilentIsAbsent(c) ==
  sent[c] = 0 => Free(c, source) /\ \A call \in open : call.client # c /\ Free(c, call.base)
CallsKeepTag(c) == \A call \in open : call.client = c => tag[c] # NoTag /\ call.ifMatch = tag[c]
HeldOnce(c) == Once(c, source) /\ \A call \in open : Once(c, call.base)

Kept(c) == TagIsFree(c) /\ SilentIsAbsent(c) /\ CallsKeepTag(c) /\ HeldOnce(c)

BindingInv == Typed /\ \A c \in Clients : Etag(c) => Kept(c)

-----------------------------------------------------------------------------
LEMMA AppendedFacts ==
  ASSUME NEW s \in Seq(SourceEdit), NEW e \in SourceEdit, NEW c
  PROVE  /\ Append(s, e) \in Seq(SourceEdit)
         /\ e[1] # c /\ Free(c, s) => Free(c, Append(s, e))
         /\ e[1] # c /\ Once(c, s) => Once(c, Append(s, e))
         /\ Free(c, s) => Once(c, Append(s, e))
<1> DEFINE t == Append(s, e)
<1>1. /\ t \in Seq(SourceEdit) /\ Len(s) \in Nat /\ Len(t) = Len(s) + 1
      /\ \A n \in 1..Len(s) : t[n] = s[n]
      /\ t[Len(s) + 1] = e
  BY AppendProperties, SMT
<1> HIDE DEF t
<1>2. \A n \in 1..Len(t) : n \in 1..Len(s) \/ n = Len(s) + 1
  BY <1>1, SMT
<1>3. e[1] # c /\ Free(c, s) => Free(c, t)
  BY <1>1, <1>2, SMT DEF Free
<1>4. e[1] # c /\ Once(c, s) => Once(c, t)
  BY <1>1, <1>2, SMT DEF Once
<1>5. Free(c, s) => Once(c, t)
  BY <1>1, <1>2, SMT DEF Once, Free
<1> QED
  BY <1>1, <1>3, <1>4, <1>5 DEF t

LEMMA BindingInit_Inv == BindingInit => BindingInv
<1> SUFFICES ASSUME BindingInit PROVE BindingInv
  OBVIOUS
<1>1. <<>> \in Seq(SourceEdit) /\ \A n \in 1..Len(<<>>) : FALSE
  BY SMT
<1>2. Typed
  BY <1>1, SMT DEF Typed, BindingInit
<1>3. ASSUME NEW c \in Clients PROVE Kept(c)
  BY <1>1, SMT DEF Kept, TagIsFree, SilentIsAbsent, CallsKeepTag, HeldOnce, Free, Once, BindingInit
<1> QED
  BY <1>2, <1>3 DEF BindingInv

LEMMA Read_Inv ==
  ASSUME BindingInv, NEW r \in Clients, Read(r)
  PROVE  BindingInv'
<1> USE DEF Read, ETag
<1>1. Typed'
  BY SMT DEF BindingInv, Typed
<1>2. ASSUME NEW c \in Clients, Etag(c) PROVE Kept(c)'
  <2>1. Kept(c) /\ tag' = [tag EXCEPT ![r] = source] /\ DOMAIN tag = Clients
    BY <1>2, SMT DEF BindingInv, Typed
  <2>2. CASE c = r
    <3>1. tag'[c] = source /\ sent[c] = 0
      <4>1. tag'[c] = source
        BY <2>1, <2>2, Zenon
      <4>2. sent[c] = 0
        BY <2>2, Zenon
      <4> QED
        BY <4>1, <4>2, Zenon
    <3> QED
      BY <2>1, <3>1, Zenon DEF Kept, TagIsFree, SilentIsAbsent, CallsKeepTag, HeldOnce, Free, Once
  <2>3. CASE c # r
    <3>1. tag'[c] = tag[c]
      BY <2>1, <2>3, Zenon
    <3> QED
      BY <2>1, <3>1, Zenon DEF Kept, TagIsFree, SilentIsAbsent, CallsKeepTag, HeldOnce, Free, Once
  <2> QED
    BY <2>2, <2>3
<1> QED
  BY <1>1, <1>2 DEF BindingInv, Etag

LEMMA Call_Inv ==
  ASSUME BindingInv, NEW d \in Clients, Call(d)
  PROVE  BindingInv'
<1> DEFINE new == [client |-> d, call |-> sent[d] + 1, base |-> source, ifMatch |-> IfMatchOf(d)]
<1>1. /\ open' = open \cup {new} /\ sent' = [sent EXCEPT ![d] = sent[d] + 1]
      /\ UNCHANGED <<source, tag>> /\ (Etag(d) => tag[d] # NoTag)
  BY Zenon DEF Call, Etag
<1>2. /\ new.client = d /\ new.base = source /\ new.call = sent[d] + 1
      /\ (Etag(d) => new.ifMatch = tag[d])
  BY SMT DEF IfMatchOf, Etag
<1> HIDE DEF new
<1>3. Typed'
  BY <1>1, <1>2, SMT DEF BindingInv, Typed
<1>4. ASSUME NEW c \in Clients, Etag(c) PROVE Kept(c)'
  <2>1. Kept(c) /\ Typed
    BY <1>4 DEF BindingInv
  <2>2. sent'[c] = 0 => c # d /\ sent[c] = 0
    BY <1>1, <2>1, SMT DEF Typed
  <2>3. TagIsFree(c)'
    BY <2>1, <1>1, SMT DEF Kept, TagIsFree, Free
  <2>4. SilentIsAbsent(c)'
    BY <2>1, <2>2, <1>1, <1>2, Zenon DEF Kept, SilentIsAbsent, Free
  <2>5. CallsKeepTag(c)'
    BY <1>4, <2>1, <1>1, <1>2, Zenon DEF Kept, CallsKeepTag
  <2>6. HeldOnce(c)'
    BY <2>1, <1>1, <1>2, Zenon DEF Kept, HeldOnce, Once
  <2> QED
    BY <2>3, <2>4, <2>5, <2>6 DEF Kept
<1> QED
  BY <1>3, <1>4 DEF BindingInv, Etag

LEMMA RefuseCall_Inv ==
  ASSUME BindingInv, NEW call \in open, RefuseCall(call)
  PROVE  BindingInv'
<1>1. open' = open \ {call} /\ UNCHANGED <<source, tag, sent>>
  BY Zenon DEF RefuseCall, AnswerCall
<1>2. Typed'
  BY <1>1, Zenon DEF BindingInv, Typed
<1>3. ASSUME NEW c \in Clients, Etag(c) PROVE Kept(c)'
  <2>1. Kept(c)
    BY <1>3 DEF BindingInv
  <2> QED
    BY <2>1, <1>1, Zenon DEF Kept, TagIsFree, SilentIsAbsent, CallsKeepTag, HeldOnce, Free, Once
<1> QED
  BY <1>2, <1>3 DEF BindingInv, Etag

LEMMA ApplyCall_Inv ==
  ASSUME BindingInv, NEW call \in open, ApplyCall(call)
  PROVE  BindingInv'
<1> DEFINE e == <<call.client, call.call>>
<1>1. /\ open' = open \ {call} /\ UNCHANGED <<tag, sent>> /\ source' = Append(call.base, e)
      /\ Precondition(call.ifMatch, call.base) = 200
  BY Zenon DEF ApplyCall, AnswerCall
<1>2. e \in SourceEdit /\ e[1] = call.client /\ call.base \in Seq(SourceEdit)
  BY SMT DEF SourceEdit, BindingInv, Typed
<1> HIDE DEF e
<1>3. Typed'
  <2>1. source' \in Seq(SourceEdit)
    BY <1>1, <1>2, AppendedFacts
  <2>2. Typed
    BY Zenon DEF BindingInv
  <2>3. \A other \in open' : other \in open
    BY <1>1, Zenon
  <2>4. tag' \in [Clients -> Seq(SourceEdit) \cup {NoTag}] /\ sent' \in [Clients -> Nat]
    BY <2>2, <1>1, Zenon DEF Typed
  <2>5. \A other \in open' :
          other.client \in Clients /\ other.call \in Nat /\ other.base \in Seq(SourceEdit)
    BY <2>2, <2>3, Zenon DEF Typed
  <2> QED
    BY <2>1, <2>4, <2>5, Zenon DEF Typed
<1>4. call.ifMatch # NoTag => call.ifMatch \in {Star, call.base}
  BY <1>1, SMT DEF Precondition, Matches, ETag
<1>5. ASSUME NEW c \in Clients, Etag(c) PROVE Kept(c)'
  <2>1. Kept(c) /\ Typed
    BY <1>5 DEF BindingInv
  <2>2. TagIsFree(c)' /\ CallsKeepTag(c)'
    BY <2>1, <1>1, Zenon DEF Kept, TagIsFree, CallsKeepTag, Free
  <2>3. /\ e[1] # c /\ Free(c, call.base) => Free(c, source')
        /\ e[1] # c /\ Once(c, call.base) => Once(c, source')
        /\ Free(c, call.base) => Once(c, source')
    BY <1>1, <1>2, AppendedFacts
  <2>4. CASE call.client # c
    <3>1. SilentIsAbsent(c)'
      <4>1. SilentIsAbsent(c) /\ e[1] # c
        BY <2>1, <2>4, <1>2, Zenon DEF Kept
      <4> SUFFICES ASSUME sent[c] = 0
                   PROVE  /\ Free(c, source')
                          /\ \A other \in open' : other.client # c /\ Free(c, other.base)
        BY <1>1, Zenon DEF SilentIsAbsent, Free
      <4>2. \A other \in open : other.client # c /\ Free(c, other.base)
        BY <4>1, Zenon DEF SilentIsAbsent
      <4>3. Free(c, source')
        BY <4>1, <4>2, <2>3, Zenon
      <4> QED
        BY <4>2, <4>3, <1>1, Zenon
    <3>2. HeldOnce(c)'
      BY <2>1, <2>3, <2>4, <1>1, <1>2, Zenon DEF Kept, HeldOnce, Once
    <3> QED
      BY <2>2, <3>1, <3>2 DEF Kept
  <2>5. CASE call.client = c
    <3>1. call.ifMatch = tag[c] /\ tag[c] # NoTag
      BY <2>1, <2>5, Zenon DEF Kept, CallsKeepTag
    <3>2. tag[c] \in Seq(SourceEdit)
      BY <2>1, <3>1, SMT DEF Typed
    <3>3. call.base = tag[c]
      BY <3>1, <3>2, <1>4, StarIsNoSource
    <3>4. Free(c, call.base)
      BY <2>1, <3>1, <3>3 DEF Kept, TagIsFree
    <3>5. SilentIsAbsent(c)'
      BY <2>1, <2>5, <1>1, Zenon DEF Kept, SilentIsAbsent
    <3>6. HeldOnce(c)'
      BY <2>1, <2>3, <3>4, <1>1, Zenon DEF Kept, HeldOnce, Once
    <3> QED
      BY <2>2, <3>5, <3>6 DEF Kept
  <2> QED
    BY <2>4, <2>5
<1> QED
  BY <1>3, <1>5 DEF BindingInv, Etag

-----------------------------------------------------------------------------
\* At most one edit at a place each is at most one in number.
LEMMA OnceIsOne ==
  ASSUME NEW c, Typed, Once(c, source)
  PROVE  Cardinality({n \in DOMAIN source : source[n][1] = c}) <= 1
<1> DEFINE places == {n \in DOMAIN source : source[n][1] = c}
<1>1. \A m, n \in places : m = n
  BY SMT DEF Typed, Once
<1> HIDE DEF places
<1>2. ASSUME places = {} PROVE Cardinality(places) <= 1
  BY <1>2, FS_EmptySet, SMT
<1>3. ASSUME places # {} PROVE Cardinality(places) <= 1
  <2>1. PICK n \in places : TRUE
    BY <1>3
  <2>2. places = {n}
    BY <1>1, <2>1
  <2>3. Cardinality({n}) = 1
    BY FS_Singleton, Zenon
  <2> QED
    BY <2>2, <2>3, SMT
<1> QED
  BY <1>2, <1>3 DEF places

LEMMA BindingNext_Inv == BindingInv /\ [BindingNext]_bindingVars => BindingInv'
<1> SUFFICES ASSUME BindingInv, [BindingNext]_bindingVars PROVE BindingInv'
  OBVIOUS
<1>1. ASSUME NEW c \in Clients, Read(c) \/ Call(c) PROVE BindingInv'
  BY <1>1, Read_Inv, Call_Inv
<1>2. ASSUME NEW call \in open, RefuseCall(call) \/ ApplyCall(call) PROVE BindingInv'
  BY <1>2, RefuseCall_Inv, ApplyCall_Inv
<1>3. CASE UNCHANGED bindingVars
  BY <1>3, Zenon DEF bindingVars, BindingInv, Typed, Kept, TagIsFree, SilentIsAbsent, CallsKeepTag,
       HeldOnce, Free, Once, Etag
<1> QED
  BY <1>1, <1>2, <1>3, Zenon DEF BindingNext

\* A client that retains the ETag it read may repeat its call as often as it
\* likes, at any time, next to any other clients (retries of apply_edit).
THEOREM RetriesStaySafe == BindingSpec => []RetriesAreSafe
<1>1. BindingInv => RetriesAreSafe
  BY OnceIsOne DEF BindingInv, RetriesAreSafe, Kept, HeldOnce, Etag
<1> QED
  BY BindingInit_Inv, BindingNext_Inv, <1>1, PTL DEF BindingSpec
=============================================================================
