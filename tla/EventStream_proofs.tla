-------------------------- MODULE EventStream_proofs --------------------------
(***************************************************************************)
(* Proofs about EventStream, for every number of writers, documents and    *)
(* proposals, every capacity and every choice of topics.                   *)
(***************************************************************************)
EXTENDS EventStream, SequenceTheorems, FiniteSetTheorems, TLAPS

-------------------------------------------------------------------------------
(* Facts about sequences.                                                  *)

LEMMA HeadAndTail ==
  ASSUME NEW S, NEW s \in Seq(S), s # <<>>
  PROVE  /\ Head(s) \in S /\ Head(s) = s[1] /\ 1 \in DOMAIN s
         /\ Tail(s) \in Seq(S) /\ Len(Tail(s)) = Len(s) - 1
         /\ \A i \in DOMAIN Tail(s) : i + 1 \in DOMAIN s /\ Tail(s)[i] = s[i + 1]
<1>. QED
  BY HeadTailProperties, LenProperties, ElementOfSeq

LEMMA Appended ==
  ASSUME NEW S, NEW s \in Seq(S), NEW e \in S
  PROVE  /\ Append(s, e) \in Seq(S) /\ Len(Append(s, e)) = Len(s) + 1
         /\ \A i \in DOMAIN Append(s, e) :
              \/ i \in DOMAIN s /\ Append(s, e)[i] = s[i]
              \/ i = Len(s) + 1 /\ Append(s, e)[i] = e
<1>. QED
  BY AppendProperties, LenProperties

LEMMA Concatenated ==
  ASSUME NEW S, NEW s \in Seq(S), NEW u \in Seq(S)
  PROVE  /\ s \o u \in Seq(S)
         /\ \A i \in DOMAIN (s \o u) :
              \/ i \in DOMAIN s /\ (s \o u)[i] = s[i]
              \/ i - Len(s) \in DOMAIN u /\ (s \o u)[i] = u[i - Len(s)]
<1>. QED
  BY ConcatProperties, LenProperties

LEMMA ShortSeqs ==
  ASSUME NEW S, NEW a \in S, NEW b \in S, NEW c \in S
  PROVE  <<a>> \in Seq(S) /\ <<a, b>> \in Seq(S) /\ <<a, b, c>> \in Seq(S)
<1>. QED
  OBVIOUS

(* The orders of a finite set are sequences of its elements. *)
LEMMA OrdersAreSeqs ==
  ASSUME NEW S, IsFiniteSet(S), NEW f \in SetToSeqs(S)
  PROVE  f \in Seq(S) /\ \A i \in DOMAIN f : f[i] \in S
<1>1. Cardinality(S) \in Nat
  BY FS_CardinalityType
<1>2. f \in [1..Cardinality(S) -> S]
  BY DEF SetToSeqs
<1>. QED
  BY <1>1, <1>2, IsASeq

-------------------------------------------------------------------------------
(* Type correctness.                                                       *)

Item == Payload \cup FanOut \cup Found

(* What an operation plans to publish consists of items. *)
LEMMA PlannedItems ==
  /\ \A d \in Docs, r \in Nat :
       /\ [topic |-> "committed", doc |-> d, rev |-> r] \in Item
       /\ [topic |-> "changed", doc |-> d, rev |-> r] \in Item
       /\ [topic |-> "found", doc |-> d, rev |-> r] \in Item
       /\ [topic |-> "fanout", doc |-> d] \in Item
  /\ \A p \in Proposals :
       /\ [topic |-> "updated", prop |-> p] \in Item
       /\ [topic |-> "stale", prop |-> p] \in Item
<1>. QED
  BY DEF Item, Payload, FanOut, Found, Rev

LEMMA ItemsByTopic ==
  ASSUME NEW e \in Item
  PROVE  /\ e.topic \in Topics => e \in Payload
         /\ e.topic = "found" => e \in Found
         /\ e.topic = "fanout" => e \in FanOut
<1>. QED
  BY DEF Item, Payload, FanOut, Found, Topics, DocTopics

LEMMA CommitType ==
  ASSUME ETypeOK, NEW ds \in SUBSET Docs, Commit(ds)
  PROVE  heads' \in [Docs -> Nat]
<1>. QED
  BY DEF ETypeOK, Commit, Rev

(* An operation keeps types if what it plans consists of items. *)
LEMMA ChangeType ==
  ASSUME ETypeOK, NEW w \in Writers, NEW events \in Seq(Item), Change(w, events),
         heads' \in [Docs -> Nat],
         open' \subseteq [prop: Proposals, doc: Docs, base: Rev],
         used' \subseteq Proposals, silent' \subseteq Docs \X Rev
  PROVE  ETypeOK'
<1>1. agenda' \in [Writers -> Seq(Item)]
  BY DEF ETypeOK, Change, Item
<1>. QED
  BY <1>1 DEF ETypeOK, Change, bus, client, Rev, Item

LEMMA OperateType ==
  ASSUME ETypeOK, NEW w \in Writers, Operate(w)
  PROVE  ETypeOK'
<1>. USE DEF Rev
<1>1. ASSUME NEW d \in Docs, Save(w, d)
      PROVE  ETypeOK'
  <2>1. heads' \in [Docs -> Nat]
    BY <1>1, CommitType DEF Save
  <2>2. <<Committed(d, "committed"), After(d)>> \in Seq(Item)
    <3>1. Committed(d, "committed") \in Item /\ After(d) \in Item
      BY <2>1, PlannedItems DEF Committed, After
    <3>. QED
      BY <3>1, ShortSeqs
  <2>. QED
    BY <1>1, <2>1, <2>2, ChangeType DEF Save, ETypeOK
<1>2. ASSUME NEW d \in Docs, CommitSilently(w, d)
      PROVE  ETypeOK'
  <2>1. heads' \in [Docs -> Nat]
    BY <1>2, CommitType DEF CommitSilently
  <2>2. silent' \subseteq Docs \X Rev
    BY <1>2, <2>1 DEF CommitSilently, ETypeOK
  <2>3. << >> \in Seq(Item)
    OBVIOUS
  <2>. QED
    BY <1>2, <2>1, <2>2, <2>3, ChangeType DEF CommitSilently, ETypeOK
<1>3. ASSUME NEW ds \in SUBSET Docs, Scan(w, ds)
      PROVE  ETypeOK'
  <2>1. heads' \in [Docs -> Nat]
    BY <1>3, CommitType DEF Scan
  <2>2. PICK found \in SetToSeqs(ds) :
          Change(w, [i \in DOMAIN found |-> Committed(found[i], "found")])
    BY <1>3 DEF Scan
  <2>3. found \in Seq(ds) /\ \A i \in DOMAIN found : found[i] \in Docs
    BY OrdersAreSeqs, FS_Subset, StreamAssumption
  <2>4. [i \in DOMAIN found |-> Committed(found[i], "found")] \in Seq(Item)
    <3>1. DOMAIN found = 1..Len(found) /\ Len(found) \in Nat
      BY <2>3, LenProperties
    <3>2. \A i \in 1..Len(found) : Committed(found[i], "found") \in Item
      BY <2>1, <2>3, <3>1, PlannedItems DEF Committed
    <3>. QED
      BY <3>1, <3>2, IsASeq
  <2>. QED
    BY <1>3, <2>1, <2>2, <2>4, ChangeType DEF Scan, ETypeOK
<1>4. ASSUME NEW p \in Proposals, NEW d \in Docs, CreateProposal(w, p, d)
      PROVE  ETypeOK'
  <2>1. <<Updated(p)>> \in Seq(Item)
    <3>1. Updated(p) \in Item
      BY PlannedItems DEF Updated
    <3>. QED
      BY <3>1, ShortSeqs
  <2>2. open' \subseteq [prop: Proposals, doc: Docs, base: Rev] /\ used' \subseteq Proposals
    BY <1>4 DEF CreateProposal, ETypeOK
  <2>. QED
    BY <1>4, <2>1, <2>2, ChangeType DEF CreateProposal, ETypeOK
<1>5. ASSUME NEW p \in open, AcceptProposal(w, p)
      PROVE  ETypeOK'
  <2>1. p.doc \in Docs /\ p.prop \in Proposals
    BY DEF ETypeOK
  <2>2. heads' \in [Docs -> Nat]
    BY <1>5, <2>1, CommitType DEF AcceptProposal
  <2>3. <<Committed(p.doc, "committed"), Updated(p.prop), After(p.doc)>> \in Seq(Item)
    <3>1. /\ Committed(p.doc, "committed") \in Item
          /\ Updated(p.prop) \in Item /\ After(p.doc) \in Item
      BY <2>1, <2>2, PlannedItems DEF Committed, Updated, After
    <3>. QED
      BY <3>1, ShortSeqs
  <2>. QED
    BY <1>5, <2>2, <2>3, ChangeType DEF AcceptProposal, ETypeOK
<1>6. ASSUME NEW p \in open, CloseProposal(w, p)
      PROVE  ETypeOK'
  <2>1. p.prop \in Proposals
    BY DEF ETypeOK
  <2>2. <<Updated(p.prop)>> \in Seq(Item)
    <3>1. Updated(p.prop) \in Item
      BY <2>1, PlannedItems DEF Updated
    <3>. QED
      BY <3>1, ShortSeqs
  <2>. QED
    BY <1>6, <2>2, ChangeType DEF CloseProposal, ETypeOK
<1>. QED
  BY <1>1, <1>2, <1>3, <1>4, <1>5, <1>6 DEF Operate

LEMMA PublishType ==
  ASSUME ETypeOK, NEW w \in Writers, Publish(w)
  PROVE  ETypeOK'
<1>. USE DEF Rev
<1>1. agenda \in [Writers -> Seq(Item)] /\ agenda[w] \in Seq(Item)
  BY DEF ETypeOK, Item
<1>2. ASSUME NextFound(w)
      PROVE  ETypeOK'
  <2>. DEFINE f == Head(agenda[w])
              three == <<[f EXCEPT !.topic = "changed"], [f EXCEPT !.topic = "committed"],
                         After(f.doc)>>
  <2>1. f \in Item /\ Tail(agenda[w]) \in Seq(Item)
    BY <1>1, <1>2, HeadAndTail DEF NextFound
  <2>2. f \in Found
    BY <1>2, <2>1, ItemsByTopic DEF NextFound
  <2>3. /\ [f EXCEPT !.topic = "changed"] \in Item
        /\ [f EXCEPT !.topic = "committed"] \in Item
        /\ After(f.doc) \in Item
    BY <2>2 DEF Found, After, Item, Payload, FanOut
  <2>4. three \in Seq(Item)
    BY <2>3, ShortSeqs
  <2>5. three \o Tail(agenda[w]) \in Seq(Item)
    BY <2>1, <2>4, Concatenated
  <2>6. agenda' = [agenda EXCEPT ![w] = three \o Tail(@)]
    BY <1>2 DEF NextFound
  <2>7. agenda' \in [Writers -> Seq(Item)]
    BY <1>1, <2>5, <2>6
  <2>. QED
    BY <1>2, <2>7 DEF NextFound, ETypeOK, vault, bus, client, Item
<1>3. ASSUME CollectStale(w)
      PROVE  ETypeOK'
  <2>. DEFINE ps == {p \in open : p.doc = Head(agenda[w]).doc /\ Stale(p)}
              names == {p.prop : p \in ps}
  <2>1. PICK told \in StaleEvents(ps) : agenda' = [agenda EXCEPT ![w] = told \o Tail(@)]
    BY <1>3 DEF CollectStale
  <2>2. names \subseteq Proposals
    BY DEF ETypeOK
  <2>3. PICK ids \in SetToSeqs(names) :
          told = [i \in DOMAIN ids |-> [topic |-> "stale", prop |-> ids[i]]]
    BY <2>1 DEF StaleEvents
  <2>4. ids \in Seq(names) /\ \A i \in DOMAIN ids : ids[i] \in names
    BY <2>2, OrdersAreSeqs, FS_Subset, StreamAssumption
  <2>5. told \in Seq(Item)
    <3>1. DOMAIN ids = 1..Len(ids) /\ Len(ids) \in Nat
      BY <2>4, LenProperties
    <3>2. \A i \in 1..Len(ids) : [topic |-> "stale", prop |-> ids[i]] \in Item
      BY <2>2, <2>4, <3>1, PlannedItems
    <3>. QED
      BY <2>3, <3>1, <3>2, IsASeq
  <2>6. told \o Tail(agenda[w]) \in Seq(Item)
    BY <1>1, <1>3, <2>5, HeadAndTail, Concatenated DEF CollectStale
  <2>7. agenda' \in [Writers -> Seq(Item)]
    BY <1>1, <2>1, <2>6
  <2>. QED
    BY <1>3, <2>7 DEF CollectStale, ETypeOK, vault, bus, client, Item
<1>4. ASSUME Number(w)
      PROVE  ETypeOK'
  <2>. DEFINE e == Head(agenda[w])
  <2>1. e \in Payload /\ e.topic \in Topics /\ Tail(agenda[w]) \in Seq(Item)
    BY <1>1, <1>4, HeadAndTail, ItemsByTopic DEF Number
  <2>2. numbered[e.topic] \in Seq(Payload)
    BY <2>1 DEF ETypeOK
  <2>3. numbered' = [numbered EXCEPT ![e.topic] = Append(@, e)]
    BY <1>4 DEF Number
  <2>4. numbered' \in [Topics -> Seq(Payload)]
    BY <2>1, <2>2, <2>3, Appended DEF ETypeOK
  <2>5. inHand' \in [Writers -> Event \cup {Nothing}]
    <3>1. numbered'[e.topic] \in Seq(Payload)
      BY <2>1, <2>4
    <3>2. [topic |-> e.topic, seq |-> Len(numbered'[e.topic])] \in Event
      BY <2>1, <3>1, LenProperties DEF Event
    <3>. QED
      BY <1>4, <3>2 DEF Number, ETypeOK
  <2>6. agenda' \in [Writers -> Seq(Item)]
    BY <1>1, <1>4, <2>1 DEF Number
  <2>. QED
    BY <1>4, <2>4, <2>5, <2>6 DEF Number, ETypeOK, vault, client, Item
<1>5. ASSUME Send(w)
      PROVE  ETypeOK'
  <2>. DEFINE all == Append(receiver, inHand[w])
  <2>1. inHand[w] \in Event
    BY <1>5 DEF Send, ETypeOK
  <2>2. all \in Seq(Event) /\ Len(all) = Len(receiver) + 1
    BY <2>1, Appended DEF ETypeOK
  <2>3. Len(receiver) \in Nat /\ Len(receiver) <= Capacity /\ Capacity \in Nat \ {0}
    BY StreamAssumption, LenProperties DEF ETypeOK
  <2>4. receiver' = IF Len(all) > Capacity THEN Tail(all) ELSE all
    BY <1>5 DEF Send
  <2>5. all # << >>
    BY <2>2, <2>3
  <2>6. Tail(all) \in Seq(Event) /\ Len(Tail(all)) = Len(receiver)
    BY <2>2, <2>3, <2>5, HeadAndTail
  <2>7. receiver' \in Seq(Event) /\ Len(receiver') <= Capacity
    BY <2>2, <2>3, <2>4, <2>6
  <2>8. inHand' \in [Writers -> Event \cup {Nothing}]
    BY <1>5 DEF Send, ETypeOK
  <2>. QED
    BY <1>5, <2>7, <2>8 DEF Send, ETypeOK, vault, client
<1>. QED
  BY <1>2, <1>3, <1>4, <1>5 DEF Publish

LEMMA TellType ==
  ASSUME ETypeOK, NEW m \in Message, Tell(m)
  PROVE  out' \in Seq(Message) /\ Len(out') <= OutCapacity
<1>1. out \in Seq(Message) /\ Len(out) \in Nat /\ OutCapacity \in Nat
  BY StreamAssumption, LenProperties DEF ETypeOK
<1>. QED
  BY <1>1, Appended DEF Tell

LEMMA TakeRequestType ==
  ASSUME ETypeOK, NEW kind, TakeRequest(kind)
  PROVE  inbox' \in Seq({"subscribe", "list"})
<1>. QED
  BY HeadAndTail DEF ETypeOK, TakeRequest

LEMMA ConnectionType ==
  ASSUME ETypeOK, Connection
  PROVE  ETypeOK'
<1>1. ASSUME ServeSubscribe
      PROVE  ETypeOK'
  <2>. DEFINE m == [kind |-> "subscribed", base |-> [t \in Watched |-> Len(numbered[t])]]
  <2>1. \A t \in Watched : Len(numbered[t]) \in Nat
    BY StreamAssumption, LenProperties DEF ETypeOK
  <2>2. m \in Message
    BY <2>1 DEF Message
  <2>3. out' \in Seq(Message) /\ Len(out') <= OutCapacity
    BY <1>1, <2>2, TellType DEF ServeSubscribe
  <2>. QED
    BY <1>1, <2>3, TakeRequestType DEF ServeSubscribe, ETypeOK, vault, bus, client
<1>2. ASSUME ServeList
      PROVE  ETypeOK'
  <2>1. [kind |-> "listed", heads |-> heads] \in Message
    BY DEF Message, ETypeOK
  <2>2. out' \in Seq(Message) /\ Len(out') <= OutCapacity
    BY <1>2, <2>1, TellType DEF ServeList
  <2>. QED
    BY <1>2, <2>2, TakeRequestType DEF ServeList, ETypeOK, vault, bus, client
<1>3. ASSUME Forward
      PROVE  ETypeOK'
  <2>. DEFINE m == [kind |-> "event", topic |-> Head(receiver).topic, seq |-> Head(receiver).seq]
  <2>1. /\ Head(receiver) \in Event /\ receiver' \in Seq(Event)
        /\ Len(receiver') <= Capacity
    <3>1. Len(receiver) \in Nat /\ Len(receiver) <= Capacity /\ Capacity \in Nat
      BY StreamAssumption, LenProperties DEF ETypeOK
    <3>. QED
      BY <1>3, <3>1, HeadAndTail DEF Forward, ETypeOK
  <2>2. CASE Head(receiver).topic \in topics
    <3>1. m \in Message
      BY <2>1, <2>2 DEF Message, Event, ETypeOK
    <3>2. out' \in Seq(Message) /\ Len(out') <= OutCapacity
      BY <1>3, <2>2, <3>1, TellType DEF Forward
    <3>. QED
      BY <1>3, <2>1, <3>2 DEF Forward, ETypeOK, vault, client
  <2>3. CASE Head(receiver).topic \notin topics
    BY <1>3, <2>1, <2>3 DEF Forward, ETypeOK, vault, client
  <2>. QED
    BY <2>2, <2>3
<1>. QED
  BY <1>1, <1>2, <1>3 DEF Connection

(* What the client takes from its queue. *)
LEMMA ReceiveType ==
  ASSUME ETypeOK, NEW kind, Receive(kind)
  PROVE  /\ Head(out) \in Message /\ Head(out).kind = kind /\ Head(out) = out[1]
         /\ 1 \in DOMAIN out
         /\ out' \in Seq(Message) /\ Len(out') <= OutCapacity
         /\ \A i \in DOMAIN out' : i + 1 \in DOMAIN out /\ out'[i] = out[i + 1]
<1>1. Len(out) \in Nat /\ Len(out) <= OutCapacity /\ OutCapacity \in Nat
  BY StreamAssumption, LenProperties DEF ETypeOK
<1>2. out \in Seq(Message) /\ out # << >> /\ out' = Tail(out) /\ Head(out).kind = kind
  BY DEF ETypeOK, Receive
<1>. QED
  BY <1>1, <1>2, HeadAndTail

LEMMA MessageByKind ==
  ASSUME NEW m \in Message
  PROVE  /\ m.kind = "event" => m.topic \in Watched /\ m.seq \in Nat
         /\ m.kind = "subscribed" => m.base \in [Watched -> Nat]
         /\ m.kind = "listed" => m.heads \in [Docs -> Nat]
<1>. QED
  BY DEF Message, Rev

LEMMA AsksType ==
  ASSUME NEW e
  PROVE  Asks(e) \in Seq({"list"})
<1>. DEFINE one == <<"list">>
            none == << >>
<1>1. one \in Seq({"list"}) /\ none \in Seq({"list"})
  OBVIOUS
<1>2. PICK a \in {one, none}, b \in {one, none} : Asks(e) = a \o b
  BY DEF Asks
<1>3. a \in Seq({"list"}) /\ b \in Seq({"list"})
  BY <1>1
<1>. HIDE DEF one, none
<1>. QED
  BY <1>2, <1>3, Concatenated

LEMMA ClientType ==
  ASSUME ETypeOK, Client
  PROVE  ETypeOK'
<1>. USE DEF Rev
<1>1. ASSUME ReceiveSubscribed
      PROVE  ETypeOK'
  <2>1. Head(out).base \in [Watched -> Nat]
    BY <1>1, ReceiveType, MessageByKind DEF ReceiveSubscribed
  <2>2. out' \in Seq(Message) /\ Len(out') <= OutCapacity
    BY <1>1, ReceiveType DEF ReceiveSubscribed
  <2>3. inbox' \in Seq({"subscribe", "list"})
    BY <1>1, Appended DEF ReceiveSubscribed, ETypeOK
  <2>. QED
    BY <1>1, <2>1, <2>2, <2>3 DEF ReceiveSubscribed, ETypeOK, vault, bus
<1>2. ASSUME ReceiveEvent
      PROVE  ETypeOK'
  <2>. DEFINE e == Head(out)
  <2>1. e.topic \in Watched /\ e.seq \in Nat
    BY <1>2, ReceiveType, MessageByKind DEF ReceiveEvent
  <2>2. out' \in Seq(Message) /\ Len(out') <= OutCapacity
    BY <1>2, ReceiveType DEF ReceiveEvent
  <2>3. inbox' \in Seq({"subscribe", "list"})
    <3>1. Asks(e) \in Seq({"subscribe", "list"})
      BY AsksType, SeqMonotonic, {"list"} \subseteq {"subscribe", "list"}
    <3>2. inbox' = inbox \o Asks(e)
      BY <1>2 DEF ReceiveEvent
    <3>. QED
      BY <3>1, <3>2, Concatenated DEF ETypeOK
  <2>4. covered' \in [Watched -> Nat]
    <3>1. \A t \in Watched : Len(numbered[t]) \in Nat
      BY StreamAssumption, LenProperties DEF ETypeOK
    <3>. QED
      BY <1>2, <3>1 DEF ReceiveEvent, ETypeOK
  <2>5. last' \in [Watched -> Nat] /\ got' \in [Watched -> SUBSET Nat]
    BY <1>2, <2>1 DEF ReceiveEvent, ETypeOK
  <2>. QED
    BY <1>2, <2>2, <2>3, <2>4, <2>5 DEF ReceiveEvent, ETypeOK, vault, bus
<1>3. ASSUME ReceiveListed
      PROVE  ETypeOK'
  <2>1. Head(out).heads \in [Docs -> Nat]
    BY <1>3, ReceiveType, MessageByKind DEF ReceiveListed
  <2>2. out' \in Seq(Message) /\ Len(out') <= OutCapacity
    BY <1>3, ReceiveType DEF ReceiveListed
  <2>. QED
    BY <1>3, <2>1, <2>2 DEF ReceiveListed, ETypeOK, vault, bus
<1>. QED
  BY <1>1, <1>2, <1>3 DEF Client

LEMMA InitType == Init => ETypeOK
<1>. SUFFICES ASSUME Init PROVE ETypeOK
  OBVIOUS
<1>1. <<"subscribe">> \in Seq({"subscribe", "list"})
  OBVIOUS
<1>2. Capacity \in Nat /\ OutCapacity \in Nat
  BY StreamAssumption
<1>. QED
  BY <1>1, <1>2 DEF Init, ETypeOK, Rev

LEMMA NextType == ETypeOK /\ [Next]_vars => ETypeOK'
<1>. SUFFICES ASSUME ETypeOK, [Next]_vars PROVE ETypeOK'
  OBVIOUS
<1>1. CASE UNCHANGED vars
  BY <1>1 DEF ETypeOK, vars, vault, bus, client
<1>2. CASE Next
  BY <1>1, <1>2, OperateType, PublishType, ConnectionType, ClientType DEF Next, Rest
<1>. QED
  BY <1>1, <1>2

(* Every variable keeps its type; the receiver and the queue to the client *)
(* never hold more than their capacity (events.rs, lib.rs).                *)
THEOREM ETypeCorrect == Spec => []ETypeOK
<1>. QED
  BY InitType, NextType, PTL DEF Spec

-------------------------------------------------------------------------------
(* No silent loss.                                                         *)

(* A number that has been given out. *)
Given(topic, seq) == seq \in 1..Len(numbered[topic])

(* Whatever is on its way to the client, or has reached it, was numbered. *)
OnTheWay ==
  /\ \A w \in Writers : inHand[w] # Nothing => Given(inHand[w].topic, inHand[w].seq)
  /\ \A i \in DOMAIN receiver : Given(receiver[i].topic, receiver[i].seq)
  /\ \A i \in DOMAIN out : out[i].kind = "event" => Given(out[i].topic, out[i].seq)
  /\ \A t \in Watched : \A m \in got[t] : Given(t, m)
  /\ \A i \in DOMAIN out : out[i].kind = "subscribed" =>
       \A t \in Watched : out[i].base[t] <= Len(numbered[t])
  /\ \A t \in Watched : last[t] <= Len(numbered[t])

(* The client has subscribed once, and nothing reached it before the answer. *)
SubscribedOnce ==
  /\ \A i \in DOMAIN inbox : inbox[i] = "subscribe" =>
       /\ inbox = <<"subscribe">> /\ out = <<>> /\ topics = {}
       /\ \A t \in Watched : got[t] = {}
  /\ \A i \in DOMAIN out : out[i].kind = "subscribed" =>
       i = 1 /\ \A t \in Watched : got[t] = {}

(* lastSeq is a number received, or one a resync stands in for. *)
LastAccounted == \A t \in Watched : last[t] \in got[t] \/ last[t] <= covered[t]

EInv == OnTheWay /\ SubscribedOnce /\ LastAccounted /\ NoSilentLoss

LEMMA EInvInit == Init => EInv
<1>. SUFFICES ASSUME Init PROVE EInv
  OBVIOUS
<1>1. OnTheWay /\ LastAccounted /\ NoSilentLoss
  BY StreamAssumption DEF Init, OnTheWay, LastAccounted, NoSilentLoss
<1>2. SubscribedOnce
  BY DEF Init, SubscribedOnce
<1>. QED
  BY <1>1, <1>2 DEF EInv

(* What the vault and the agendas do does not matter. *)
LEMMA EInvFrame ==
  ASSUME EInv, UNCHANGED <<inHand, bus, topics, inbox, out, client>>
  PROVE  EInv'
<1>. QED
  BY DEF EInv, OnTheWay, SubscribedOnce, LastAccounted, NoSilentLoss, Given, bus, client

LEMMA EInvNumber ==
  ASSUME ETypeOK, EInv, NEW w \in Writers, Number(w)
  PROVE  EInv'
<1>. DEFINE e == Head(agenda[w])
<1>1. e \in Payload /\ e.topic \in Topics
  <2>1. agenda[w] \in Seq(Item)
    BY DEF ETypeOK, Item
  <2>. QED
    BY <2>1, HeadAndTail, ItemsByTopic DEF Number
<1>2. /\ numbered' = [numbered EXCEPT ![e.topic] = Append(@, e)]
      /\ inHand' = [inHand EXCEPT ![w] = [topic |-> e.topic, seq |-> Len(numbered'[e.topic])]]
      /\ UNCHANGED <<receiver, topics, inbox, out, client>>
  BY DEF Number
<1>3. \A t \in Topics : Len(numbered[t]) \in Nat
  BY LenProperties DEF ETypeOK
<1>4. Len(numbered'[e.topic]) = Len(numbered[e.topic]) + 1
  BY <1>1, <1>2, Appended DEF ETypeOK
<1>5. \A t \in Topics : Len(numbered'[t]) \in Nat /\ Len(numbered[t]) <= Len(numbered'[t])
  BY <1>1, <1>2, <1>3, <1>4 DEF ETypeOK
<1>6. \A t \in Topics : \A n : Given(t, n) => n \in 1..Len(numbered'[t])
  BY <1>3, <1>5 DEF Given
<1>7. OnTheWay'
  <2>1. ASSUME NEW x \in Writers, inHand'[x] # Nothing
        PROVE  inHand'[x].seq \in 1..Len(numbered'[inHand'[x].topic])
    <3>1. CASE x = w
      <4>1. inHand'[x] = [topic |-> e.topic, seq |-> Len(numbered'[e.topic])]
        BY <1>2, <3>1 DEF ETypeOK
      <4>. QED
        BY <4>1, <1>1, <1>3, <1>4
    <3>2. CASE x # w
      <4>1. inHand'[x] = inHand[x] /\ inHand[x] \in Event
        BY <1>2, <2>1, <3>2 DEF ETypeOK
      <4>. QED
        BY <4>1, <1>6, <2>1 DEF Event, EInv, OnTheWay
    <3>. QED
      BY <3>1, <3>2
  <2>2. ASSUME NEW i \in DOMAIN receiver
        PROVE  receiver[i].seq \in 1..Len(numbered'[receiver[i].topic])
    <3>1. receiver[i] \in Event
      BY LenProperties, ElementOfSeq DEF ETypeOK
    <3>. QED
      BY <3>1, <1>6 DEF Event, EInv, OnTheWay
  <2>3. ASSUME NEW i \in DOMAIN out, out[i].kind = "event"
        PROVE  out[i].seq \in 1..Len(numbered'[out[i].topic])
    <3>1. out[i] \in Message
      BY LenProperties, ElementOfSeq DEF ETypeOK
    <3>2. out[i].topic \in Topics
      BY <2>3, <3>1, MessageByKind, StreamAssumption
    <3>. QED
      BY <2>3, <3>2, <1>6 DEF EInv, OnTheWay
  <2>4. ASSUME NEW t \in Watched, NEW m \in got[t]
        PROVE  m \in 1..Len(numbered'[t])
    BY <1>6, StreamAssumption DEF EInv, OnTheWay
  <2>5. ASSUME NEW i \in DOMAIN out, out[i].kind = "subscribed", NEW t \in Watched
        PROVE  out[i].base[t] <= Len(numbered'[t])
    <3>1. out[i] \in Message
      BY LenProperties, ElementOfSeq DEF ETypeOK
    <3>2. out[i].base[t] \in Nat /\ t \in Topics
      BY <2>5, <3>1, MessageByKind, StreamAssumption
    <3>3. out[i].base[t] <= Len(numbered[t])
      BY <2>5 DEF EInv, OnTheWay
    <3>. QED
      BY <3>2, <3>3, <1>3, <1>5
  <2>6. ASSUME NEW t \in Watched
        PROVE  last[t] <= Len(numbered'[t])
    <3>1. last[t] \in Nat /\ t \in Topics /\ last[t] <= Len(numbered[t])
      BY StreamAssumption DEF ETypeOK, EInv, OnTheWay
    <3>. QED
      BY <3>1, <1>3, <1>5
  <2>. QED
    BY <1>2, <2>1, <2>2, <2>3, <2>4, <2>5, <2>6 DEF OnTheWay, Given, client
<1>8. SubscribedOnce' /\ LastAccounted' /\ NoSilentLoss'
  BY <1>2 DEF EInv, SubscribedOnce, LastAccounted, NoSilentLoss, client
<1>. QED
  BY <1>7, <1>8 DEF EInv

LEMMA EInvSend ==
  ASSUME ETypeOK, EInv, NEW w \in Writers, Send(w)
  PROVE  EInv'
<1>. DEFINE all == Append(receiver, inHand[w])
<1>1. inHand[w] \in Event /\ inHand[w] # Nothing
  BY DEF Send, ETypeOK
<1>2. /\ receiver' = IF Len(all) > Capacity THEN Tail(all) ELSE all
      /\ inHand' = [inHand EXCEPT ![w] = Nothing]
      /\ UNCHANGED <<numbered, topics, inbox, out, client>>
  BY DEF Send
<1>3. all \in Seq(Event) /\ Len(all) = Len(receiver) + 1 /\ Len(receiver) \in Nat
  BY <1>1, Appended, LenProperties DEF ETypeOK
<1>4. \A i \in DOMAIN all : Given(all[i].topic, all[i].seq)
  BY <1>1, Appended DEF ETypeOK, EInv, OnTheWay
<1>5. all # << >>
  BY <1>3
<1>6. \A i \in DOMAIN receiver' : Given(receiver'[i].topic, receiver'[i].seq)
  BY <1>2, <1>3, <1>4, <1>5, HeadAndTail
<1>7. OnTheWay'
  BY <1>2, <1>6 DEF EInv, OnTheWay, Given, client, ETypeOK
<1>8. SubscribedOnce' /\ LastAccounted' /\ NoSilentLoss'
  BY <1>2 DEF EInv, SubscribedOnce, LastAccounted, NoSilentLoss, client
<1>. QED
  BY <1>7, <1>8 DEF EInv

(* What the connection adds to the client's queue. *)
LEMMA Told ==
  ASSUME ETypeOK, NEW m \in Message, Tell(m)
  PROVE  \A i \in DOMAIN out' : \/ i \in DOMAIN out /\ out'[i] = out[i]
                                \/ i = Len(out) + 1 /\ out'[i] = m
<1>. QED
  BY Appended DEF ETypeOK, Tell

LEMMA EInvConnection ==
  ASSUME ETypeOK, EInv, Connection
  PROVE  EInv'
<1>. DEFINE None == \A i \in DOMAIN inbox : inbox[i] # "subscribe"
<1>1. ASSUME ServeSubscribe
      PROVE  EInv'
  <2>. DEFINE m == [kind |-> "subscribed", base |-> [t \in Watched |-> Len(numbered[t])]]
  <2>1. m \in Message
    <3>1. \A t \in Watched : Len(numbered[t]) \in Nat
      BY StreamAssumption, LenProperties DEF ETypeOK
    <3>. QED
      BY <3>1 DEF Message
  <2>2. 1 \in DOMAIN inbox /\ inbox[1] = "subscribe"
    BY <1>1, HeadAndTail DEF ServeSubscribe, TakeRequest, ETypeOK
  <2>3. inbox = <<"subscribe">> /\ out = << >> /\ \A t \in Watched : got[t] = {}
    BY <2>2 DEF EInv, SubscribedOnce
  <2>4. inbox' = << >> /\ out' = <<m>>
    BY <1>1, <2>3 DEF ServeSubscribe, TakeRequest, Tell
  <2>5. UNCHANGED <<inHand, bus, client>>
    BY <1>1 DEF ServeSubscribe
  <2>6. \A i \in DOMAIN out' :
          /\ i = 1 /\ out'[i].kind = "subscribed"
          /\ \A t \in Watched : out'[i].base[t] = Len(numbered[t])
    BY <2>4
  <2>7. \A t \in Watched : Len(numbered[t]) <= Len(numbered[t])
    BY StreamAssumption, LenProperties DEF ETypeOK
  <2>8. OnTheWay'
    BY <2>5, <2>6, <2>7 DEF EInv, OnTheWay, Given, bus, client
  <2>9. SubscribedOnce'
    BY <2>3, <2>4, <2>5, <2>6 DEF SubscribedOnce, client
  <2>. QED
    BY <2>5, <2>8, <2>9 DEF EInv, LastAccounted, NoSilentLoss, client
<1>2. ASSUME ServeList
      PROVE  EInv'
  <2>. DEFINE m == [kind |-> "listed", heads |-> heads]
  <2>1. m \in Message
    BY DEF Message, ETypeOK
  <2>2. /\ 1 \in DOMAIN inbox /\ inbox[1] = "list"
        /\ \A i \in DOMAIN inbox' : i + 1 \in DOMAIN inbox /\ inbox'[i] = inbox[i + 1]
    BY <1>2, HeadAndTail DEF ServeList, TakeRequest, ETypeOK
  <2>3. None
    BY <2>2 DEF EInv, SubscribedOnce
  <2>4. \A i \in DOMAIN out' : \/ i \in DOMAIN out /\ out'[i] = out[i]
                               \/ i = Len(out) + 1 /\ out'[i] = m
    BY <1>2, <2>1, Told DEF ServeList
  <2>5. UNCHANGED <<inHand, bus, topics, client>>
    BY <1>2 DEF ServeList
  <2>6. OnTheWay'
    BY <2>4, <2>5 DEF EInv, OnTheWay, Given, bus, client
  <2>7. SubscribedOnce'
    BY <2>2, <2>3, <2>4, <2>5 DEF EInv, SubscribedOnce, client
  <2>. QED
    BY <2>5, <2>6, <2>7 DEF EInv, LastAccounted, NoSilentLoss, client
<1>3. ASSUME Forward
      PROVE  EInv'
  <2>. DEFINE e == Head(receiver)
              m == [kind |-> "event", topic |-> e.topic, seq |-> e.seq]
  <2>1. /\ e \in Event /\ Given(e.topic, e.seq)
        /\ \A i \in DOMAIN receiver' :
             i + 1 \in DOMAIN receiver /\ receiver'[i] = receiver[i + 1]
    <3>1. /\ e \in Event /\ 1 \in DOMAIN receiver /\ e = receiver[1]
          /\ \A i \in DOMAIN receiver' :
               i + 1 \in DOMAIN receiver /\ receiver'[i] = receiver[i + 1]
      BY <1>3, HeadAndTail DEF Forward, ETypeOK
    <3>. QED
      BY <3>1 DEF EInv, OnTheWay
  <2>2. UNCHANGED <<inHand, numbered, topics, inbox, client>>
    BY <1>3 DEF Forward
  <2>3. \A i \in DOMAIN receiver' : Given(receiver'[i].topic, receiver'[i].seq)
    BY <2>1 DEF EInv, OnTheWay
  <2>4. CASE e.topic \in topics
    <3>1. m \in Message
      BY <2>1, <2>4 DEF Message, Event, ETypeOK
    <3>2. \A i \in DOMAIN out' : \/ i \in DOMAIN out /\ out'[i] = out[i]
                                 \/ i = Len(out) + 1 /\ out'[i] = m
      BY <1>3, <2>4, <3>1, Told DEF Forward
    <3>3. None
      BY <2>4 DEF EInv, SubscribedOnce
    <3>4. OnTheWay'
      BY <2>1, <2>2, <2>3, <3>2 DEF EInv, OnTheWay, Given, client
    <3>5. SubscribedOnce'
      BY <2>2, <3>2, <3>3 DEF EInv, SubscribedOnce, client
    <3>. QED
      BY <2>2, <3>4, <3>5 DEF EInv, LastAccounted, NoSilentLoss, client
  <2>5. CASE e.topic \notin topics
    <3>1. UNCHANGED out
      BY <1>3, <2>5 DEF Forward
    <3>. QED
      BY <2>2, <2>3, <3>1
      DEF EInv, OnTheWay, SubscribedOnce, LastAccounted, NoSilentLoss, Given, client
  <2>. QED
    BY <2>4, <2>5
<1>. QED
  BY <1>1, <1>2, <1>3 DEF Connection

LEMMA EInvClient ==
  ASSUME ETypeOK, EInv, Client
  PROVE  EInv'
<1>. DEFINE None == \A i \in DOMAIN inbox : inbox[i] # "subscribe"
            Rests == \A i \in DOMAIN out' :
                       /\ i + 1 \in DOMAIN out /\ out'[i] = out[i + 1]
                       /\ out'[i].kind # "subscribed"
<1>1. None /\ Rests /\ 1 \in DOMAIN out /\ Head(out) = out[1]
  <2>1. PICK kind : Receive(kind)
    BY DEF Client, ReceiveSubscribed, ReceiveEvent, ReceiveListed
  <2>2. /\ 1 \in DOMAIN out /\ Head(out) = out[1]
        /\ \A i \in DOMAIN out' : i + 1 \in DOMAIN out /\ out'[i] = out[i + 1]
    BY <2>1, ReceiveType
  <2>3. None
    BY <2>1 DEF Receive, EInv, SubscribedOnce
  <2>4. \A i \in DOMAIN out' : i \in Nat \ {0}
    <3>1. DOMAIN out' = 1..Len(out')
      BY <2>1, ReceiveType, LenProperties
    <3>. QED
      BY <3>1
  <2>5. \A i \in DOMAIN out' : out'[i].kind # "subscribed"
    BY <2>2, <2>4 DEF EInv, SubscribedOnce
  <2>. QED
    BY <2>2, <2>3, <2>5
<1>2. \A i \in DOMAIN out' :
        /\ out'[i].kind = "event" => Given(out'[i].topic, out'[i].seq)
        /\ out'[i].kind # "subscribed"
  BY <1>1 DEF EInv, OnTheWay
<1>3. ASSUME ReceiveSubscribed
      PROVE  EInv'
  <2>1. Head(out).base \in [Watched -> Nat] /\ Head(out).kind = "subscribed"
    BY <1>3, ReceiveType, MessageByKind DEF ReceiveSubscribed
  <2>2. \A t \in Watched : got[t] = {}
    BY <1>1, <2>1 DEF EInv, SubscribedOnce
  <2>3. /\ last' = Head(out).base /\ covered' = Head(out).base /\ got' = got
        /\ UNCHANGED <<inHand, bus, topics>>
    BY <1>3 DEF ReceiveSubscribed
  <2>4. \A i \in DOMAIN inbox' : inbox'[i] # "subscribe"
    <3>1. inbox' = Append(inbox, "list") /\ inbox \in Seq({"subscribe", "list"})
      BY <1>3 DEF ReceiveSubscribed, ETypeOK
    <3>. QED
      BY <1>1, <3>1, Appended
  <2>5. OnTheWay'
    <3>1. \A t \in Watched : Head(out).base[t] <= Len(numbered[t])
      BY <1>1, <2>1 DEF EInv, OnTheWay
    <3>. QED
      BY <1>2, <2>2, <2>3, <3>1 DEF EInv, OnTheWay, Given, bus
  <2>6. SubscribedOnce'
    BY <1>1, <2>4 DEF SubscribedOnce
  <2>7. LastAccounted' /\ NoSilentLoss'
    BY <2>1, <2>2, <2>3 DEF LastAccounted, NoSilentLoss
  <2>. QED
    BY <2>5, <2>6, <2>7 DEF EInv
<1>4. ASSUME ReceiveEvent
      PROVE  EInv'
  <2>. DEFINE e == Head(out)
              n == e.seq
              k == e.topic
  <2>1. /\ k \in Watched /\ n \in Nat /\ e.kind = "event" /\ Given(k, n)
        /\ n >= 1
    <3>1. k \in Watched /\ n \in Nat /\ e.kind = "event"
      BY <1>4, ReceiveType, MessageByKind DEF ReceiveEvent
    <3>2. Given(k, n)
      BY <1>1, <3>1 DEF EInv, OnTheWay
    <3>. QED
      BY <3>1, <3>2 DEF Given
  <2>2. /\ last' = [last EXCEPT ![k] = n]
        /\ got' = [got EXCEPT ![k] = @ \cup {n}]
        /\ covered' = IF IsGap(e) THEN [t \in Watched |-> Len(numbered[t])] ELSE covered
        /\ inbox' = inbox \o Asks(e)
        /\ UNCHANGED <<inHand, bus, topics>>
    BY <1>4 DEF ReceiveEvent
  <2>3. got'[k] = got[k] \cup {n} /\ \A t \in Watched : t # k => got'[t] = got[t]
    BY <2>1, <2>2 DEF ETypeOK
  <2>4. \A t \in Watched : \A m \in got'[t] : m \in got[t] \/ (t = k /\ m = n)
    BY <2>3
  <2>5. \A t \in Watched : \A m \in got[t] : m \in got'[t]
    BY <2>3
  <2>6. n \in got'[k] /\ last'[k] = n /\ \A t \in Watched : t # k => last'[t] = last[t]
    BY <2>1, <2>2 DEF ETypeOK
  <2>7. \A t \in Watched : \A m \in got'[t] : Given(t, m)
    BY <2>1, <2>4 DEF EInv, OnTheWay
  <2>8. \A t \in Watched : last'[t] <= Len(numbered[t])
    <3>1. n <= Len(numbered[k])
      BY <2>1, StreamAssumption, LenProperties DEF Given, ETypeOK
    <3>. QED
      BY <2>6, <3>1 DEF EInv, OnTheWay
  <2>9. OnTheWay'
    BY <1>2, <2>2, <2>7, <2>8 DEF EInv, OnTheWay, Given, bus
  <2>10. \A i \in DOMAIN inbox' : inbox'[i] # "subscribe"
    <3>1. Asks(e) \in Seq({"list"})
      BY AsksType
    <3>2. \A i \in DOMAIN Asks(e) : Asks(e)[i] = "list"
      BY <3>1, LenProperties, ElementOfSeq
    <3>3. Asks(e) \in Seq({"subscribe", "list"}) /\ inbox \in Seq({"subscribe", "list"})
      BY <3>1, SeqMonotonic, {"list"} \subseteq {"subscribe", "list"} DEF ETypeOK
    <3>. QED
      BY <1>1, <2>2, <3>2, <3>3, Concatenated
  <2>11. SubscribedOnce'
    BY <1>1, <2>10 DEF SubscribedOnce
  <2>12. CASE IsGap(e)
    <3>1. \A t \in Watched : covered'[t] = Len(numbered[t]) /\ Len(numbered[t]) \in Nat
      BY <2>2, <2>12, StreamAssumption, LenProperties DEF ETypeOK
    <3>2. \A t \in Watched : \A m \in got'[t] : m <= covered'[t] /\ m \in Nat
      BY <2>7, <3>1 DEF Given
    <3>3. NoSilentLoss'
      BY <3>1, <3>2 DEF NoSilentLoss
    <3>4. ASSUME NEW t \in Watched
          PROVE  last'[t] \in got'[t] \/ last'[t] <= covered'[t]
      BY <2>8, <3>1
    <3>. QED
      BY <2>9, <2>11, <3>3, <3>4 DEF EInv, LastAccounted
  <2>13. CASE ~IsGap(e)
    <3>1. covered' = covered
      BY <2>2, <2>13
    <3>2. n <= last[k] + 1 /\ last[k] \in Nat /\ covered[k] \in Nat
      BY <2>1, <2>13 DEF IsGap, ETypeOK
    <3>3. ASSUME NEW s \in 1..n
          PROVE  s \in got'[k] \/ s <= covered'[k]
      <4>1. CASE s = n
        BY <4>1, <2>6
      <4>2. CASE s < n
        <5>1. s \in 1..last[k]
          BY <2>1, <3>2, <4>2
        <5>2. CASE last[k] \in got[k]
          BY <2>1, <2>5, <3>1, <5>1, <5>2 DEF EInv, NoSilentLoss
        <5>3. CASE last[k] <= covered[k]
          BY <3>1, <3>2, <5>1, <5>3
        <5>. QED
          BY <2>1, <5>2, <5>3 DEF EInv, LastAccounted
      <4>. QED
        BY <2>1, <4>1, <4>2
    <3>4. NoSilentLoss'
      BY <2>4, <2>5, <3>1, <3>3 DEF EInv, NoSilentLoss
    <3>5. LastAccounted'
      BY <2>5, <2>6, <3>1 DEF EInv, LastAccounted
    <3>. QED
      BY <2>9, <2>11, <3>4, <3>5 DEF EInv
  <2>. QED
    BY <2>12, <2>13
<1>5. ASSUME ReceiveListed
      PROVE  EInv'
  <2>1. UNCHANGED <<inHand, bus, topics, inbox, last, got, covered>>
    BY <1>5 DEF ReceiveListed
  <2>2. SubscribedOnce'
    BY <1>1, <2>1 DEF SubscribedOnce
  <2>. QED
    BY <1>2, <2>1, <2>2 DEF EInv, OnTheWay, LastAccounted, NoSilentLoss, Given, bus
<1>. QED
  BY <1>3, <1>4, <1>5 DEF Client

LEMMA EInvNext == ETypeOK /\ EInv /\ [Next]_vars => EInv'
<1>. SUFFICES ASSUME ETypeOK, EInv, [Next]_vars PROVE EInv'
  OBVIOUS
<1>1. CASE UNCHANGED vars \/ Rest
  BY <1>1, EInvFrame DEF vars, Rest
<1>2. ASSUME NEW w \in Writers, Operate(w)
      PROVE  EInv'
  BY <1>2, EInvFrame
  DEF Operate, Save, CommitSilently, Scan, CreateProposal, AcceptProposal, CloseProposal, Change
<1>3. ASSUME NEW w \in Writers, NextFound(w) \/ CollectStale(w)
      PROVE  EInv'
  BY <1>3, EInvFrame DEF NextFound, CollectStale
<1>. QED
  BY <1>1, <1>2, <1>3, EInvNumber, EInvSend, EInvConnection, EInvClient DEF Next, Publish

(* However many writers number and send in whatever order, and however     *)
(* many events the receiver loses, a client that receives an event has     *)
(* received every earlier one of the topic or asked again since.           *)
THEOREM NoSilentLossHolds == Spec => []NoSilentLoss
<1>1. Spec => [](ETypeOK /\ EInv)
  BY InitType, NextType, EInvInit, EInvNext, PTL DEF Spec
<1>2. EInv => NoSilentLoss
  BY DEF EInv
<1>. QED
  BY <1>1, <1>2, PTL

-------------------------------------------------------------------------------
(* What one operation of a writer does to the vault, and what it plans to  *)
(* publish for it.                                                         *)

(* An order of a finite set reaches each of its elements. *)
LEMMA OrdersReachAll ==
  ASSUME NEW S, IsFiniteSet(S), NEW f \in SetToSeqs(S), NEW x \in S
  PROVE  \E i \in DOMAIN f : f[i] = x
<1>. DEFINE n == Cardinality(S)
<1>1. n \in Nat
  BY FS_CardinalityType
<1>2. f \in Injection(1..n, S)
  BY DEF SetToSeqs, Injection, IsInjective
<1>3. IsFiniteSet(1..n) /\ Cardinality(1..n) = n
  BY <1>1, FS_Interval
<1>4. f \in Surjection(1..n, S)
  BY <1>2, <1>3, FS_Injection
<1>. QED
  BY <1>4 DEF Surjection

(* Topics of the items that name a revision. *)
Revealing == {"committed", "changed", "found"}

(* The revision that an item names is one of the vault's. *)
Known(x, vaultHeads) == x.topic \in Revealing => x.rev <= vaultHeads[x.doc]

(* The plan of a writer announces revision r of d. *)
Announces(plan, d, r) ==
  \E i \in DOMAIN plan :
    plan[i].topic \in {"committed", "found"} /\ plan[i].doc = d /\ plan[i].rev = r

(* The plan of a writer collects the stale proposals of d. *)
Collects(plan, d) ==
  \E i \in DOMAIN plan : plan[i].topic \in {"fanout", "found"} /\ plan[i].doc = d

(* Every document whose revision an operation adds is announced and its    *)
(* proposals are looked through, unless the operation then fails.          *)
NewRevisions(w) ==
  \A d \in Docs :
    \/ heads'[d] = heads[d]
    \/ /\ heads'[d] = heads[d] + 1
       /\ \/ <<d, heads'[d]>> \in silent'
          \/ Announces(agenda'[w], d, heads'[d]) /\ Collects(agenda'[w], d)

LEMMA CommitHeads ==
  ASSUME ETypeOK, NEW ds \in SUBSET Docs, Commit(ds)
  PROVE  \A d \in Docs : heads'[d] = IF d \in ds THEN heads[d] + 1 ELSE heads[d]
<1>. QED
  BY DEF ETypeOK, Commit

LEMMA OperateEffect ==
  ASSUME ETypeOK, NEW w \in Writers, Operate(w)
  PROVE  /\ Free(w)
         /\ \A x \in Writers : x # w => agenda'[x] = agenda[x]
         /\ UNCHANGED <<inHand, bus, topics, inbox, out, client>>
         /\ silent \subseteq silent'
         /\ \A p \in open' : p \in open \/ (heads' = heads /\ p.base = heads[p.doc])
         /\ \A i \in DOMAIN agenda'[w] : Known(agenda'[w][i], heads')
         /\ NewRevisions(w)
<1>. DEFINE Goal == /\ Free(w)
                    /\ \A x \in Writers : x # w => agenda'[x] = agenda[x]
                    /\ UNCHANGED <<inHand, bus, topics, inbox, out, client>>
                    /\ silent \subseteq silent'
                    /\ \A p \in open' : p \in open \/ (heads' = heads /\ p.base = heads[p.doc])
                    /\ \A i \in DOMAIN agenda'[w] : Known(agenda'[w][i], heads')
                    /\ NewRevisions(w)
<1>0. ASSUME NEW events, Change(w, events)
      PROVE  /\ Free(w) /\ agenda'[w] = events
             /\ \A x \in Writers : x # w => agenda'[x] = agenda[x]
             /\ UNCHANGED <<inHand, bus, topics, inbox, out, client>>
  BY <1>0 DEF Change, ETypeOK
<1>1. ASSUME NEW d \in Docs, Save(w, d)
      PROVE  Goal
  <2>1. /\ heads' \in [Docs -> Nat]
        /\ \A x \in Docs : heads'[x] = IF x = d THEN heads[x] + 1 ELSE heads[x]
    BY <1>1, CommitType, CommitHeads DEF Save
  <2>2. /\ Free(w) /\ agenda'[w] = <<Committed(d, "committed"), After(d)>>
        /\ \A x \in Writers : x # w => agenda'[x] = agenda[x]
        /\ UNCHANGED <<inHand, bus, topics, inbox, out, client>>
    BY <1>0, <1>1 DEF Save
  <2>3. UNCHANGED <<open, used, silent>>
    BY <1>1 DEF Save
  <2>4. \A i \in DOMAIN agenda'[w] : Known(agenda'[w][i], heads')
    BY <2>1, <2>2 DEF Known, Committed, After, Revealing
  <2>5. NewRevisions(w)
    <3>1. Announces(agenda'[w], d, heads'[d]) /\ Collects(agenda'[w], d)
      BY <2>1, <2>2 DEF Announces, Collects, Committed, After
    <3>. QED
      BY <2>1, <3>1 DEF NewRevisions
  <2>. QED
    BY <2>2, <2>3, <2>4, <2>5
<1>2. ASSUME NEW d \in Docs, CommitSilently(w, d)
      PROVE  Goal
  <2>1. /\ heads' \in [Docs -> Nat]
        /\ \A x \in Docs : heads'[x] = IF x = d THEN heads[x] + 1 ELSE heads[x]
    BY <1>2, CommitType, CommitHeads DEF CommitSilently
  <2>2. /\ Free(w) /\ agenda'[w] = << >>
        /\ \A x \in Writers : x # w => agenda'[x] = agenda[x]
        /\ UNCHANGED <<inHand, bus, topics, inbox, out, client>>
    BY <1>0, <1>2 DEF CommitSilently
  <2>3. silent' = silent \cup {<<d, heads'[d]>>} /\ UNCHANGED <<open, used>>
    BY <1>2 DEF CommitSilently
  <2>4. \A i \in DOMAIN agenda'[w] : Known(agenda'[w][i], heads')
    BY <2>2
  <2>5. NewRevisions(w)
    BY <2>1, <2>3 DEF NewRevisions
  <2>. QED
    BY <2>2, <2>3, <2>4, <2>5
<1>3. ASSUME NEW ds \in SUBSET Docs, Scan(w, ds)
      PROVE  Goal
  <2>1. /\ heads' \in [Docs -> Nat]
        /\ \A x \in Docs : heads'[x] = IF x \in ds THEN heads[x] + 1 ELSE heads[x]
    BY <1>3, CommitType, CommitHeads DEF Scan
  <2>2. PICK found \in SetToSeqs(ds) :
          Change(w, [i \in DOMAIN found |-> Committed(found[i], "found")])
    BY <1>3 DEF Scan
  <2>3. /\ IsFiniteSet(ds)
        /\ \A i \in DOMAIN found : found[i] \in ds
    BY OrdersAreSeqs, FS_Subset, StreamAssumption
  <2>4. /\ Free(w)
        /\ agenda'[w] = [i \in DOMAIN found |-> Committed(found[i], "found")]
        /\ \A x \in Writers : x # w => agenda'[x] = agenda[x]
        /\ UNCHANGED <<inHand, bus, topics, inbox, out, client>>
    BY <1>0, <2>2
  <2>5. UNCHANGED <<open, used, silent>>
    BY <1>3 DEF Scan
  <2>6. /\ DOMAIN agenda'[w] = DOMAIN found
        /\ \A i \in DOMAIN agenda'[w] :
             /\ agenda'[w][i].topic = "found" /\ agenda'[w][i].doc = found[i]
             /\ agenda'[w][i].rev = heads'[found[i]]
    BY <2>4 DEF Committed
  <2>7. \A i \in DOMAIN agenda'[w] : Known(agenda'[w][i], heads')
    <3>1. \A d \in ds : heads'[d] <= heads'[d]
      BY <2>1
    <3>. QED
      BY <2>3, <2>6, <3>1 DEF Known
  <2>8. ASSUME NEW d \in ds
        PROVE  Announces(agenda'[w], d, heads'[d]) /\ Collects(agenda'[w], d)
    <3>1. PICK i \in DOMAIN found : found[i] = d
      BY <2>3, OrdersReachAll
    <3>2. /\ i \in DOMAIN agenda'[w]
          /\ agenda'[w][i].topic = "found" /\ agenda'[w][i].doc = d
          /\ agenda'[w][i].rev = heads'[d]
      BY <2>6, <3>1
    <3>. QED
      BY <3>2 DEF Announces, Collects
  <2>9. NewRevisions(w)
    BY <2>1, <2>8 DEF NewRevisions
  <2>. QED
    BY <2>4, <2>5, <2>7, <2>9
<1>4. ASSUME NEW p \in Proposals, NEW d \in Docs, CreateProposal(w, p, d)
      PROVE  Goal
  <2>1. /\ Free(w) /\ agenda'[w] = <<Updated(p)>>
        /\ \A x \in Writers : x # w => agenda'[x] = agenda[x]
        /\ UNCHANGED <<inHand, bus, topics, inbox, out, client>>
    BY <1>0, <1>4 DEF CreateProposal
  <2>2. /\ open' = open \cup {[prop |-> p, doc |-> d, base |-> heads[d]]}
        /\ UNCHANGED <<heads, silent>>
    BY <1>4 DEF CreateProposal
  <2>3. \A i \in DOMAIN agenda'[w] : Known(agenda'[w][i], heads')
    BY <2>1 DEF Known, Updated, Revealing
  <2>4. NewRevisions(w)
    BY <2>2 DEF NewRevisions
  <2>. QED
    BY <2>1, <2>2, <2>3, <2>4
<1>5. ASSUME NEW p \in open, AcceptProposal(w, p)
      PROVE  Goal
  <2>1. p.doc \in Docs /\ p.prop \in Proposals
    BY DEF ETypeOK
  <2>2. /\ heads' \in [Docs -> Nat]
        /\ \A x \in Docs : heads'[x] = IF x = p.doc THEN heads[x] + 1 ELSE heads[x]
    BY <1>5, <2>1, CommitType, CommitHeads DEF AcceptProposal
  <2>3. /\ Free(w)
        /\ agenda'[w] = <<Committed(p.doc, "committed"), Updated(p.prop), After(p.doc)>>
        /\ \A x \in Writers : x # w => agenda'[x] = agenda[x]
        /\ UNCHANGED <<inHand, bus, topics, inbox, out, client>>
    BY <1>0, <1>5 DEF AcceptProposal
  <2>4. open' \subseteq open /\ UNCHANGED silent
    BY <1>5 DEF AcceptProposal
  <2>5. \A i \in DOMAIN agenda'[w] : Known(agenda'[w][i], heads')
    BY <2>1, <2>2, <2>3 DEF Known, Committed, Updated, After, Revealing
  <2>6. NewRevisions(w)
    <3>1. Announces(agenda'[w], p.doc, heads'[p.doc]) /\ Collects(agenda'[w], p.doc)
      BY <2>2, <2>3 DEF Announces, Collects, Committed, After
    <3>. QED
      BY <2>1, <2>2, <3>1 DEF NewRevisions
  <2>. QED
    BY <2>3, <2>4, <2>5, <2>6
<1>6. ASSUME NEW p \in open, CloseProposal(w, p)
      PROVE  Goal
  <2>1. /\ Free(w) /\ agenda'[w] = <<Updated(p.prop)>>
        /\ \A x \in Writers : x # w => agenda'[x] = agenda[x]
        /\ UNCHANGED <<inHand, bus, topics, inbox, out, client>>
    BY <1>0, <1>6 DEF CloseProposal
  <2>2. open' \subseteq open /\ UNCHANGED <<heads, silent>>
    BY <1>6 DEF CloseProposal
  <2>3. \A i \in DOMAIN agenda'[w] : Known(agenda'[w][i], heads')
    BY <2>1 DEF Known, Updated, Revealing
  <2>4. NewRevisions(w)
    BY <2>2 DEF NewRevisions
  <2>. QED
    BY <2>1, <2>2, <2>3, <2>4
<1>. QED
  BY <1>1, <1>2, <1>3, <1>4, <1>5, <1>6 DEF Operate

(* The plan of a writer calls proposal p stale. *)
Calls(plan, p) == \E i \in DOMAIN plan : plan[i].topic = "stale" /\ plan[i].prop = p

(* Plan n has the items u instead of the head of plan s. *)
HasInstead(s, u, n) ==
  /\ \A i \in DOMAIN n : (\E j \in DOMAIN u : n[i] = u[j]) \/ (\E j \in DOMAIN s : n[i] = s[j])
  /\ \A j \in DOMAIN u : j \in DOMAIN n /\ n[j] = u[j]
  /\ \A j \in DOMAIN s : s[j] = Head(s) \/ \E i \in DOMAIN n : n[i] = s[j]

LEMMA HeadReplaced ==
  ASSUME NEW S, NEW s \in Seq(S), s # <<>>, NEW u \in Seq(S)
  PROVE  u \o Tail(s) \in Seq(S) /\ HasInstead(s, u, u \o Tail(s))
<1>. DEFINE t == Tail(s)
            n == u \o t
<1>1. /\ t \in Seq(S) /\ Len(t) = Len(s) - 1 /\ Len(s) \in Nat /\ Len(u) \in Nat
      /\ DOMAIN s = 1..Len(s) /\ DOMAIN u = 1..Len(u) /\ DOMAIN t = 1..Len(t)
      /\ Head(s) = s[1]
      /\ \A i \in DOMAIN t : i + 1 \in DOMAIN s /\ t[i] = s[i + 1]
  BY HeadAndTail, LenProperties
<1>2. /\ n \in Seq(S) /\ Len(n) = Len(u) + Len(t) /\ DOMAIN n = 1..Len(n)
      /\ \A i \in 1..Len(n) : n[i] = IF i <= Len(u) THEN u[i] ELSE t[i - Len(u)]
  BY <1>1, ConcatProperties, LenProperties
<1>3. ASSUME NEW i \in DOMAIN n
      PROVE  \/ \E j \in DOMAIN u : n[i] = u[j]
             \/ \E j \in DOMAIN s : n[i] = s[j]
  <2>1. CASE i <= Len(u)
    BY <1>1, <1>2, <2>1
  <2>2. CASE i > Len(u)
    <3>1. i - Len(u) \in DOMAIN t /\ n[i] = t[i - Len(u)]
      BY <1>1, <1>2, <2>2
    <3>. QED
      BY <1>1, <3>1
  <2>. QED
    BY <1>1, <1>2, <2>1, <2>2
<1>4. ASSUME NEW j \in DOMAIN u
      PROVE  j \in DOMAIN n /\ n[j] = u[j]
  BY <1>1, <1>2
<1>5. ASSUME NEW j \in DOMAIN s, j # 1
      PROVE  \E i \in DOMAIN n : n[i] = s[j]
  <2>1. j - 1 \in DOMAIN t /\ t[j - 1] = s[j]
    BY <1>1, <1>5
  <2>2. Len(u) + j - 1 \in DOMAIN n /\ n[Len(u) + j - 1] = t[j - 1]
    BY <1>1, <1>2, <2>1
  <2>. QED
    BY <2>1, <2>2
<1>. QED
  BY <1>1, <1>2, <1>3, <1>4, <1>5 DEF HasInstead

LEMMA PlanTypes ==
  ASSUME ETypeOK, NEW w \in Writers
  PROVE  /\ agenda[w] \in Seq(Item)
         /\ \A i \in DOMAIN agenda[w] : agenda[w][i] \in Item
<1>1. agenda[w] \in Seq(Item)
  BY DEF ETypeOK, Item
<1>. QED
  BY <1>1, ElementOfSeq, LenProperties

(* A converted file is announced twice more, and its proposals are still   *)
(* to be looked through.                                                   *)
LEMMA NextFoundEffect ==
  ASSUME ETypeOK, NEW w \in Writers, NextFound(w)
  PROVE  /\ \A x \in Writers : x # w => agenda'[x] = agenda[x]
         /\ \A h : (\A i \in DOMAIN agenda[w] : Known(agenda[w][i], h))
                     => \A i \in DOMAIN agenda'[w] : Known(agenda'[w][i], h)
         /\ \A d, r : Announces(agenda[w], d, r) => Announces(agenda'[w], d, r)
         /\ \A d : Collects(agenda[w], d) => Collects(agenda'[w], d)
         /\ \A p : Calls(agenda[w], p) => Calls(agenda'[w], p)
<1>. DEFINE f == Head(agenda[w])
            a == [f EXCEPT !.topic = "changed"]
            b == [f EXCEPT !.topic = "committed"]
            c == After(f.doc)
            three == <<a, b, c>>
            s == agenda[w]
            n == agenda'[w]
<1>1. s \in Seq(Item) /\ s # << >> /\ f \in Item /\ f = s[1] /\ 1 \in DOMAIN s
  BY PlanTypes, HeadAndTail DEF NextFound
<1>2. f \in Found
  BY <1>1, ItemsByTopic DEF NextFound
<1>3. /\ a.topic = "changed" /\ a.doc = f.doc /\ a.rev = f.rev
      /\ b.topic = "committed" /\ b.doc = f.doc /\ b.rev = f.rev
      /\ c.topic = "fanout" /\ c.doc = f.doc /\ f.topic = "found"
      /\ a \in Item /\ b \in Item /\ c \in Item
  BY <1>2 DEF Found, After, Item, Payload, FanOut
<1>4. /\ three \in Seq(Item) /\ DOMAIN three = 1..3
      /\ three[1] = a /\ three[2] = b /\ three[3] = c
  BY <1>3, ShortSeqs
<1>5. n = three \o Tail(s) /\ \A x \in Writers : x # w => agenda'[x] = agenda[x]
  BY DEF NextFound, ETypeOK
<1>. HIDE DEF f, a, b, c, three, s, n
<1>6. /\ \A i \in DOMAIN n :
           \/ n[i] \in {a, b, c}
           \/ \E j \in DOMAIN s : n[i] = s[j]
      /\ \A j \in DOMAIN s : s[j] = f \/ \E i \in DOMAIN n : n[i] = s[j]
      /\ \A x \in {a, b, c} : \E i \in DOMAIN n : n[i] = x
  <2>1. /\ \A i \in DOMAIN n :
             \/ \E j \in DOMAIN three : n[i] = three[j]
             \/ \E j \in DOMAIN s : n[i] = s[j]
        /\ \A j \in DOMAIN three : j \in DOMAIN n /\ n[j] = three[j]
        /\ \A j \in DOMAIN s : s[j] = Head(s) \/ \E i \in DOMAIN n : n[i] = s[j]
    <3>1. HasInstead(s, three, n)
      BY <1>1, <1>4, <1>5, HeadReplaced
    <3>. QED
      BY <3>1 DEF HasInstead
  <2>2. Head(s) = f
    BY DEF f, s
  <2>3. \A j \in 1..3 : j = 1 \/ j = 2 \/ j = 3
    OBVIOUS
  <2>. QED
    BY <1>4, <2>1, <2>2, <2>3
<1>7. ASSUME NEW h, \A i \in DOMAIN s : Known(s[i], h)
      PROVE  \A i \in DOMAIN n : Known(n[i], h)
  <2>1. Known(f, h)
    BY <1>1, <1>7
  <2>2. Known(a, h) /\ Known(b, h) /\ Known(c, h)
    BY <1>3, <2>1 DEF Known, Revealing
  <2>. QED
    BY <1>6, <1>7, <2>2
<1>8. ASSUME NEW d, NEW r, Announces(s, d, r)
      PROVE  Announces(n, d, r)
  <2>1. PICK j \in DOMAIN s : s[j].topic \in {"committed", "found"} /\ s[j].doc = d /\ s[j].rev = r
    BY <1>8 DEF Announces
  <2>2. CASE s[j] = f
    BY <1>3, <1>6, <2>1, <2>2 DEF Announces
  <2>3. CASE \E i \in DOMAIN n : n[i] = s[j]
    BY <2>1, <2>3 DEF Announces
  <2>. QED
    BY <1>6, <2>2, <2>3
<1>9. ASSUME NEW d, Collects(s, d)
      PROVE  Collects(n, d)
  <2>1. PICK j \in DOMAIN s : s[j].topic \in {"fanout", "found"} /\ s[j].doc = d
    BY <1>9 DEF Collects
  <2>2. CASE s[j] = f
    BY <1>3, <1>6, <2>1, <2>2 DEF Collects
  <2>3. CASE \E i \in DOMAIN n : n[i] = s[j]
    BY <2>1, <2>3 DEF Collects
  <2>. QED
    BY <1>6, <2>2, <2>3
<1>10. ASSUME NEW p, Calls(s, p)
       PROVE  Calls(n, p)
  BY <1>3, <1>6, <1>10 DEF Calls
<1>. QED
  BY <1>5, <1>7, <1>8, <1>9, <1>10 DEF s, n

(* The stale proposals of a document take the place of its fan-out. *)
LEMMA CollectStaleEffect ==
  ASSUME ETypeOK, NEW w \in Writers, CollectStale(w)
  PROVE  /\ \A x \in Writers : x # w => agenda'[x] = agenda[x]
         /\ \A h : (\A i \in DOMAIN agenda[w] : Known(agenda[w][i], h))
                     => \A i \in DOMAIN agenda'[w] : Known(agenda'[w][i], h)
         /\ \A d, r : Announces(agenda[w], d, r) => Announces(agenda'[w], d, r)
         /\ \A d : Collects(agenda[w], d) =>
              \/ Collects(agenda'[w], d)
              \/ \A p \in open : p.doc = d /\ Stale(p) => Calls(agenda'[w], p.prop)
         /\ \A p : Calls(agenda[w], p) => Calls(agenda'[w], p)
<1>. DEFINE f == Head(agenda[w])
            ps == {p \in open : p.doc = f.doc /\ Stale(p)}
            names == {p.prop : p \in ps}
            s == agenda[w]
            n == agenda'[w]
<1>1. s \in Seq(Item) /\ s # << >> /\ f.topic = "fanout"
  BY PlanTypes DEF CollectStale
<1>2. PICK told \in StaleEvents(ps) : agenda' = [agenda EXCEPT ![w] = told \o Tail(@)]
  BY DEF CollectStale
<1>3. PICK ids \in SetToSeqs(names) :
        told = [i \in DOMAIN ids |-> [topic |-> "stale", prop |-> ids[i]]]
  BY <1>2 DEF StaleEvents
<1>4. IsFiniteSet(names) /\ names \subseteq Proposals
  <2>1. names \subseteq Proposals
    BY DEF ETypeOK
  <2>. QED
    BY <2>1, FS_Subset, StreamAssumption
<1>5. /\ ids \in Seq(names) /\ \A i \in DOMAIN ids : ids[i] \in names
      /\ \A x \in names : \E i \in DOMAIN ids : ids[i] = x
  BY <1>4, OrdersAreSeqs, OrdersReachAll
<1>6. /\ DOMAIN told = DOMAIN ids
      /\ \A i \in DOMAIN told : told[i].topic = "stale" /\ told[i].prop = ids[i]
  BY <1>3
<1>7. told \in Seq(Item)
  <2>1. DOMAIN ids = 1..Len(ids) /\ Len(ids) \in Nat
    BY <1>5, LenProperties
  <2>2. \A i \in 1..Len(ids) : [topic |-> "stale", prop |-> ids[i]] \in Item
    BY <1>4, <1>5, <2>1, PlannedItems
  <2>. QED
    BY <1>3, <2>1, <2>2, IsASeq
<1>8. n = told \o Tail(s) /\ \A x \in Writers : x # w => agenda'[x] = agenda[x]
  BY <1>2 DEF ETypeOK
<1>9. \A p \in open : p.doc = f.doc /\ Stale(p) => p.prop \in names
  OBVIOUS
<1>10. Head(s) = f
  OBVIOUS
<1>. HIDE DEF f, ps, names, s, n
<1>11. /\ \A i \in DOMAIN n :
            \/ \E j \in DOMAIN told : n[i] = told[j]
            \/ \E j \in DOMAIN s : n[i] = s[j]
       /\ \A j \in DOMAIN told : j \in DOMAIN n /\ n[j] = told[j]
       /\ \A j \in DOMAIN s : s[j] = f \/ \E i \in DOMAIN n : n[i] = s[j]
  <2>1. HasInstead(s, told, n)
    BY <1>1, <1>7, <1>8, HeadReplaced
  <2>. QED
    BY <2>1, <1>10 DEF HasInstead
<1>12. ASSUME NEW h, \A i \in DOMAIN s : Known(s[i], h)
       PROVE  \A i \in DOMAIN n : Known(n[i], h)
  BY <1>6, <1>11, <1>12 DEF Known, Revealing
<1>13. ASSUME NEW d, NEW r, Announces(s, d, r)
       PROVE  Announces(n, d, r)
  BY <1>1, <1>11, <1>13 DEF Announces
<1>14. ASSUME NEW p, Calls(s, p)
       PROVE  Calls(n, p)
  BY <1>1, <1>11, <1>14 DEF Calls
<1>15. ASSUME NEW d, Collects(s, d), ~ Collects(n, d), NEW p \in open, p.doc = d, Stale(p)
       PROVE  Calls(n, p.prop)
  <2>1. f.doc = d
    BY <1>11, <1>15 DEF Collects
  <2>2. PICK i \in DOMAIN told : told[i].topic = "stale" /\ told[i].prop = p.prop
    BY <1>5, <1>6, <1>9, <1>15, <2>1
  <2>. QED
    BY <1>11, <2>2 DEF Calls
<1>. QED
  BY <1>8, <1>12, <1>13, <1>14, <1>15 DEF s, n

(* Taking a number leaves the rest of the plan, and moves its head to the  *)
(* numbered events of the topic.                                           *)
LEMMA NumberEffect ==
  ASSUME ETypeOK, NEW w \in Writers, Number(w)
  PROVE  /\ \A x \in Writers : x # w => agenda'[x] = agenda[x]
         /\ \A i \in DOMAIN agenda'[w] : \E j \in DOMAIN agenda[w] : agenda'[w][i] = agenda[w][j]
         /\ \A t \in Topics : \A i \in DOMAIN numbered[t] :
              i \in DOMAIN numbered'[t] /\ numbered'[t][i] = numbered[t][i]
         /\ \A t \in Topics : \A i \in DOMAIN numbered'[t] :
              \/ i \in DOMAIN numbered[t]
              \/ numbered'[t][i].topic = t /\ \E j \in DOMAIN agenda[w] : numbered'[t][i] = agenda[w][j]
         /\ \A j \in DOMAIN agenda[w] :
              \/ \E i \in DOMAIN agenda'[w] : agenda'[w][i] = agenda[w][j]
              \/ /\ agenda[w][j].topic \in Topics
                 /\ \E i \in DOMAIN numbered'[agenda[w][j].topic] :
                      numbered'[agenda[w][j].topic][i] = agenda[w][j]
<1>. DEFINE e == Head(agenda[w])
            s == agenda[w]
            n == agenda'[w]
<1>1. /\ s \in Seq(Item) /\ s # << >> /\ e \in Item /\ e = s[1] /\ 1 \in DOMAIN s
      /\ e \in Payload /\ e.topic \in Topics
  BY PlanTypes, HeadAndTail, ItemsByTopic DEF Number
<1>2. /\ n = Tail(s) /\ \A x \in Writers : x # w => agenda'[x] = agenda[x]
      /\ numbered' = [numbered EXCEPT ![e.topic] = Append(@, e)]
  BY DEF Number, ETypeOK
<1>3. /\ numbered[e.topic] \in Seq(Payload)
      /\ numbered'[e.topic] = Append(numbered[e.topic], e)
      /\ \A t \in Topics : t # e.topic => numbered'[t] = numbered[t]
  BY <1>1, <1>2 DEF ETypeOK
<1>4. /\ \A i \in DOMAIN numbered[e.topic] :
           i \in DOMAIN numbered'[e.topic] /\ numbered'[e.topic][i] = numbered[e.topic][i]
      /\ \A i \in DOMAIN numbered'[e.topic] :
           i \in DOMAIN numbered[e.topic] \/ numbered'[e.topic][i] = e
      /\ \E i \in DOMAIN numbered'[e.topic] : numbered'[e.topic][i] = e
  <2>. DEFINE k == Len(numbered[e.topic]) + 1
              m == numbered'[e.topic]
  <2>1. /\ Len(numbered[e.topic]) \in Nat /\ DOMAIN numbered[e.topic] = 1..Len(numbered[e.topic])
        /\ m \in Seq(Payload) /\ Len(m) = k /\ DOMAIN m = 1..k /\ m[k] = e
        /\ \A i \in 1..Len(numbered[e.topic]) : m[i] = numbered[e.topic][i]
    BY <1>1, <1>3, AppendProperties, LenProperties
  <2>2. /\ \A i \in 1..k : i \in 1..Len(numbered[e.topic]) \/ i = k
        /\ \A i \in 1..Len(numbered[e.topic]) : i \in 1..k
    BY <2>1
  <2>3. k \in 1..k
    BY <2>1
  <2>. HIDE DEF m
  <2>. QED
    BY <2>1, <2>2, <2>3 DEF m
<1>5. /\ \A i \in DOMAIN n : i + 1 \in DOMAIN s /\ n[i] = s[i + 1]
      /\ \A j \in DOMAIN s : j = 1 \/ (j - 1 \in DOMAIN n /\ n[j - 1] = s[j])
  <2>1. Tail(s) \in Seq(Item) /\ Len(Tail(s)) = Len(s) - 1
    BY <1>1, HeadAndTail
  <2>2. DOMAIN s = 1..Len(s) /\ DOMAIN n = 1..Len(n) /\ Len(s) \in Nat
    BY <1>1, <1>2, <2>1, LenProperties
  <2>. QED
    BY <1>1, <1>2, <2>1, <2>2, HeadAndTail
<1>. HIDE DEF e, s, n
<1>6. ASSUME NEW t \in Topics, NEW i \in DOMAIN numbered'[t], i \notin DOMAIN numbered[t]
      PROVE  numbered'[t][i].topic = t /\ \E j \in DOMAIN s : numbered'[t][i] = s[j]
  <2>1. t = e.topic
    BY <1>3, <1>6
  <2>2. numbered'[t][i] = e
    BY <1>4, <1>6, <2>1
  <2>. QED
    BY <1>1, <2>1, <2>2
<1>7. ASSUME NEW j \in DOMAIN s
      PROVE  \/ \E i \in DOMAIN n : n[i] = s[j]
             \/ s[j].topic \in Topics /\ \E i \in DOMAIN numbered'[s[j].topic] :
                                           numbered'[s[j].topic][i] = s[j]
  <2>1. CASE j = 1
    BY <1>1, <1>4, <2>1
  <2>2. CASE j # 1
    BY <1>5, <2>2
  <2>. QED
    BY <2>1, <2>2
<1>8. ASSUME NEW t \in Topics, NEW i \in DOMAIN numbered[t]
      PROVE  i \in DOMAIN numbered'[t] /\ numbered'[t][i] = numbered[t][i]
  BY <1>3, <1>4
<1>9. \A i \in DOMAIN n : \E j \in DOMAIN s : n[i] = s[j]
  BY <1>5
<1>. QED
  BY <1>2, <1>6, <1>7, <1>8, <1>9 DEF s, n

-------------------------------------------------------------------------------
(* Every revision is announced.                                            *)

(* Every revision of the vault has been announced, is in the plan of a     *)
(* writer, or belongs to an operation that failed.                         *)
AnnouncedOrPlanned ==
  \A d \in Docs : \A r \in 1..heads[d] :
    \/ <<d, r>> \in silent
    \/ \E i \in DOMAIN numbered["committed"] :
         numbered["committed"][i].doc = d /\ numbered["committed"][i].rev = r
    \/ \E w \in Writers : Announces(agenda[w], d, r)

(* What a step of publication leaves to be announced. *)
LEMMA PublishAnnounces ==
  ASSUME ETypeOK, AnnouncedOrPlanned, NEW w \in Writers, Publish(w)
  PROVE  AnnouncedOrPlanned'
<1>. SUFFICES ASSUME NEW d \in Docs, NEW r \in 1..heads'[d]
              PROVE  (\/ <<d, r>> \in silent
                      \/ \E i \in DOMAIN numbered["committed"] :
                           numbered["committed"][i].doc = d /\ numbered["committed"][i].rev = r
                      \/ \E x \in Writers : Announces(agenda[x], d, r))'
  BY DEF AnnouncedOrPlanned
<1>1. UNCHANGED vault
  BY DEF Publish, NextFound, CollectStale, Number, Send
<1>2. \/ <<d, r>> \in silent
      \/ \E i \in DOMAIN numbered["committed"] :
           numbered["committed"][i].doc = d /\ numbered["committed"][i].rev = r
      \/ \E x \in Writers : Announces(agenda[x], d, r)
  BY <1>1 DEF AnnouncedOrPlanned, vault
<1>3. CASE NextFound(w) \/ CollectStale(w)
  <2>1. UNCHANGED numbered
    BY <1>3 DEF NextFound, CollectStale, bus
  <2>2. \A x \in Writers : Announces(agenda[x], d, r) => Announces(agenda'[x], d, r)
    BY <1>3, NextFoundEffect, CollectStaleEffect
  <2>. QED
    BY <1>1, <1>2, <2>1, <2>2 DEF vault
<1>4. CASE Send(w)
  BY <1>1, <1>2, <1>4 DEF Send, vault
<1>5. CASE Number(w)
  <2>1. "committed" \in Topics
    BY DEF Topics, DocTopics
  <2>2. CASE \E i \in DOMAIN numbered["committed"] :
               numbered["committed"][i].doc = d /\ numbered["committed"][i].rev = r
    BY <1>5, <2>1, <2>2, NumberEffect
  <2>3. ASSUME NEW x \in Writers, Announces(agenda[x], d, r)
        PROVE  \/ Announces(agenda'[x], d, r)
               \/ \E i \in DOMAIN numbered'["committed"] :
                    numbered'["committed"][i].doc = d /\ numbered'["committed"][i].rev = r
    <3>1. CASE x # w
      BY <1>5, <2>3, <3>1, NumberEffect
    <3>2. CASE x = w
      <4>1. PICK j \in DOMAIN agenda[w] :
              /\ agenda[w][j].topic \in {"committed", "found"}
              /\ agenda[w][j].doc = d /\ agenda[w][j].rev = r
        BY <2>3, <3>2 DEF Announces
      <4>2. \/ \E i \in DOMAIN agenda'[w] : agenda'[w][i] = agenda[w][j]
            \/ /\ agenda[w][j].topic \in Topics
               /\ \E i \in DOMAIN numbered'[agenda[w][j].topic] :
                    numbered'[agenda[w][j].topic][i] = agenda[w][j]
        BY <1>5, NumberEffect
      <4>3. agenda[w][j].topic \in Topics => agenda[w][j].topic = "committed"
        BY <4>1 DEF Topics, DocTopics
      <4>4. CASE \E i \in DOMAIN agenda'[w] : agenda'[w][i] = agenda[w][j]
        BY <3>2, <4>1, <4>4 DEF Announces
      <4>5. CASE \E i \in DOMAIN numbered'["committed"] :
                   numbered'["committed"][i] = agenda[w][j]
        BY <4>1, <4>5
      <4>. QED
        BY <4>2, <4>3, <4>4, <4>5
    <3>. QED
      BY <3>1, <3>2
  <2>. QED
    BY <1>1, <1>2, <2>2, <2>3 DEF vault
<1>. QED
  BY <1>3, <1>4, <1>5 DEF Publish

LEMMA OperateAnnounces ==
  ASSUME ETypeOK, AnnouncedOrPlanned, NEW w \in Writers, Operate(w)
  PROVE  AnnouncedOrPlanned'
<1>1. /\ agenda[w] = << >> /\ \A x \in Writers : x # w => agenda'[x] = agenda[x]
      /\ UNCHANGED numbered /\ silent \subseteq silent' /\ NewRevisions(w)
  BY OperateEffect DEF Free, bus
<1>2. ASSUME NEW d \in Docs, NEW r \in 1..heads'[d]
      PROVE  \/ <<d, r>> \in silent'
             \/ \E i \in DOMAIN numbered'["committed"] :
                  numbered'["committed"][i].doc = d /\ numbered'["committed"][i].rev = r
             \/ \E x \in Writers : Announces(agenda'[x], d, r)
  <2>1. heads[d] \in Nat
    BY DEF ETypeOK, Rev
  <2>2. CASE r \in 1..heads[d]
    <3>1. \A x \in Writers : Announces(agenda[x], d, r) => x # w
      BY <1>1 DEF Announces
    <3>. QED
      BY <1>1, <2>2, <3>1 DEF AnnouncedOrPlanned
  <2>3. CASE r \notin 1..heads[d]
    <3>0. heads'[d] = heads[d] \/ heads'[d] = heads[d] + 1
      BY <1>1 DEF NewRevisions
    <3>1. heads'[d] = heads[d] + 1 /\ r = heads'[d]
      BY <1>2, <2>1, <2>3, <3>0
    <3>2. <<d, heads'[d]>> \in silent' \/ Announces(agenda'[w], d, heads'[d])
      BY <1>1, <2>1, <3>1 DEF NewRevisions
    <3>. QED
      BY <3>1, <3>2
  <2>. QED
    BY <2>2, <2>3
<1>. QED
  BY <1>2 DEF AnnouncedOrPlanned

LEMMA AnnouncesNext == ETypeOK /\ AnnouncedOrPlanned /\ [Next]_vars => AnnouncedOrPlanned'
<1>. SUFFICES ASSUME ETypeOK, AnnouncedOrPlanned, [Next]_vars PROVE AnnouncedOrPlanned'
  OBVIOUS
<1>1. CASE UNCHANGED <<vault, agenda, numbered>>
  BY <1>1 DEF AnnouncedOrPlanned, vault
<1>2. Connection \/ Client \/ Rest \/ UNCHANGED vars => UNCHANGED <<vault, agenda, numbered>>
  BY DEF Connection, ServeSubscribe, ServeList, Forward, Client, ReceiveSubscribed,
         ReceiveEvent, ReceiveListed, Rest, vars, bus
<1>. QED
  BY <1>1, <1>2, OperateAnnounces, PublishAnnounces DEF Next

(* A revision is announced, or the operation that made it failed: however  *)
(* the writers' commits, numbers and sends interleave, nobody has finished *)
(* publishing while a revision is left out (session.rs, main.rs).          *)
THEOREM AnnouncedHolds == Spec => []Announced
<1>1. Init => AnnouncedOrPlanned
  BY DEF Init, AnnouncedOrPlanned
<1>2. Spec => [](ETypeOK /\ AnnouncedOrPlanned)
  BY <1>1, InitType, NextType, AnnouncesNext, PTL DEF Spec
<1>3. AnnouncedOrPlanned => Announced
  <2>. SUFFICES ASSUME AnnouncedOrPlanned, Quiet, NEW d \in Docs, NEW r \in 1..heads[d]
                PROVE  \/ <<d, r>> \in silent
                       \/ \E i \in DOMAIN numbered["committed"] :
                            numbered["committed"][i].doc = d /\ numbered["committed"][i].rev = r
    BY DEF Announced
  <2>1. \A w \in Writers : ~ Announces(agenda[w], d, r)
    BY DEF Announces, Quiet, Free
  <2>. QED
    BY <2>1 DEF AnnouncedOrPlanned
<1>. QED
  BY <1>2, <1>3, PTL

-------------------------------------------------------------------------------
(* Every stranded proposal is called stale.                                *)

(* The revisions since the base of an open proposal were made by failed    *)
(* operations, or it has been called stale, or a writer is about to call   *)
(* it stale or to look for stranded proposals of its document.             *)
StaleToldOrPlanned ==
  \A p \in open :
    \/ \A r \in (p.base + 1)..heads[p.doc] : <<p.doc, r>> \in silent
    \/ \E i \in DOMAIN numbered["stale"] : numbered["stale"][i].prop = p.prop
    \/ \E w \in Writers : Calls(agenda[w], p.prop) \/ Collects(agenda[w], p.doc)

LEMMA PublishTells ==
  ASSUME ETypeOK, StaleToldOrPlanned, NEW w \in Writers, Publish(w)
  PROVE  StaleToldOrPlanned'
<1>. DEFINE Noticed(p) == \E i \in DOMAIN numbered["stale"] : numbered["stale"][i].prop = p.prop
            Unseen(p) == \A r \in (p.base + 1)..heads[p.doc] : <<p.doc, r>> \in silent
            Plan(p) == \E x \in Writers : Calls(agenda[x], p.prop) \/ Collects(agenda[x], p.doc)
<1>1. UNCHANGED vault
  BY DEF Publish, NextFound, CollectStale, Number, Send
<1>2. SUFFICES ASSUME NEW p \in open, ~ Unseen(p)
               PROVE  Noticed(p)' \/ Plan(p)'
  BY <1>1 DEF StaleToldOrPlanned, vault
<1>3. Noticed(p) \/ Plan(p)
  BY <1>2 DEF StaleToldOrPlanned
<1>4. Stale(p)
  <2>1. p.base \in Nat /\ heads[p.doc] \in Nat
    BY DEF ETypeOK, Rev
  <2>. QED
    BY <1>2, <2>1 DEF Stale
<1>5. CASE NextFound(w)
  BY <1>3, <1>5, NextFoundEffect DEF NextFound, bus
<1>6. CASE CollectStale(w)
  <2>1. UNCHANGED numbered
    BY <1>6 DEF CollectStale, bus
  <2>2. \A x \in Writers :
          /\ Calls(agenda[x], p.prop) => Calls(agenda'[x], p.prop)
          /\ Collects(agenda[x], p.doc) =>
               Collects(agenda'[x], p.doc) \/ Calls(agenda'[x], p.prop)
    BY <1>4, <1>6, CollectStaleEffect
  <2>. QED
    BY <1>3, <2>1, <2>2
<1>7. CASE Send(w)
  BY <1>3, <1>7 DEF Send
<1>8. CASE Number(w)
  <2>1. "stale" \in Topics
    BY DEF Topics
  <2>2. CASE Noticed(p)
    BY <1>8, <2>1, <2>2, NumberEffect
  <2>3. ASSUME NEW x \in Writers, Calls(agenda[x], p.prop)
        PROVE  Noticed(p)' \/ Plan(p)'
    <3>1. CASE x # w
      BY <1>8, <2>3, <3>1, NumberEffect
    <3>2. CASE x = w
      <4>1. PICK j \in DOMAIN agenda[w] :
              agenda[w][j].topic = "stale" /\ agenda[w][j].prop = p.prop
        BY <2>3, <3>2 DEF Calls
      <4>2. \/ \E i \in DOMAIN agenda'[w] : agenda'[w][i] = agenda[w][j]
            \/ \E i \in DOMAIN numbered'["stale"] : numbered'["stale"][i] = agenda[w][j]
        BY <1>8, <4>1, NumberEffect
      <4>. QED
        BY <4>1, <4>2 DEF Calls
    <3>. QED
      BY <3>1, <3>2
  <2>4. ASSUME NEW x \in Writers, Collects(agenda[x], p.doc)
        PROVE  Collects(agenda'[x], p.doc)
    <3>1. CASE x # w
      BY <1>8, <2>4, <3>1, NumberEffect
    <3>2. CASE x = w
      <4>1. PICK j \in DOMAIN agenda[w] :
              agenda[w][j].topic \in {"fanout", "found"} /\ agenda[w][j].doc = p.doc
        BY <2>4, <3>2 DEF Collects
      <4>2. agenda[w][j].topic \notin Topics
        BY <4>1 DEF Topics, DocTopics
      <4>3. \E i \in DOMAIN agenda'[w] : agenda'[w][i] = agenda[w][j]
        BY <1>8, <4>2, NumberEffect
      <4>. QED
        BY <3>2, <4>1, <4>3 DEF Collects
    <3>. QED
      BY <3>1, <3>2
  <2>. QED
    BY <1>3, <2>2, <2>3, <2>4
<1>. QED
  BY <1>5, <1>6, <1>7, <1>8 DEF Publish

LEMMA OperateTells ==
  ASSUME ETypeOK, StaleToldOrPlanned, NEW w \in Writers, Operate(w)
  PROVE  StaleToldOrPlanned'
<1>1. /\ agenda[w] = << >> /\ \A x \in Writers : x # w => agenda'[x] = agenda[x]
      /\ UNCHANGED numbered /\ silent \subseteq silent' /\ NewRevisions(w)
      /\ \A p \in open' : p \in open \/ (heads' = heads /\ p.base = heads[p.doc])
  BY OperateEffect DEF Free, bus
<1>2. ETypeOK'
  BY OperateType
<1>3. ASSUME NEW p \in open', NEW r \in (p.base + 1)..heads'[p.doc], <<p.doc, r>> \notin silent'
      PROVE  \/ \E i \in DOMAIN numbered'["stale"] : numbered'["stale"][i].prop = p.prop
             \/ \E x \in Writers : Calls(agenda'[x], p.prop) \/ Collects(agenda'[x], p.doc)
  <2>1. /\ p.doc \in Docs /\ p.base \in Nat
        /\ heads[p.doc] \in Nat /\ heads'[p.doc] \in Nat
    BY <1>2 DEF ETypeOK, Rev
  <2>2. p \in open
    BY <1>1, <1>3, <2>1
  <2>3. CASE r \in (p.base + 1)..heads[p.doc]
    <3>1. <<p.doc, r>> \notin silent
      BY <1>1, <1>3
    <3>2. \/ \E i \in DOMAIN numbered["stale"] : numbered["stale"][i].prop = p.prop
          \/ \E x \in Writers : Calls(agenda[x], p.prop) \/ Collects(agenda[x], p.doc)
      BY <2>2, <2>3, <3>1 DEF StaleToldOrPlanned
    <3>3. \A x \in Writers :
            Calls(agenda[x], p.prop) \/ Collects(agenda[x], p.doc) => x # w
      BY <1>1 DEF Calls, Collects
    <3>. QED
      BY <1>1, <3>2, <3>3
  <2>4. CASE r \notin (p.base + 1)..heads[p.doc]
    <3>0. heads'[p.doc] = heads[p.doc] \/ heads'[p.doc] = heads[p.doc] + 1
      BY <1>1, <2>1 DEF NewRevisions
    <3>1. heads'[p.doc] = heads[p.doc] + 1 /\ r = heads'[p.doc]
      BY <1>3, <2>1, <2>4, <3>0
    <3>2. Collects(agenda'[w], p.doc)
      BY <1>1, <1>3, <2>1, <3>1 DEF NewRevisions
    <3>. QED
      BY <3>2
  <2>. QED
    BY <2>3, <2>4
<1>. QED
  BY <1>3 DEF StaleToldOrPlanned

LEMMA TellsNext == ETypeOK /\ StaleToldOrPlanned /\ [Next]_vars => StaleToldOrPlanned'
<1>. SUFFICES ASSUME ETypeOK, StaleToldOrPlanned, [Next]_vars PROVE StaleToldOrPlanned'
  OBVIOUS
<1>1. CASE UNCHANGED <<vault, agenda, numbered>>
  BY <1>1 DEF StaleToldOrPlanned, vault
<1>2. Connection \/ Client \/ Rest \/ UNCHANGED vars => UNCHANGED <<vault, agenda, numbered>>
  BY DEF Connection, ServeSubscribe, ServeList, Forward, Client, ReceiveSubscribed,
         ReceiveEvent, ReceiveListed, Rest, vars, bus
<1>. QED
  BY <1>1, <1>2, OperateTells, PublishTells DEF Next

(* A proposal that an announced commit stranded is called stale, although  *)
(* the vault is unlocked between the commit and the search for such        *)
(* proposals (lib.rs, publish_stale_proposals).                            *)
THEOREM StaleToldHolds == Spec => []StaleTold
<1>1. Init => StaleToldOrPlanned
  BY DEF Init, StaleToldOrPlanned
<1>2. Spec => [](ETypeOK /\ StaleToldOrPlanned)
  BY <1>1, InitType, NextType, TellsNext, PTL DEF Spec
<1>3. StaleToldOrPlanned => StaleTold
  BY DEF StaleToldOrPlanned, StaleTold, Calls, Collects, Quiet, Free
<1>. QED
  BY <1>2, <1>3, PTL

-------------------------------------------------------------------------------
(* The client's list follows.                                              *)

(* Numbered and planned events name revisions that the vault has. *)
RevisionsKnown ==
  /\ \A t \in Topics : \A i \in DOMAIN numbered[t] :
       numbered[t][i].topic = t /\ Known(numbered[t][i], heads)
  /\ \A w \in Writers : \A i \in DOMAIN agenda[w] : Known(agenda[w][i], heads)

(* A list with every revision announced to the client. *)
Shows(list) ==
  \A t \in Watched \cap DocTopics : \A m \in got[t] : \A s \in 1..m :
    numbered[t][s].rev <= list[numbered[t][s].doc]

LastListed(i) == out[i].kind = "listed" /\ \A j \in DOMAIN out : j > i => out[j].kind # "listed"

(* Unless the client has asked for the list again, the last list on its    *)
(* way, or else the one it has, shows every revision announced to it.      *)
LastListShows ==
  (\A i \in DOMAIN inbox : inbox[i] # "list") =>
    /\ \A i \in DOMAIN out : LastListed(i) => Shows(out[i].heads)
    /\ (\A i \in DOMAIN out : out[i].kind # "listed") => Shows(view)

LEMMA KnownLater ==
  ASSUME NEW x, NEW g \in [Docs -> Nat], NEW h \in [Docs -> Nat], Known(x, g),
         x.topic \in Revealing => x.doc \in Docs /\ x.rev \in Nat,
         \A d \in Docs : g[d] <= h[d]
  PROVE  Known(x, h)
<1>. QED
  BY DEF Known

LEMMA RevealingItem ==
  ASSUME NEW x \in Item, x.topic \in Revealing
  PROVE  x.doc \in Docs /\ x.rev \in Nat
<1>. QED
  BY DEF Item, Payload, FanOut, Found, Revealing, Rev

LEMMA NumberedTypes ==
  ASSUME ETypeOK, NEW t \in Topics, NEW i \in DOMAIN numbered[t]
  PROVE  numbered[t][i] \in Payload /\ numbered[t][i] \in Item
<1>. QED
  BY ElementOfSeq, LenProperties DEF ETypeOK, Item

LEMMA HeadsGrow ==
  ASSUME ETypeOK, NEW w \in Writers, Operate(w)
  PROVE  \A d \in Docs : heads[d] <= heads'[d]
<1>1. \A d \in Docs : heads[d] \in Nat
  BY DEF ETypeOK, Rev
<1>2. \A d \in Docs : heads'[d] = heads[d] \/ heads'[d] = heads[d] + 1
  BY OperateEffect DEF NewRevisions
<1>. QED
  BY <1>1, <1>2

LEMMA KnownNext == ETypeOK /\ RevisionsKnown /\ [Next]_vars => RevisionsKnown'
<1>. SUFFICES ASSUME ETypeOK, RevisionsKnown, [Next]_vars PROVE RevisionsKnown'
  OBVIOUS
<1>1. CASE UNCHANGED <<heads, agenda, numbered>>
  BY <1>1 DEF RevisionsKnown
<1>2. Connection \/ Client \/ Rest \/ UNCHANGED vars => UNCHANGED <<heads, agenda, numbered>>
  BY DEF Connection, ServeSubscribe, ServeList, Forward, Client, ReceiveSubscribed,
         ReceiveEvent, ReceiveListed, Rest, vars, bus, vault
<1>3. ASSUME NEW w \in Writers, Operate(w)
      PROVE  RevisionsKnown'
  <2>1. heads \in [Docs -> Nat] /\ heads' \in [Docs -> Nat]
    BY <1>3, OperateType DEF ETypeOK, Rev
  <2>2. \A x \in Item : Known(x, heads) => Known(x, heads')
    BY <1>3, <2>1, HeadsGrow, KnownLater, RevealingItem
  <2>3. /\ \A x \in Writers : x # w => agenda'[x] = agenda[x]
        /\ UNCHANGED numbered
        /\ \A i \in DOMAIN agenda'[w] : Known(agenda'[w][i], heads')
    BY <1>3, OperateEffect DEF bus
  <2>4. \A x \in Writers : \A i \in DOMAIN agenda[x] : Known(agenda[x][i], heads')
    BY <2>2, PlanTypes DEF RevisionsKnown
  <2>5. \A t \in Topics : \A i \in DOMAIN numbered[t] :
          numbered[t][i].topic = t /\ Known(numbered[t][i], heads')
    BY <2>2, NumberedTypes DEF RevisionsKnown
  <2>. QED
    BY <2>3, <2>4, <2>5 DEF RevisionsKnown
<1>4. ASSUME NEW w \in Writers, NextFound(w) \/ CollectStale(w)
      PROVE  RevisionsKnown'
  <2>1. UNCHANGED <<heads, numbered>> /\ \A x \in Writers : x # w => agenda'[x] = agenda[x]
    BY <1>4, NextFoundEffect, CollectStaleEffect DEF NextFound, CollectStale, vault, bus
  <2>2. \A i \in DOMAIN agenda'[w] : Known(agenda'[w][i], heads)
    BY <1>4, NextFoundEffect, CollectStaleEffect DEF RevisionsKnown
  <2>. QED
    BY <2>1, <2>2 DEF RevisionsKnown
<1>5. ASSUME NEW w \in Writers, Number(w)
      PROVE  RevisionsKnown'
  <2>1. UNCHANGED heads
    BY <1>5 DEF Number, vault
  <2>2. \A x \in Writers : \A i \in DOMAIN agenda'[x] : Known(agenda'[x][i], heads)
    BY <1>5, NumberEffect DEF RevisionsKnown
  <2>3. ASSUME NEW t \in Topics, NEW i \in DOMAIN numbered'[t]
        PROVE  numbered'[t][i].topic = t /\ Known(numbered'[t][i], heads)
    BY <1>5, NumberEffect DEF RevisionsKnown
  <2>. QED
    BY <2>1, <2>2, <2>3 DEF RevisionsKnown
<1>6. ASSUME NEW w \in Writers, Send(w)
      PROVE  RevisionsKnown'
  BY <1>6 DEF Send, RevisionsKnown, vault
<1>. QED
  BY <1>1, <1>2, <1>3, <1>4, <1>5, <1>6 DEF Next, Publish

(* The vault's own heads show everything. *)
LEMMA HeadsShow ==
  ASSUME ETypeOK, EInv, RevisionsKnown
  PROVE  Shows(heads)
<1>. SUFFICES ASSUME NEW t \in Watched \cap DocTopics, NEW m \in got[t], NEW s \in 1..m
              PROVE  numbered[t][s].rev <= heads[numbered[t][s].doc]
  BY DEF Shows
<1>1. t \in Topics /\ t \in Revealing
  BY DEF Topics, DocTopics, Revealing
<1>2. m \in 1..Len(numbered[t])
  BY DEF EInv, OnTheWay, Given
<1>3. s \in DOMAIN numbered[t]
  BY <1>1, <1>2, LenProperties DEF ETypeOK
<1>. QED
  BY <1>1, <1>3 DEF RevisionsKnown, Known

(* A list that shows what was announced still does when only events were   *)
(* numbered since.                                                         *)
LEMMA ShowsLater ==
  ASSUME ETypeOK, EInv, NEW list, Shows(list),
         \A t \in Watched \cap DocTopics : got'[t] = got[t],
         \A t \in Topics : \A i \in DOMAIN numbered[t] : numbered'[t][i] = numbered[t][i]
  PROVE  Shows(list)'
<1>. SUFFICES ASSUME NEW t \in Watched \cap DocTopics, NEW m \in got[t], NEW s \in 1..m
              PROVE  numbered'[t][s].rev <= list[numbered'[t][s].doc]
  BY DEF Shows
<1>1. t \in Topics
  BY DEF Topics, DocTopics
<1>2. m \in 1..Len(numbered[t])
  BY DEF EInv, OnTheWay, Given
<1>3. s \in DOMAIN numbered[t]
  BY <1>1, <1>2, LenProperties DEF ETypeOK
<1>. QED
  BY <1>1, <1>3 DEF Shows

LEMMA LastListShowsFrame ==
  ASSUME ETypeOK, EInv, LastListShows, UNCHANGED <<inbox, out, view, got>>,
         \A t \in Topics : \A i \in DOMAIN numbered[t] : numbered'[t][i] = numbered[t][i]
  PROVE  LastListShows'
<1>1. \A list : Shows(list) => Shows(list)'
  BY ShowsLater
<1>. QED
  BY <1>1 DEF LastListShows, LastListed

LEMMA LastListShowsConnection ==
  ASSUME ETypeOK, EInv, RevisionsKnown, LastListShows, Connection
  PROVE  LastListShows'
<1>0. /\ UNCHANGED <<view, got, numbered>>
      /\ DOMAIN out = 1..Len(out) /\ Len(out) \in Nat
  BY LenProperties
  DEF Connection, ServeSubscribe, ServeList, Forward, bus, client, ETypeOK
<1>1. \A list : Shows(list) => Shows(list)'
  BY <1>0 DEF Shows
<1>2. ASSUME ServeSubscribe
      PROVE  LastListShows'
  <2>1. \E i \in DOMAIN inbox : inbox[i] = "subscribe"
    BY <1>2, HeadAndTail DEF ServeSubscribe, TakeRequest, ETypeOK
  <2>2. \A t \in Watched : got[t] = {}
    BY <2>1 DEF EInv, SubscribedOnce
  <2>3. \A list : Shows(list)'
    BY <1>0, <2>2 DEF Shows
  <2>. QED
    BY <2>3 DEF LastListShows
<1>3. ASSUME ServeList
      PROVE  LastListShows'
  <2>. DEFINE m == [kind |-> "listed", heads |-> heads]
  <2>1. m \in Message
    BY DEF Message, ETypeOK
  <2>2. out' = Append(out, m) /\ heads' = heads
    BY <1>3 DEF ServeList, Tell, vault
  <2>3. /\ DOMAIN out' = 1..(Len(out) + 1) /\ out'[Len(out) + 1] = m
    BY <1>0, <2>1, <2>2, AppendProperties, LenProperties DEF ETypeOK
  <2>4. Shows(heads)'
    BY <1>0, <2>2, HeadsShow DEF Shows
  <2>5. ASSUME NEW i \in DOMAIN out', LastListed(i)'
        PROVE  Shows(out[i].heads)'
    <3>1. i = Len(out) + 1
      <4>1. Len(out) + 1 \in DOMAIN out' /\ out'[Len(out) + 1].kind = "listed"
        BY <1>0, <2>3
      <4>2. ~ (Len(out) + 1 > i)
        BY <2>5, <4>1 DEF LastListed
      <4>. QED
        BY <1>0, <2>3, <4>2
    <3>2. out'[i].heads = heads'
      BY <2>2, <2>3, <3>1
    <3>. QED
      BY <2>4, <3>2
  <2>6. Len(out) + 1 \in DOMAIN out' /\ out'[Len(out) + 1].kind = "listed"
    BY <1>0, <2>3
  <2>. QED
    BY <2>5, <2>6 DEF LastListShows
<1>4. ASSUME Forward
      PROVE  LastListShows'
  <2>1. UNCHANGED inbox
    BY <1>4 DEF Forward
  <2>2. CASE UNCHANGED out
    BY <1>0, <1>1, <2>1, <2>2 DEF LastListShows, LastListed
  <2>3. CASE Head(receiver).topic \in topics
    <3>. DEFINE m == [kind |-> "event", topic |-> Head(receiver).topic,
                      seq |-> Head(receiver).seq]
    <3>1. m \in Message
      <4>1. Head(receiver) \in Event
        BY <1>4, HeadAndTail DEF Forward, ETypeOK
      <4>. QED
        BY <2>3, <4>1 DEF Message, Event, ETypeOK
    <3>2. out' = Append(out, m)
      BY <1>4, <2>3 DEF Forward, Tell
    <3>3. /\ DOMAIN out' = 1..(Len(out) + 1)
          /\ out'[Len(out) + 1].kind = "event"
          /\ \A i \in DOMAIN out : i \in DOMAIN out' /\ out'[i] = out[i]
      BY <1>0, <3>1, <3>2, AppendProperties, LenProperties DEF ETypeOK
    <3>4. \A i \in DOMAIN out' : out'[i].kind = "listed" => i \in DOMAIN out
      BY <1>0, <3>3
    <3>5. \A i \in DOMAIN out' : LastListed(i)' => i \in DOMAIN out /\ LastListed(i)
      BY <3>3, <3>4 DEF LastListed
    <3>. QED
      BY <1>0, <1>1, <2>1, <3>3, <3>5 DEF LastListShows
  <2>. QED
    BY <1>4, <2>2, <2>3 DEF Forward
<1>. QED
  BY <1>2, <1>3, <1>4 DEF Connection

LEMMA LastListShowsClient ==
  ASSUME ETypeOK, EInv, LastListShows, Client
  PROVE  LastListShows'
<1>0. /\ 1 \in DOMAIN out /\ Head(out) = out[1]
      /\ \A i \in DOMAIN out' : i \in Nat /\ i + 1 \in DOMAIN out /\ out'[i] = out[i + 1]
      /\ \A i \in DOMAIN out : i = 1 \/ (i > 1 /\ i - 1 \in DOMAIN out' /\ i \in Nat)
  <2>1. PICK kind : Receive(kind)
    BY DEF Client, ReceiveSubscribed, ReceiveEvent, ReceiveListed
  <2>2. /\ out \in Seq(Message) /\ out' \in Seq(Message) /\ Len(out') = Len(out) - 1
        /\ 1 \in DOMAIN out /\ Head(out) = out[1]
        /\ \A i \in DOMAIN out' : i + 1 \in DOMAIN out /\ out'[i] = out[i + 1]
    BY <2>1, HeadAndTail DEF Receive, ETypeOK
  <2>3. /\ DOMAIN out = 1..Len(out) /\ DOMAIN out' = 1..Len(out')
        /\ Len(out) \in Nat /\ Len(out') \in Nat
    BY <2>2, LenProperties
  <2>. QED
    BY <2>2, <2>3
<1>1. UNCHANGED numbered
  BY DEF Client, ReceiveSubscribed, ReceiveEvent, ReceiveListed, bus
<1>2. ASSUME NEW i \in DOMAIN inbox', inbox'[i] = "list"
      PROVE  LastListShows'
  BY <1>2 DEF LastListShows
<1>3. ASSUME ReceiveSubscribed
      PROVE  LastListShows'
  <2>1. \E i \in DOMAIN inbox' : inbox'[i] = "list"
    <3>1. inbox' = Append(inbox, "list") /\ inbox \in Seq({"subscribe", "list"})
      BY <1>3 DEF ReceiveSubscribed, ETypeOK
    <3>2. Len(inbox) \in Nat /\ DOMAIN inbox' = 1..(Len(inbox) + 1)
          /\ inbox'[Len(inbox) + 1] = "list"
      BY <3>1, AppendProperties, LenProperties
    <3>3. Len(inbox) + 1 \in DOMAIN inbox'
      BY <3>2
    <3>. QED
      BY <3>2, <3>3
  <2>. QED
    BY <1>2, <2>1
<1>4. ASSUME ReceiveEvent
      PROVE  LastListShows'
  <2>. DEFINE e == Head(out)
  <2>1. e.topic \in Watched /\ e.kind = "event" /\ inbox' = inbox \o Asks(e) /\ UNCHANGED view
        /\ got' = [got EXCEPT ![e.topic] = @ \cup {e.seq}]
    BY <1>4, ReceiveType, MessageByKind DEF ReceiveEvent
  <2>2. Asks(e) \in Seq({"subscribe", "list"}) /\ inbox \in Seq({"subscribe", "list"})
    BY AsksType, SeqMonotonic, {"list"} \subseteq {"subscribe", "list"} DEF ETypeOK
  <2>3. \A i \in DOMAIN Asks(e) : Asks(e)[i] = "list"
    BY AsksType, LenProperties, ElementOfSeq
  <2>4. CASE Asks(e) # << >>
    <3>1. /\ Len(inbox) \in Nat /\ Len(Asks(e)) \in Nat \ {0}
          /\ DOMAIN Asks(e) = 1..Len(Asks(e))
          /\ DOMAIN inbox' = 1..(Len(inbox) + Len(Asks(e)))
      BY <2>1, <2>2, <2>4, ConcatProperties, LenProperties, EmptySeq
    <3>2. Len(inbox) + 1 \in DOMAIN inbox' /\ 1 \in DOMAIN Asks(e)
      BY <3>1
    <3>3. inbox'[Len(inbox) + 1] = Asks(e)[1]
      BY <2>1, <2>2, <3>1, ConcatProperties
    <3>. QED
      BY <1>2, <2>3, <3>2, <3>3
  <2>5. CASE Asks(e) = << >>
    <3>1. e.topic \notin DocTopics
      BY <2>2, <2>5 DEF Asks
    <3>2. \A t \in Watched \cap DocTopics : got'[t] = got[t]
      BY <2>1, <3>1 DEF ETypeOK
    <3>3. \A list : Shows(list) => Shows(list)'
      BY <1>1, <3>2, ShowsLater
    <3>4. inbox' = inbox
      BY <2>1, <2>2, <2>5
    <3>5. \A i \in DOMAIN out' : LastListed(i)' => LastListed(i + 1)
      <4>. SUFFICES ASSUME NEW i \in DOMAIN out', LastListed(i)' PROVE LastListed(i + 1)
        OBVIOUS
      <4>1. \A j \in DOMAIN out : j > i + 1 => j - 1 \in DOMAIN out' /\ j - 1 > i /\ out'[j - 1] = out[j]
        BY <1>0
      <4>. QED
        BY <1>0, <4>1 DEF LastListed
    <3>6. (\A i \in DOMAIN out' : out'[i].kind # "listed")
             => \A i \in DOMAIN out : out[i].kind # "listed"
      BY <1>0, <2>1
    <3>. QED
      BY <1>0, <2>1, <3>3, <3>4, <3>5, <3>6 DEF LastListShows
  <2>. QED
    BY <2>4, <2>5
<1>5. ASSUME ReceiveListed
      PROVE  LastListShows'
  <2>1. /\ UNCHANGED <<inbox, got>> /\ view' = out[1].heads /\ out[1].kind = "listed"
    BY <1>0, <1>5 DEF ReceiveListed, Receive
  <2>2. \A list : Shows(list) => Shows(list)'
    BY <1>1, <2>1 DEF Shows
  <2>3. ASSUME NEW i \in DOMAIN out', LastListed(i)'
        PROVE  i + 1 \in DOMAIN out /\ LastListed(i + 1) /\ out'[i] = out[i + 1]
    <3>1. \A j \in DOMAIN out : j > i + 1 => j - 1 \in DOMAIN out' /\ j - 1 > i /\ out'[j - 1] = out[j]
      BY <1>0
    <3>. QED
      BY <1>0, <2>3, <3>1 DEF LastListed
  <2>4. ASSUME \A i \in DOMAIN out' : out'[i].kind # "listed"
        PROVE  LastListed(1)
    <3>1. \A j \in DOMAIN out : j > 1 => j - 1 \in DOMAIN out' /\ out'[j - 1] = out[j]
      BY <1>0
    <3>. QED
      BY <2>1, <2>4, <3>1 DEF LastListed
  <2>. QED
    BY <1>0, <2>1, <2>2, <2>3, <2>4 DEF LastListShows
<1>. QED
  BY <1>3, <1>4, <1>5 DEF Client

LEMMA LastListShowsNext ==
  ETypeOK /\ EInv /\ RevisionsKnown /\ LastListShows /\ [Next]_vars => LastListShows'
<1>. SUFFICES ASSUME ETypeOK, EInv, RevisionsKnown, LastListShows, [Next]_vars
              PROVE  LastListShows'
  OBVIOUS
<1>1. CASE UNCHANGED vars \/ Rest
  BY <1>1, LastListShowsFrame DEF vars, Rest, bus, client
<1>2. ASSUME NEW w \in Writers, Operate(w)
      PROVE  LastListShows'
  BY <1>2, OperateEffect, LastListShowsFrame DEF bus, client
<1>3. ASSUME NEW w \in Writers, NextFound(w) \/ CollectStale(w) \/ Send(w)
      PROVE  LastListShows'
  BY <1>3, LastListShowsFrame DEF NextFound, CollectStale, Send, bus, client
<1>4. ASSUME NEW w \in Writers, Number(w)
      PROVE  LastListShows'
  BY <1>4, NumberEffect, LastListShowsFrame DEF Number, client
<1>. QED
  BY <1>1, <1>2, <1>3, <1>4, LastListShowsConnection, LastListShowsClient DEF Next, Publish

(* Whichever answers and events cross on the way, the client's list shows  *)
(* every revision announced to it, or another list is coming (App.tsx,     *)
(* handleEvent and onGap).                                                 *)
THEOREM ListFollowsHolds == Spec => []ListFollows
<1>1. Init => RevisionsKnown /\ LastListShows
  BY DEF Init, RevisionsKnown, LastListShows, Shows, LastListed
<1>2. Spec => [](ETypeOK /\ EInv /\ RevisionsKnown /\ LastListShows)
  BY <1>1, InitType, NextType, EInvInit, EInvNext, KnownNext, LastListShowsNext, PTL DEF Spec
<1>3. LastListShows => ListFollows
  BY DEF LastListShows, ListFollows, Awaited, Shows
<1>. QED
  BY <1>2, <1>3, PTL

===============================================================================
