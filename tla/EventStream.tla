------------------------------ MODULE EventStream ------------------------------
(***************************************************************************)
(* The daemon's events (crates/compos-rpc, crates/composd) and one client  *)
(* of them (shell/src/rpc.ts and the handlers of App.tsx).                 *)
(*                                                                         *)
(* Writers are the threads of other connections and the file watcher.  A   *)
(* writer changes the vault under its mutex, unlocks, and then publishes:  *)
(* it takes a number under one lock and sends the event under another, so  *)
(* that two writers may send in the other order.  The client's connection  *)
(* has a bounded receiver and forwards to the client, which lists the      *)
(* documents again when an event or a gap tells it to.                     *)
(*                                                                         *)
(* The n-th revision of a document is n.                                   *)
(***************************************************************************)
EXTENDS Integers, Sequences, FiniteSets, SequencesExt

CONSTANTS
  Writers, Docs, Proposals,
  Watched,      \* the topics the client subscribes to
  Nothing,      \* no event in hand
  Capacity,     \* events a receiver holds (256 in the code)
  OutCapacity,  \* messages queued for the client (256 in the code)
  MaxCommits    \* bound: revisions of all documents

DocTopics == {"committed", "changed"}
Topics    == DocTopics \cup {"updated", "stale"}
Event     == [topic: Topics, seq: Nat]

ASSUME StreamAssumption ==
  /\ IsFiniteSet(Docs) /\ IsFiniteSet(Proposals)
  /\ Watched \subseteq Topics
  /\ Nothing \notin Event
  /\ Capacity \in Nat \ {0} /\ OutCapacity \in Nat \ {0} /\ MaxCommits \in Nat

VARIABLES
  heads,        \* the vault: number of revisions of each document
  open,         \* the vault: open proposals
  used,         \* the vault: ids of all proposals
  silent,       \* observation: revisions nobody will announce
  agenda,       \* what each writer still has to publish
  inHand,       \* the numbered event each writer is about to send
  numbered,     \* the events of each topic, by number
  receiver,     \* events sent and not yet received by the client's connection
  topics,       \* topics the client's session is subscribed to
  inbox,        \* requests of the client
  out,          \* messages to the client
  last,         \* lastSeq: the last number seen, by topic
  view,         \* the client's list of documents, with their heads
  got,          \* observation: numbers received, by topic
  covered       \* observation: numbers a later resync stands in for, by topic

vault  == <<heads, open, used, silent>>
bus    == <<numbered, receiver>>
client == <<last, view, got, covered>>
vars   == <<vault, agenda, inHand, bus, topics, inbox, out, client>>

Rev    == Nat

Payload ==
  [topic: {"committed", "changed"}, doc: Docs, rev: Rev]
    \cup [topic: {"updated", "stale"}, prop: Proposals]
FanOut  == [topic: {"fanout"}, doc: Docs]
Found   == [topic: {"found"}, doc: Docs, rev: Rev]
Message ==
  [kind: {"event"}, topic: Watched, seq: Nat]
    \cup [kind: {"subscribed"}, base: [Watched -> Nat]]
    \cup [kind: {"listed"}, heads: [Docs -> Rev]]

ETypeOK ==
  /\ heads \in [Docs -> Rev]
  /\ open \subseteq [prop: Proposals, doc: Docs, base: Rev]
  /\ used \subseteq Proposals
  /\ silent \subseteq Docs \X Rev
  /\ agenda \in [Writers -> Seq(Payload \cup FanOut \cup Found)]
  /\ inHand \in [Writers -> Event \cup {Nothing}]
  /\ numbered \in [Topics -> Seq(Payload)]
  /\ receiver \in Seq(Event) /\ Len(receiver) <= Capacity
  /\ topics \subseteq Watched
  /\ inbox \in Seq({"subscribe", "list"})
  /\ out \in Seq(Message) /\ Len(out) <= OutCapacity
  /\ last \in [Watched -> Nat] /\ view \in [Docs -> Rev]
  /\ got \in [Watched -> SUBSET Nat] /\ covered \in [Watched -> Nat]

Init ==
  /\ heads = [d \in Docs |-> 0]
  /\ open = {} /\ used = {} /\ silent = {}
  /\ agenda = [w \in Writers |-> <<>>]
  /\ inHand = [w \in Writers |-> Nothing]
  /\ numbered = [t \in Topics |-> <<>>]
  /\ receiver = <<>> /\ topics = {}
  /\ inbox = <<"subscribe">> /\ out = <<>>
  /\ last = [t \in Watched |-> 0]
  /\ view = heads
  /\ got = [t \in Watched |-> {}]
  /\ covered = [t \in Watched |-> 0]

-------------------------------------------------------------------------------
(* Writers: one command or scan under the vault mutex, then publication.   *)

Free(w) == agenda[w] = <<>> /\ inHand[w] = Nothing

Committed(d, topic) == [topic |-> topic, doc |-> d, rev |-> heads'[d]]
Updated(p) == [topic |-> "updated", prop |-> p]
After(d)   == [topic |-> "fanout", doc |-> d]

(* The vault changes, and w will publish `events`. *)
Change(w, events) ==
  /\ Free(w)
  /\ agenda' = [agenda EXCEPT ![w] = events]
  /\ UNCHANGED <<inHand, bus, topics, inbox, out, client>>

Commit(ds) ==
  /\ SumFunction(heads) + Cardinality(ds) <= MaxCommits
  /\ heads' = [d \in Docs |-> IF d \in ds THEN heads[d] + 1 ELSE heads[d]]

Stale(p) == p.base # heads[p.doc]

(* A proposal.stale event for each, in any order. *)
StaleEvents(ps) ==
  {[i \in DOMAIN ids |-> [topic |-> "stale", prop |-> ids[i]]] :
     ids \in SetToSeqs({p.prop : p \in ps})}

(* Faulty variant: stranded proposals are collected while the save has the *)
(* vault, before it commits.                                               *)
Save_CollectsFirst(w, d) ==
  /\ Commit({d})
  /\ \E told \in StaleEvents({p \in open : p.doc = d /\ Stale(p)}) :
       Change(w, <<Committed(d, "committed")>> \o told)
  /\ UNCHANGED <<open, used, silent>>

(* document.save *)
Save(w, d) ==
  /\ Commit({d})
  /\ Change(w, <<Committed(d, "committed"), After(d)>>)
  /\ UNCHANGED <<open, used, silent>>

(* A revision without an event: the conversion of an external edit in a    *)
(* save that is then refused, or in a scan that fails later on; or an      *)
(* acceptance whose record cannot be appended.                             *)
CommitSilently(w, d) ==
  /\ Commit({d})
  /\ Change(w, <<>>)
  /\ silent' = silent \cup {<<d, heads'[d]>>}
  /\ UNCHANGED <<open, used>>

(* The watcher's scan_external, or vault.scan, of the files changed. *)
Scan(w, ds) ==
  /\ Commit(ds)
  /\ \E found \in SetToSeqs(ds) :
       Change(w, [i \in DOMAIN found |-> Committed(found[i], "found")])
  /\ UNCHANGED <<open, used, silent>>

(* Faulty variant: the loop ends after one converted file. *)
NextFound_Last(w) ==
  /\ inHand[w] = Nothing
  /\ agenda[w] # <<>>
  /\ Head(agenda[w]).topic = "found"
  /\ LET f == Head(agenda[w])
     IN  agenda' = [agenda EXCEPT ![w] =
           <<[f EXCEPT !.topic = "changed"], [f EXCEPT !.topic = "committed"], After(f.doc)>>]
  /\ UNCHANGED <<vault, inHand, bus, topics, inbox, out, client>>

(* The loop over the converted files: three publications for each. *)
NextFound(w) ==
  /\ inHand[w] = Nothing
  /\ agenda[w] # <<>>
  /\ Head(agenda[w]).topic = "found"
  /\ LET f == Head(agenda[w])
     IN  agenda' = [agenda EXCEPT ![w] =
           <<[f EXCEPT !.topic = "changed"], [f EXCEPT !.topic = "committed"], After(f.doc)>>
             \o Tail(@)]
  /\ UNCHANGED <<vault, inHand, bus, topics, inbox, out, client>>

CreateProposal(w, p, d) ==
  /\ p \notin used
  /\ used' = used \cup {p}
  /\ open' = open \cup {[prop |-> p, doc |-> d, base |-> heads[d]]}
  /\ Change(w, <<Updated(p)>>)
  /\ UNCHANGED <<heads, silent>>

AcceptProposal(w, p) ==
  /\ ~Stale(p)
  /\ Commit({p.doc})
  /\ open' = open \ {p}
  /\ Change(w, <<Committed(p.doc, "committed"), Updated(p.prop), After(p.doc)>>)
  /\ UNCHANGED <<used, silent>>

CloseProposal(w, p) ==
  /\ open' = open \ {p}
  /\ Change(w, <<Updated(p.prop)>>)
  /\ UNCHANGED <<heads, used, silent>>

(* publish_stale_proposals locks the vault again, after the commit. *)
CollectStale(w) ==
  /\ inHand[w] = Nothing
  /\ agenda[w] # <<>>
  /\ Head(agenda[w]).topic = "fanout"
  /\ LET stranded == {p \in open : p.doc = Head(agenda[w]).doc /\ Stale(p)}
     IN  \E told \in StaleEvents(stranded) :
           agenda' = [agenda EXCEPT ![w] = told \o Tail(@)]
  /\ UNCHANGED <<vault, inHand, bus, topics, inbox, out, client>>

(* EventBus::publish takes the number ... *)
Number(w) ==
  /\ inHand[w] = Nothing
  /\ agenda[w] # <<>>
  /\ Head(agenda[w]).topic \in Topics
  /\ LET e == Head(agenda[w]) IN
     /\ numbered' = [numbered EXCEPT ![e.topic] = Append(@, e)]
     /\ inHand' = [inHand EXCEPT ![w] = [topic |-> e.topic, seq |-> Len(numbered'[e.topic])]]
  /\ agenda' = [agenda EXCEPT ![w] = Tail(@)]
  /\ UNCHANGED <<vault, receiver, topics, inbox, out, client>>

(* Faulty variant: the receiver keeps everything. *)
Send_Unbounded(w) ==
  /\ inHand[w] # Nothing
  /\ receiver' = Append(receiver, inHand[w])
  /\ inHand' = [inHand EXCEPT ![w] = Nothing]
  /\ UNCHANGED <<vault, agenda, numbered, topics, inbox, out, client>>

(* ... and sends the event; a receiver that lags loses its oldest one. *)
Send(w) ==
  /\ inHand[w] # Nothing
  /\ receiver' = LET all == Append(receiver, inHand[w])
                 IN  IF Len(all) > Capacity THEN Tail(all) ELSE all
  /\ inHand' = [inHand EXCEPT ![w] = Nothing]
  /\ UNCHANGED <<vault, agenda, numbered, topics, inbox, out, client>>

-------------------------------------------------------------------------------
(* The client's connection.                                                *)

Tell(message) ==
  /\ Len(out) < OutCapacity
  /\ out' = Append(out, message)

TakeRequest(kind) ==
  /\ inbox # <<>>
  /\ Head(inbox) = kind
  /\ inbox' = Tail(inbox)

(* Session::subscribe: the topics, and the last number of each. *)
ServeSubscribe ==
  /\ TakeRequest("subscribe")
  /\ topics' = Watched
  /\ Tell([kind |-> "subscribed", base |-> [t \in Watched |-> Len(numbered[t])]])
  /\ UNCHANGED <<vault, agenda, inHand, bus, client>>

(* document.list *)
ServeList ==
  /\ TakeRequest("list")
  /\ Tell([kind |-> "listed", heads |-> heads])
  /\ UNCHANGED <<vault, agenda, inHand, bus, topics, client>>

(* forward_event *)
Forward ==
  /\ receiver # <<>>
  /\ receiver' = Tail(receiver)
  /\ IF Head(receiver).topic \in topics
     THEN Tell([kind |-> "event", topic |-> Head(receiver).topic, seq |-> Head(receiver).seq])
     ELSE UNCHANGED out
  /\ UNCHANGED <<vault, agenda, inHand, numbered, topics, inbox, client>>

-------------------------------------------------------------------------------
(* The client.                                                             *)

Receive(kind) ==
  /\ out # <<>>
  /\ Head(out).kind = kind
  /\ out' = Tail(out)

(* RpcClient.subscribe; attachSession then asks for the list. *)
ReceiveSubscribed ==
  /\ Receive("subscribed")
  /\ last' = Head(out).base
  /\ covered' = Head(out).base
  /\ inbox' = Append(inbox, "list")
  /\ UNCHANGED <<vault, agenda, inHand, bus, topics, view, got>>

(* Faulty variant: one lost event is not a gap. *)
IsGap_OffByOne(e) == e.seq > last[e.topic] + 2

IsGap(e) == e.seq > last[e.topic] + 1

(* Faulty variant: only edits made outside change the list. *)
Asks_External(e) ==
  (IF IsGap(e) THEN <<"list">> ELSE <<>>)
    \o (IF e.topic = "changed" THEN <<"list">> ELSE <<>>)

(* handleEvent and the gap handler: refreshDocs. *)
Asks(e) ==
  (IF IsGap(e) THEN <<"list">> ELSE <<>>)
    \o (IF e.topic \in DocTopics THEN <<"list">> ELSE <<>>)

(* RpcClient.onMessage for an event: the handlers of the gap, lastSeq, the *)
(* handlers of the event.                                                  *)
ReceiveEvent ==
  /\ Receive("event")
  /\ LET e == Head(out) IN
     /\ last' = [last EXCEPT ![e.topic] = e.seq]
     /\ got' = [got EXCEPT ![e.topic] = @ \cup {e.seq}]
     /\ covered' = IF IsGap(e) THEN [t \in Watched |-> Len(numbered[t])] ELSE covered
     /\ inbox' = inbox \o Asks(e)
  /\ UNCHANGED <<vault, agenda, inHand, bus, topics, view>>

(* setDocs *)
ReceiveListed ==
  /\ Receive("listed")
  /\ view' = Head(out).heads
  /\ UNCHANGED <<vault, agenda, inHand, bus, topics, inbox, last, got, covered>>

-------------------------------------------------------------------------------
Quiet == \A w \in Writers : Free(w)

Rest ==
  /\ Quiet
  /\ receiver = <<>> /\ inbox = <<>> /\ out = <<>>
  /\ UNCHANGED vars

Operate(w) ==
  \/ \E d \in Docs : Save(w, d) \/ CommitSilently(w, d)
  \/ \E ds \in SUBSET Docs \ {{}} : Scan(w, ds)
  \/ \E p \in Proposals, d \in Docs : CreateProposal(w, p, d)
  \/ \E p \in open : AcceptProposal(w, p) \/ CloseProposal(w, p)

Publish(w) == NextFound(w) \/ CollectStale(w) \/ Number(w) \/ Send(w)

Connection == ServeSubscribe \/ ServeList \/ Forward
Client     == ReceiveSubscribed \/ ReceiveEvent \/ ReceiveListed

Next == (\E w \in Writers : Operate(w) \/ Publish(w)) \/ Connection \/ Client \/ Rest

Spec == Init /\ [][Next]_vars

-------------------------------------------------------------------------------
(* Properties.                                                             *)

(* "A gap means this client lagged and must resync" (rpc.ts): of all the   *)
(* events with a smaller number than one it has received, a client has     *)
(* received each, or a resync that began later stands in for it - although *)
(* numbers can be received out of order and lastSeq can go back.           *)
NoSilentLoss ==
  \A t \in Watched : \A m \in got[t] : \A s \in 1..m :
    s \in got[t] \/ s <= covered[t]

(* A list of documents is on its way. *)
Awaited ==
  \/ \E i \in DOMAIN inbox : inbox[i] = "list"
  \/ \E i \in DOMAIN out : out[i].kind = "listed"

(* A list that is not about to be replaced shows every revision announced  *)
(* under a number up to the highest one received (App.tsx, handleEvent and *)
(* onGap), whichever answers and events crossed on the way.                *)
ListFollows ==
  Awaited \/ \A t \in Watched \cap DocTopics : \A m \in got[t] : \A s \in 1..m :
               numbered[t][s].rev <= view[numbered[t][s].doc]

(* Once the writers are done, every revision has been announced, except    *)
(* those committed by an operation that then failed (session.rs, main.rs). *)
Announced ==
  Quiet => \A d \in Docs : \A r \in 1..heads[d] :
    \/ <<d, r>> \in silent
    \/ \E i \in DOMAIN numbered["committed"] :
         numbered["committed"][i].doc = d /\ numbered["committed"][i].rev = r

(* Once the writers are done, every open proposal that an announced commit *)
(* stranded has been called stale, also if it was created or another       *)
(* writer committed while the fan-out was on its way (lib.rs,              *)
(* publish_stale_proposals).                                               *)
StaleTold ==
  Quiet => \A p \in open :
    \/ \A r \in (p.base + 1)..heads[p.doc] : <<p.doc, r>> \in silent
    \/ \E i \in DOMAIN numbered["stale"] : numbered["stale"][i].prop = p.prop
================================================================================
