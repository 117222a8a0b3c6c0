------------------------------ MODULE ShellBuffer ------------------------------
(***************************************************************************)
(* The shell's open document (shell/src/App.tsx) and the daemon it talks   *)
(* to through one WebSocket (shell/src/rpc.ts, crates/compos-rpc): what    *)
(* the user types, saves and opens, what others commit meanwhile, and the  *)
(* answers and events that arrive in between.                              *)
(*                                                                         *)
(* The connection answers requests in order; events of the vault's commits *)
(* are forwarded between them.  A text is the set of edits it contains:    *)
(* the user and everybody else only ever add one, so that a text that      *)
(* lacks an edit has lost it.  The n-th revision of a document is n.       *)
(***************************************************************************)
EXTENDS Integers, Sequences, FiniteSets, SequencesExt

CONSTANTS
  Docs,       \* paths of documents
  Nothing,    \* no buffer, no save
  Faults,     \* which of "lag", "close", "disconnect" and "samename" can happen
  MaxEdits,   \* bound: edits made by the user and by others
  MaxSaves,   \* bound: saves the user asks for
  MaxOpens,   \* bound: documents the user opens, creates or reloads
  MaxFaults   \* bound: faults in a behaviour

ASSUME ShellAssumption ==
  /\ Faults \subseteq {"lag", "close", "disconnect", "samename"}
  /\ {MaxEdits, MaxSaves, MaxOpens, MaxFaults} \subseteq Nat

VARIABLES
  store,      \* the revisions of each document, oldest first, and whose they are
  unsent,     \* commits of other clients whose event is not published yet
  events,     \* the event receiver of the shell's connection
  requests,   \* from the shell, in order
  answers,    \* to the shell: responses and events, in order
  serving,    \* the save that was committed and is to be announced and answered
  buffer,     \* App's current document
  saving,     \* the save in flight: savingRef and the locals of save()
  deferred,   \* deferredCommitsRef
  link,       \* "up", "lost" with the Connect form shown, or "left" by the user
  missed,     \* observation: events may have been missed
  edits, saves, opens, faults

server == <<store, unsent, events, serving>>
shell  == <<buffer, saving, deferred, link, missed>>
counters == <<edits, saves, opens, faults>>
vars == <<server, requests, answers, shell, counters>>

NullRev == 0
Text    == SUBSET (1..MaxEdits)
Rev     == 0..(MaxEdits + MaxSaves)

Commit == [path: Docs, rev: Rev]
Buffer == [path: Docs, key: Rev, base: Rev, text: Text, dirty: BOOLEAN, conflict: Rev]
Saving == [path: Docs, text: Text, phase: {"sent", "reread", "list"}]

ASSUME NothingAssumption == Nothing \notin Commit \cup Buffer \cup Saving

Request ==
  [kind: {"save"}, path: Docs, text: Text, base: Rev]
    \cup [kind: {"read"}, path: Docs, why: {"open", "refresh", "reread"}]
    \cup [kind: {"list"}]

Answer ==
  [kind: {"saved", "event"}, path: Docs, rev: Rev]
    \cup [kind: {"stale", "refused", "listed"}]
    \cup [kind: {"loaded"}, why: {"open", "refresh", "reread"}, path: Docs, rev: Rev, text: Text]
    \cup [kind: {"missing"}, why: {"open", "refresh", "reread"}]

Head_(d) == Len(store[d])
HeadText(d) == IF store[d] = <<>> THEN {} ELSE Last(store[d]).text

STypeOK ==
  /\ store \in [Docs -> Seq([text: Text, by: {"shell", "others", "silent"}])]
  /\ unsent \subseteq Commit
  /\ events \in Seq(Commit)
  /\ requests \in Seq(Request)
  /\ answers \in Seq(Answer)
  /\ serving \in Commit \cup {Nothing}
  /\ buffer \in Buffer \cup {Nothing}
  /\ saving \in Saving \cup {Nothing}
  /\ deferred \in Seq(Commit)
  /\ link \in {"up", "lost", "left"} /\ missed \in BOOLEAN
  /\ edits \in 0..MaxEdits /\ saves \in 0..MaxSaves
  /\ opens \in 0..MaxOpens /\ faults \in 0..MaxFaults
  /\ saving = Nothing => deferred = <<>>

Init ==
  /\ store = [d \in Docs |-> <<>>]
  /\ unsent = {} /\ events = <<>> /\ serving = Nothing
  /\ requests = <<>> /\ answers = <<>>
  /\ buffer = Nothing /\ saving = Nothing /\ deferred = <<>>
  /\ link = "up" /\ missed = FALSE
  /\ edits = 0 /\ saves = 0 /\ opens = 0 /\ faults = 0

-------------------------------------------------------------------------------
(* The daemon, and everybody else.                                         *)

Adds(d, text, by) == store' = [store EXCEPT ![d] = Append(@, [text |-> text, by |-> by])]

(* Another client, an accepted proposal or the watcher commits; the event  *)
(* is published after the vault is unlocked, in any order.                 *)
OthersCommit(d) ==
  /\ edits < MaxEdits
  /\ edits' = edits + 1
  /\ Adds(d, HeadText(d) \cup {edits'}, "others")
  /\ unsent' = unsent \cup {[path |-> d, rev |-> Head_(d) + 1]}
  /\ UNCHANGED <<events, serving, requests, answers, shell, saves, opens, faults>>

(* A commit that nobody announces, nor tells the shell of: the guard of     *)
(* another client's save or acceptance records an edit made outside and    *)
(* the call is refused, an acceptance fails after its save, or a scan      *)
(* fails after its first conversions.                                      *)
CommitSilently(d) ==
  /\ edits < MaxEdits
  /\ edits' = edits + 1
  /\ Adds(d, HeadText(d) \cup {edits'}, "silent")
  /\ UNCHANGED <<unsent, events, serving, requests, answers, shell, saves, opens, faults>>

Publish(c) ==
  /\ c \in unsent
  /\ unsent' = unsent \ {c}
  /\ events' = IF link = "up" THEN Append(events, c) ELSE events
  /\ UNCHANGED <<store, serving, requests, answers, shell, counters>>

Idle == link = "up" /\ serving = Nothing

Reply(answer) == answers' = Append(answers, answer)

Take(kind) ==
  /\ Idle
  /\ requests # <<>>
  /\ Head(requests).kind = kind
  /\ requests' = Tail(requests)

(* document.save: the revision is committed; the connection's own thread   *)
(* announces and answers it before it does anything else.                  *)
ServeSave ==
  /\ Take("save")
  /\ LET r == Head(requests) IN
     /\ r.base = Head_(r.path)
     /\ Adds(r.path, r.text, "shell")
     /\ serving' = [path |-> r.path, rev |-> Head_(r.path) + 1]
  /\ UNCHANGED <<unsent, events, answers, shell, counters>>

FinishSave ==
  /\ link = "up"
  /\ serving # Nothing
  /\ events' = Append(events, serving)
  /\ Reply([kind |-> "saved", path |-> serving.path, rev |-> serving.rev])
  /\ serving' = Nothing
  /\ UNCHANGED <<store, unsent, requests, shell, counters>>

(* StaleBase, possibly after the guard recorded an edit made outside,      *)
(* which nobody announces: the shell learns of it by this answer alone.    *)
ServeStale ==
  /\ Take("save")
  /\ LET r == Head(requests) IN
     \/ /\ r.base # Head_(r.path)
        /\ UNCHANGED <<store, edits>>
     \/ /\ edits < MaxEdits
        /\ edits' = edits + 1
        /\ Adds(r.path, HeadText(r.path) \cup {edits'}, "others")
  /\ Reply([kind |-> "stale"])
  /\ UNCHANGED <<unsent, events, serving, shell, saves, opens, faults>>

(* A lease held by somebody else, or an I/O error before the visible file  *)
(* is replaced.                                                            *)
ServeRefused ==
  /\ Take("save")
  /\ Reply([kind |-> "refused"])
  /\ UNCHANGED <<server, shell, counters>>

(* document.read: the head of a document.                                  *)
ServeRead ==
  /\ Take("read")
  /\ LET r == Head(requests) IN
     IF store[r.path] = <<>>
     THEN Reply([kind |-> "missing", why |-> r.why])
     ELSE Reply([kind |-> "loaded", why |-> r.why, path |-> r.path,
                 rev |-> Head_(r.path), text |-> HeadText(r.path)])
  /\ UNCHANGED <<server, shell, counters>>

ServeList ==
  /\ Take("list")
  /\ Reply([kind |-> "listed"])
  /\ UNCHANGED <<server, shell, counters>>

Forward ==
  /\ Idle
  /\ events # <<>>
  /\ Reply([kind |-> "event", path |-> Head(events).path, rev |-> Head(events).rev])
  /\ events' = Tail(events)
  /\ UNCHANGED <<store, unsent, serving, requests, shell, counters>>

-------------------------------------------------------------------------------
(* The user.                                                               *)

(* A keystroke: WriteMode's onChange. *)
Type ==
  /\ link # "lost"
  /\ buffer # Nothing
  /\ edits < MaxEdits
  /\ edits' = edits + 1
  /\ buffer' = [buffer EXCEPT !.text = @ \cup {edits'}, !.dirty = TRUE]
  /\ UNCHANGED <<server, requests, answers, saving, deferred, link, missed, saves, opens, faults>>

Ask(request) == requests' = Append(requests, request)

(* openDoc from the list, the palette, or the banner's Reload head. *)
OpenDoc(d) ==
  /\ link = "up"
  /\ opens < MaxOpens
  /\ opens' = opens + 1
  /\ Ask([kind |-> "read", path |-> d, why |-> "open"])
  /\ UNCHANGED <<server, answers, shell, edits, saves, faults>>

(* The New document dialog.  Nothing keeps the user from entering the path *)
(* of the document that is being saved ("samename").                       *)
NewDoc(d) ==
  /\ link # "lost"
  /\ opens < MaxOpens
  /\ (saving # Nothing /\ saving.path = d) => "samename" \in Faults
  /\ opens' = opens + 1
  /\ buffer' = [path |-> d, key |-> NullRev, base |-> NullRev, text |-> {},
                dirty |-> TRUE, conflict |-> NullRev]
  /\ UNCHANGED <<server, requests, answers, saving, deferred, link, missed, edits, saves, faults>>

(* save(): one at a time. *)
Save ==
  /\ link = "up"
  /\ buffer # Nothing
  /\ saving = Nothing
  /\ saves < MaxSaves
  /\ saves' = saves + 1
  /\ saving' = [path |-> buffer.path, text |-> buffer.text, phase |-> "sent"]
  /\ Ask([kind |-> "save", path |-> buffer.path, text |-> buffer.text, base |-> buffer.base])
  /\ UNCHANGED <<server, answers, buffer, deferred, link, missed, edits, opens, faults>>

-------------------------------------------------------------------------------
(* Answers and events at the shell.                                        *)

Receive(kind) ==
  /\ link = "up"
  /\ answers # <<>>
  /\ Head(answers).kind = kind
  /\ answers' = Tail(answers)

(* The buffer is still, or again, the document being saved. *)
SavedHere == buffer # Nothing /\ saving # Nothing /\ buffer.path = saving.path

(* Faulty variant: the base moves on whatever document is in the buffer. *)
ReceiveSaved_AnyPath ==
  /\ Receive("saved")
  /\ buffer' = IF buffer # Nothing
               THEN [buffer EXCEPT !.base = Head(answers).rev,
                                   !.dirty = buffer.text # saving.text,
                                   !.conflict = NullRev]
               ELSE buffer
  /\ saving' = [saving EXCEPT !.phase = "list"]
  /\ Ask([kind |-> "list"])
  /\ UNCHANGED <<server, deferred, link, missed, counters>>

(* The save is answered: the buffer's base is the new revision, and it is  *)
(* clean unless the user typed on; then the list is refreshed.             *)
ReceiveSaved ==
  /\ Receive("saved")
  /\ buffer' = IF SavedHere
               THEN [buffer EXCEPT !.base = Head(answers).rev,
                                   !.dirty = buffer.text # saving.text,
                                   !.conflict = NullRev]
               ELSE buffer
  /\ saving' = [saving EXCEPT !.phase = "list"]
  /\ Ask([kind |-> "list"])
  /\ UNCHANGED <<server, deferred, link, missed, counters>>

ReceiveStale ==
  /\ Receive("stale")
  /\ saving' = [saving EXCEPT !.phase = "reread"]
  /\ Ask([kind |-> "read", path |-> saving.path, why |-> "reread"])
  /\ UNCHANGED <<server, buffer, deferred, link, missed, counters>>

(* applyCommitEvent, for the events of one document in order. *)
Matters(b, c) == c.path = b.path /\ c.rev # b.base

News(b, commits) == {i \in DOMAIN commits : Matters(b, commits[i])}

Flagged(b, commits) ==
  LET news == News(b, commits)
  IN  IF b.dirty /\ news # {} THEN [b EXCEPT !.conflict = commits[Max(news)].rev] ELSE b

Refreshes(b, commits) ==
  IF b.dirty THEN <<>>
  ELSE [i \in 1..Cardinality(News(b, commits)) |->
          [kind |-> "read", path |-> b.path, why |-> "refresh"]]

(* The finally of save(): events that arrived meanwhile are judged now. *)
Settle(b) ==
  /\ saving' = Nothing
  /\ deferred' = <<>>
  /\ buffer' = Flagged(b, deferred)
  /\ requests' = requests \o Refreshes(b, deferred)

(* Faulty variant: the events that waited for the save are dropped. *)
SaveEnds_Drops ==
  /\ \/ Receive("listed") \/ Receive("refused")
  /\ saving' = Nothing
  /\ deferred' = <<>>
  /\ UNCHANGED <<server, requests, buffer, link, missed, counters>>

(* Faulty variant: savingRef is reset, the events stay where they are. *)
SaveEnds_KeepsDeferred ==
  /\ \/ Receive("listed") \/ Receive("refused")
  /\ saving' = Nothing
  /\ buffer' = Flagged(buffer, deferred)
  /\ requests' = requests \o Refreshes(buffer, deferred)
  /\ UNCHANGED <<server, deferred, link, missed, counters>>

(* Faulty variant: savingRef is reset on success only. *)
SaveEnds_NoFinally ==
  \/ /\ Receive("listed")
     /\ Settle(buffer)
     /\ UNCHANGED <<server, link, missed, counters>>
  \/ /\ Receive("refused")
     /\ UNCHANGED <<server, requests, shell, counters>>

(* The list was refreshed, or save() failed. *)
SaveEnds ==
  /\ \/ Receive("listed") \/ Receive("refused")
  /\ Settle(buffer)
  /\ UNCHANGED <<server, link, missed, counters>>

Unknown == MaxEdits + MaxSaves

(* The head a stale save was refused for becomes the conflict. *)
ReceiveReread ==
  /\ \/ Receive("loaded") \/ Receive("missing")
  /\ Head(answers).why = "reread"
  /\ Settle(IF SavedHere
            THEN [buffer EXCEPT !.conflict =
                    IF Head(answers).kind = "loaded" THEN Head(answers).rev ELSE Unknown]
            ELSE buffer)
  /\ UNCHANGED <<server, link, missed, counters>>

(* openDoc's answer replaces the buffer.  When the editor keeps its view   *)
(* (same path and revision) the changed text passes through onChange.      *)
ReceiveLoaded ==
  /\ Receive("loaded")
  /\ LET a == Head(answers)
         kept == buffer # Nothing /\ buffer.path = a.path /\ buffer.key = a.rev
     IN  /\ a.why # "reread"
         /\ buffer' = [path |-> a.path, key |-> a.rev, base |-> a.rev, text |-> a.text,
                       dirty |-> kept /\ buffer.text # a.text, conflict |-> NullRev]
  /\ UNCHANGED <<server, requests, saving, deferred, link, missed, counters>>

ReceiveMissing ==
  /\ Receive("missing")
  /\ Head(answers).why # "reread"
  /\ UNCHANGED <<server, requests, shell, counters>>

(* Faulty variant: a commit event is the word of the daemon on the base. *)
ReceiveEvent_Rebases ==
  /\ Receive("event")
  /\ LET c == [path |-> Head(answers).path, rev |-> Head(answers).rev] IN
     /\ buffer' = IF buffer # Nothing /\ c.path = buffer.path /\ buffer.dirty
                  THEN [buffer EXCEPT !.base = c.rev] ELSE buffer
     /\ requests' = IF buffer = Nothing THEN requests
                    ELSE requests \o Refreshes(buffer, <<c>>)
  /\ UNCHANGED <<server, saving, deferred, link, missed, counters>>

(* handleEvent for revision.committed: judged at once, or after the save.  *)
ReceiveEvent ==
  /\ Receive("event")
  /\ LET c == [path |-> Head(answers).path, rev |-> Head(answers).rev]
         mine == buffer # Nothing /\ c.path = buffer.path
     IN  /\ deferred' = IF mine /\ saving # Nothing THEN Append(deferred, c) ELSE deferred
         /\ buffer' = IF mine /\ saving = Nothing THEN Flagged(buffer, <<c>>) ELSE buffer
         /\ requests' = IF mine /\ saving = Nothing
                        THEN requests \o Refreshes(buffer, <<c>>) ELSE requests
  /\ UNCHANGED <<server, saving, link, missed, counters>>

-------------------------------------------------------------------------------
(* Faults.                                                                 *)

Fault(kind) ==
  /\ kind \in Faults
  /\ faults < MaxFaults
  /\ faults' = faults + 1
  /\ missed' = TRUE
  /\ UNCHANGED <<edits, saves, opens>>

(* The receiver lags: the oldest events are skipped.  The shell refreshes  *)
(* its lists when it sees the gap, and leaves the buffer alone.            *)
Lag ==
  /\ link = "up"
  /\ events # <<>>
  /\ Fault("lag")
  /\ events' = Tail(events)
  /\ UNCHANGED <<store, unsent, serving, requests, answers, buffer, saving, deferred, link>>

Hangup ==
  /\ link = "up"
  /\ events' = <<>> /\ serving' = Nothing
  /\ requests' = <<>> /\ answers' = <<>>
  /\ UNCHANGED <<store, unsent>>

(* The daemon goes away.  Every pending promise is rejected, so a save     *)
(* ends; one that was about to read the head has an unknown conflict.      *)
Close ==
  /\ Hangup
  /\ Fault("close")
  /\ link' = "lost"
  /\ saving' = Nothing
  /\ deferred' = <<>>
  /\ buffer' = LET b == IF SavedHere /\ saving.phase = "reread"
                       THEN [buffer EXCEPT !.conflict = Unknown] ELSE buffer
               IN  IF b = Nothing THEN b ELSE Flagged(b, deferred)

(* The user disconnects.  close() sets closed, so that handleClose returns *)
(* early: no promise is settled, and the session stays without a socket.   *)
Disconnect ==
  /\ Hangup
  /\ Fault("disconnect")
  /\ link' = "left"
  /\ UNCHANGED <<buffer, saving, deferred>>

(* The Connect form; the buffer survives, as it was. *)
Reconnect ==
  /\ link = "lost"
  /\ link' = "up"
  /\ UNCHANGED <<server, requests, answers, buffer, saving, deferred, missed, counters>>

-------------------------------------------------------------------------------
Serve  == ServeSave \/ FinishSave \/ ServeStale \/ ServeRefused \/ ServeRead \/ ServeList
Handle == ReceiveSaved \/ ReceiveStale \/ SaveEnds \/ ReceiveReread \/ ReceiveLoaded
            \/ ReceiveMissing \/ ReceiveEvent
Wait   == requests = <<>> /\ answers = <<>> /\ serving = Nothing /\ UNCHANGED vars

Next ==
  \/ \E d \in Docs : OthersCommit(d) \/ CommitSilently(d) \/ OpenDoc(d) \/ NewDoc(d)
  \/ \E c \in unsent : Publish(c)
  \/ Serve \/ Forward \/ Handle
  \/ Type \/ Save
  \/ Lag \/ Close \/ Disconnect \/ Reconnect \/ Wait

Spec == Init /\ [][Next]_vars

(* The daemon's connection task and the browser's event loop both run on.  *)
FairSpec == Spec /\ WF_vars(Serve) /\ WF_vars(Forward) /\ WF_vars(Handle)

-------------------------------------------------------------------------------
(* Properties.                                                             *)

TextOf(d, rev) == IF rev = NullRev THEN {} ELSE store[d][rev].text

(* What somebody else put into a document. *)
OthersEdits(d) ==
  UNION {TextOf(d, i) \ TextOf(d, i - 1) :
           i \in {j \in DOMAIN store[d] : store[d][j].by # "shell"}}

(* No save of the shell takes out an edit of somebody else, which the user *)
(* never saw: "the shell never overwrites" (WriteMode.tsx).  The base is   *)
(* sent along for that, and it must never run ahead of the text.           *)
OthersKept ==
  \A d \in Docs : \A i \in DOMAIN store[d] :
    store[d][i].by = "shell" => TextOf(d, i - 1) \cap OthersEdits(d) \subseteq store[d][i].text

(* Nothing is on its way to the shell. *)
Quiet ==
  /\ link = "up" /\ ~missed
  /\ requests = <<>> /\ answers = <<>> /\ events = <<>> /\ unsent = {} /\ serving = Nothing

(* A revision after the base of a buffer, other than the silent ones. *)
Behind(b) == \E r \in DOMAIN store[b.path] : r > b.base /\ store[b.path][r].by # "silent"

(* When everything has arrived, a buffer shown as saved, without a banner, *)
(* is the head of its document, or the revision before the commits nobody  *)
(* announced, whatever was in flight at the same time.                     *)
CleanShowsHead ==
  Quiet /\ buffer # Nothing /\ ~buffer.dirty /\ buffer.conflict = NullRev =>
    /\ ~Behind(buffer)
    /\ buffer.base \in DOMAIN store[buffer.path]
    /\ buffer.text = TextOf(buffer.path, buffer.base)

(* When everything has arrived, unsaved changes to an old revision carry   *)
(* the banner that says so, unless nobody announced what came after it.    *)
ConflictShown ==
  Quiet /\ buffer # Nothing /\ buffer.dirty /\ buffer.base # NullRev /\ Behind(buffer) =>
    buffer.conflict # NullRev

(* A reload that a commit event asked for, "applied once it is safe:       *)
(* reload a clean buffer, flag a dirty one as conflicted" (App.tsx), does  *)
(* not replace text the user has typed.                                    *)
ReloadsAreSafe ==
  [][answers # <<>> /\ answers' = Tail(answers) /\ buffer # Nothing /\ buffer.dirty
       /\ Head(answers).kind = "loaded" /\ Head(answers).why = "refresh"
     => buffer' # Nothing /\ buffer'.text = buffer.text]_vars

(* A save comes to an end, so that the user can save again, unless the     *)
(* user has left the daemon (then save()'s promises are never settled).    *)
SavingEnds == saving # Nothing ~> saving = Nothing \/ link = "left"
================================================================================
