---------------------------- MODULE ChatStream -----------------------------
(***************************************************************************)
(* One turn of a web chat over the event bus: the pipeline that answers,   *)
(* the collector that turns its events into snapshots of the reply, the    *)
(* row of the history they are saved in, and the browsers that watch.      *)
(*                                                                         *)
(* The collector is one goroutine; each case of its select is a step, and  *)
(* so is each of the calls a turn ends with.  A browser's request is a     *)
(* goroutine that subscribes, reads the row and then follows the events.   *)
(***************************************************************************)
EXTENDS EventBus

CONSTANTS
  Chat,       \* the trace of the turn; other traces only fill the ring
  Collector,  \* the collector's handle; the others belong to browsers
  Sender,     \* the browser that sends the message
  DbFails,    \* whether a write of the history may fail
  CanStop     \* whether the bot may be stopped during the turn

ASSUME ChatAssumption ==
  /\ Chat \in Traces /\ Topics = {Chat}
  /\ Collector \in Subs /\ Sender \in Subs \ {Collector}
  /\ DbFails \in BOOLEAN /\ CanStop \in BOOLEAN

Browsers == Subs \ {Collector}

VARIABLES
  kind,       \* the kind of every event, by sequence number
  pipe,       \* where the pipeline is with the message
  responses,  \* the response channel of the trace: open or not, its replies
  turn,       \* chatTurn
  row,        \* the assistant's row of the chat history
  view,       \* browser -> its request
  past        \* history: the reply was sent, a final write failed, a stop

chatVars == <<kind, pipe, responses, turn, row, view, past>>
allVars == <<vars, chatVars>>

Terminal == {"done", "dropped", "error"}

NoRow == [state |-> "none", seq |-> 0, reply |-> FALSE]
NoView == [pc |-> "off", snap |-> NoRow, cursor |-> 0, pending |-> FALSE,
           shown |-> "nothing"]

NoTurn == [pc |-> "none", seq |-> 0, incomplete |-> FALSE, reply |-> FALSE,
           ended |-> FALSE, told |-> FALSE, failed |-> FALSE]

ChatInit ==
  /\ Init
  /\ kind = <<>> /\ pipe = "none"
  /\ responses = [open |-> FALSE, replies |-> 0]
  /\ turn = NoTurn
  /\ row = NoRow
  /\ view = [b \in Browsers |-> NoView]
  /\ past = {}

\* Bound: room is left in the log for what the turn has yet to publish.
Owed == Cardinality({k \in {"begin", "terminal", "final"} :
          CASE k = "begin" -> pipe \in {"none", "queued"}
            [] k = "terminal" -> pipe \in {"none", "queued", "running", "replied"}
            [] k = "final" -> turn.pc \in {"none", "run", "announce"}})
Room == Len(log) + Owed < MaxEvents

\* An event of the turn; a bus that is closed ignores it.  (A bot that stops
\* works off its queue, so that a message may begin after its turn has ended.)
Emit(t, k) ==
  \/ Publish(t, k = "begin" /\ t \notin Range(log)) /\ kind' = Append(kind, k)
  \/ closed /\ UNCHANGED <<vars, kind>>

\* A browser's request goes on, or ends having shown something last.
Step(b, v) == view' = [view EXCEPT ![b] = v]

Quit(b, what) ==
  /\ Step(b, [NoView EXCEPT !.pc = "ended", !.shown = what])
  /\ Unsubscribe(b)

Told(reply) == IF reply THEN "reply" ELSE "end"

Managed == turn.pc \notin {"none", "over"}
Running == pipe \in {"running", "replied", "ended"}

-----------------------------------------------------------------------------
(***************************************************************************)
(* The history.  An older snapshot does not replace a newer one, nor a     *)
(* streaming one a final one; one without a cursor gives way to both.      *)
(***************************************************************************)
Accepts(streaming, seq) ==
  \/ row.state = "none"
  \/ /\ ~(row.state = "final" /\ streaming)
     /\ ~(seq > 0 /\ seq < row.seq)
     /\ ~(seq = 0 /\ row.seq > 0 /\ (row.state = "final" \/ streaming))

Upserted(streaming, seq, reply) ==
  IF Accepts(streaming, seq)
  THEN [state |-> IF streaming THEN "streaming" ELSE "final",
        seq |-> IF seq > 0 THEN seq ELSE row.seq, reply |-> reply]
  ELSE row

-----------------------------------------------------------------------------
(***************************************************************************)
(* The request that sends the message.                                     *)
(***************************************************************************)
\* prepareChatTurn
Prepare ==
  /\ turn.pc = "none" /\ "stop" \notin past
  /\ Open(Collector, Chat, TRUE, FALSE, 0)
  /\ responses' = [open |-> TRUE, replies |-> 0]
  /\ turn' = [turn EXCEPT !.pc = "run"]
  /\ UNCHANGED <<kind, pipe, row, view, past>>

\* handleChatSend goes on: it subscribes for its own browser, ...
Follow ==
  /\ turn.pc # "none" /\ view[Sender].pc = "off"
  /\ Open(Sender, Chat, FALSE, TRUE, 0)
  /\ Step(Sender, [NoView EXCEPT !.pc = "sending"])
  /\ UNCHANGED <<kind, pipe, responses, turn, row, past>>

\* Mutant of Show: the floor of the replay is not compared with the snapshot's cursor.
ShowAnyway(b, snap) ==
  IF snap.state = "final" THEN Quit(b, Told(snap.reply))
  ELSE /\ Step(b, [NoView EXCEPT !.pc = "top", !.cursor = snap.seq])
       /\ UNCHANGED vars

\* A snapshot is shown; a final one is all there is to show.
Show(b, snap) ==
  IF snap.state = "final" THEN Quit(b, Told(snap.reply))
  ELSE IF sub[b].after > snap.seq THEN Quit(b, "recover")
  ELSE /\ Step(b, [NoView EXCEPT !.pc = "top", !.cursor = snap.seq])
       /\ UNCHANGED vars

\* ... and injects the message, which may be refused.
Inject ==
  /\ view[Sender].pc = "sending"
  /\ \/ /\ pipe' = "queued" /\ "stop" \notin past
        /\ Show(Sender, NoRow)
        /\ UNCHANGED turn
     \/ /\ pipe' = "over"
        /\ Quit(Sender, "gone")
        /\ turn' = [turn EXCEPT !.failed = TRUE]
  /\ UNCHANGED <<kind, responses, row, past>>

-----------------------------------------------------------------------------
(***************************************************************************)
(* The engine's worker.  Each way out of it publishes one terminal event   *)
(* and then reports the message done.                                      *)
(***************************************************************************)
Begin ==
  /\ pipe = "queued" /\ pipe' = "running"
  /\ Emit(Chat, "begin")
  /\ UNCHANGED <<responses, turn, row, view, past>>

Delta ==
  /\ pipe = "running" /\ Room
  /\ Emit(Chat, "delta")
  /\ UNCHANGED <<pipe, responses, turn, row, view, past>>

\* WebChannel.Send: to the collector, or else straight to the history.
Reply ==
  /\ pipe = "running" /\ pipe' = "replied"
  /\ IF responses.open
     THEN responses' = [responses EXCEPT !.replies = @ + 1] /\ UNCHANGED row
     ELSE row' = Upserted(FALSE, 0, TRUE) /\ UNCHANGED responses
  /\ past' = past \cup {"reply"}
  /\ UNCHANGED <<vars, kind, turn, view>>

\* Done, dropped, failed or cancelled; after the reply only done or, when
\* another action could not be dispatched, failed.
Terminate ==
  /\ \E k \in Terminal :
       /\ pipe = "running" \/ (pipe = "replied" /\ k # "dropped")
       /\ Emit(Chat, k)
  /\ pipe' = "ended"
  /\ UNCHANGED <<responses, turn, row, view, past>>

\* OnMessageDone, which notifies the turn if it is still there.
Report ==
  /\ pipe = "ended" /\ pipe' = "over"
  /\ turn' = IF Managed THEN [turn EXCEPT !.ended = TRUE] ELSE turn
  /\ UNCHANGED <<vars, kind, responses, row, view, past>>

Noise ==
  /\ Room
  /\ \E t \in Traces \ {Chat} : Emit(t, "noise")
  /\ UNCHANGED <<pipe, responses, turn, row, view, past>>

\* WebChannel.Stop
Stop ==
  /\ CanStop /\ "stop" \notin past /\ turn.pc = "run"
  /\ past' = past \cup {"stop"}
  /\ responses' = [responses EXCEPT !.open = FALSE]
  /\ UNCHANGED <<vars, kind, pipe, turn, row, view>>

-----------------------------------------------------------------------------
(***************************************************************************)
(* chatTurn.run, the collector.                                            *)
(***************************************************************************)
\* Mutant of FallbackDue: the end of the turn is only looked for among the events.
FallbackNever == FALSE

\* The end came while history was lost: checked before every select.
FallbackDue ==
  /\ turn.incomplete /\ turn.told
  /\ sub[Collector].state # "overflowed" /\ sub[Collector].ch = <<>>

Selecting == turn.pc = "run" /\ ~FallbackDue

\* Mutant of Finish: the replies still queued are left in the channel.
FinishAtOnce(seq) ==
  /\ turn' = [turn EXCEPT !.pc = "announce", !.seq = seq]
  /\ UNCHANGED responses
  /\ \/ row' = Upserted(FALSE, seq, turn.reply) /\ UNCHANGED past
     \/ DbFails /\ past' = past \cup {"db"} /\ UNCHANGED row

\* finish: the replies still queued are drained, the row is made final, which
\* may fail; the event that says so is published next.
Finish(seq) ==
  LET reply == turn.reply \/ responses.replies > 0 IN
  /\ turn' = [turn EXCEPT !.pc = "announce", !.seq = seq, !.reply = reply]
  /\ responses' = [responses EXCEPT !.replies = 0]
  /\ \/ row' = Upserted(FALSE, seq, reply) /\ UNCHANGED past
     \/ DbFails /\ past' = past \cup {"db"} /\ UNCHANGED row

Fallback ==
  /\ turn.pc = "run" /\ FallbackDue
  /\ Finish(turn.seq)
  /\ UNCHANGED <<vars, kind, pipe, view>>

\* An event: the last of them ends the turn, any other may be saved at once.
TakeEvent ==
  LET n == Head(sub[Collector].ch)
  IN
  /\ Selecting
  /\ Receive(Collector)
  /\ IF kind[n] \in Terminal THEN Finish(n)
     ELSE /\ turn' = [turn EXCEPT !.seq = n]
          /\ row' \in {row, Upserted(TRUE, n, FALSE)}
          /\ UNCHANGED <<responses, past>>
  /\ UNCHANGED <<kind, pipe, view>>

\* The ticker saves what no event has saved since.
Flush ==
  /\ Selecting /\ turn.seq > row.seq
  /\ row' = Upserted(TRUE, turn.seq, FALSE)
  /\ UNCHANGED <<vars, kind, pipe, responses, turn, view, past>>

\* The channel is drained and closed: after an overflow the collector
\* subscribes again at its cursor.
Dry == sub[Collector].ch = <<>>

Recover ==
  /\ Selecting /\ Dry /\ sub[Collector].state = "overflowed"
  /\ Open(Collector, Chat, FALSE, TRUE, turn.seq)
  /\ turn' = [turn EXCEPT !.incomplete = @ \/ turn.seq < sub'[Collector].after]
  /\ UNCHANGED <<kind, pipe, responses, row, view, past>>

GiveUp ==
  /\ Selecting
  /\ \/ Dry /\ sub[Collector].state \in {"closed", "rejected"}
     \/ responses.replies = 0 /\ ~responses.open
     \/ turn.failed
  /\ Finish(turn.seq)
  /\ UNCHANGED <<vars, kind, pipe, view>>

TakeReply ==
  /\ Selecting /\ responses.replies > 0
  /\ responses' = [responses EXCEPT !.replies = @ - 1]
  /\ turn' = [turn EXCEPT !.reply = TRUE]
  /\ UNCHANGED <<vars, kind, pipe, row, view, past>>

TakeEnd ==
  /\ Selecting /\ turn.ended
  /\ turn' = [turn EXCEPT !.ended = FALSE, !.told = TRUE]
  /\ UNCHANGED <<vars, kind, pipe, responses, row, view, past>>

\* chat.done or chat.error, with the reply in it.
Announce ==
  /\ turn.pc = "announce"
  /\ Emit(Chat, "final")
  /\ turn' = [turn EXCEPT !.pc = "leave"]
  /\ UNCHANGED <<pipe, responses, row, view, past>>

\* The deferred calls.
Leave ==
  /\ turn.pc = "leave"
  /\ Unsubscribe(Collector)
  /\ responses' = [responses EXCEPT !.open = FALSE]
  /\ turn' = [NoTurn EXCEPT !.pc = "over", !.reply = turn.reply]
  /\ UNCHANGED <<kind, pipe, row, view, past>>

-----------------------------------------------------------------------------
(***************************************************************************)
(* A browser's request: handleChatResume, serveChatEvents.  "shown" is     *)
(* what it was told last: "reply" or "end" of the turn, or to come again.  *)
(***************************************************************************)
\* It subscribes before it reads the row.
Resume(b) ==
  /\ turn.pc # "none"
  /\ \/ view[b].pc = "off" /\ b # Sender
     \/ view[b].shown \in {"recover", "left"}
  /\ Open(b, Chat, FALSE, TRUE, 0)
  /\ Step(b, [NoView EXCEPT !.pc = "subscribed"])
  /\ UNCHANGED <<kind, pipe, responses, turn, row, past>>

Load(b) ==
  /\ view[b].pc = "subscribed"
  /\ Step(b, [view[b] EXCEPT !.pc = "loaded", !.snap = row])
  /\ UNCHANGED <<vars, kind, pipe, responses, turn, row, past>>

\* Mutant of Abandoned: events still in the browser's channel are not looked at.
AbandonedEarly(b) == view[b].snap.state # "final" /\ ~Managed /\ ~Running

\* A turn that cannot produce more events is closed for it.
Abandoned(b) ==
  view[b].snap.state # "final" /\ ~Managed /\ ~Running /\ sub[b].ch = <<>>

Start(b) ==
  LET snap == view[b].snap
      interrupted == Upserted(FALSE, snap.seq, FALSE)
  IN
  /\ view[b].pc = "loaded"
  /\ IF ~Abandoned(b) THEN Show(b, snap) /\ UNCHANGED row
     ELSE IF snap.state = "none" THEN Quit(b, "gone") /\ UNCHANGED row
     ELSE \/ row' = interrupted /\ Show(b, interrupted)
          \/ DbFails /\ Quit(b, "gone") /\ UNCHANGED row
  /\ UNCHANGED <<kind, pipe, responses, turn, past>>

\* The head of the loop.
Top(b) ==
  /\ view[b].pc = "top"
  /\ IF sub[b].state = "overflowed" THEN Quit(b, "recover")
     ELSE IF view[b].pending /\ ~Managed /\ sub[b].ch = <<>>
     THEN Quit(b, Told(row.state = "final" /\ row.reply))
     ELSE Step(b, [view[b] EXCEPT !.pc = "select"]) /\ UNCHANGED vars
  /\ UNCHANGED <<kind, pipe, responses, turn, row, past>>

\* An event: one at or before the cursor is skipped, the pipeline's last is
\* kept until the collector has spoken.
Watch(b) ==
  LET n == Head(sub[b].ch)
      v == [view[b] EXCEPT !.pc = "top", !.cursor = IF n > @ THEN n ELSE @]
  IN
  /\ view[b].pc = "select" /\ sub[b].ch # <<>>
  /\ IF n > view[b].cursor /\ kind[n] = "final"
     THEN Quit(b, Told(turn.reply))
     ELSE /\ Receive(b)
          /\ Step(b, [v EXCEPT !.pending = @ \/ (n > view[b].cursor /\ kind[n] \in Terminal)])
  /\ UNCHANGED <<kind, pipe, responses, turn, row, past>>

\* A heartbeat, which counts where the head of the loop has something to do,
\* or a channel that is closed and drained.
Beat(b) ==
  /\ view[b].pc = "select" /\ sub[b].ch = <<>>
  /\ \/ /\ view[b].pending /\ ~Managed
        /\ Step(b, [view[b] EXCEPT !.pc = "top"]) /\ UNCHANGED vars
     \/ b \notin Registered /\ Quit(b, "recover")
  /\ UNCHANGED <<kind, pipe, responses, turn, row, past>>

\* The browser goes away.
Disconnect(b) ==
  /\ view[b].pc = "select"
  /\ Quit(b, "left")
  /\ UNCHANGED <<kind, pipe, responses, turn, row, past>>

\* The bus is closed under the turn, and what it forgets by itself.
Shut == Close /\ UNCHANGED chatVars
ChatExpire == Expire /\ UNCHANGED chatVars

Send == Follow \/ Inject
Work == Begin \/ Reply \/ Terminate \/ Report
Collect == Fallback \/ TakeEvent \/ Recover \/ GiveUp \/ TakeReply \/ TakeEnd
           \/ Announce \/ Leave
Serve(b) == Load(b) \/ Start(b) \/ Top(b) \/ Watch(b) \/ Beat(b)

ChatNext ==
  \/ Prepare \/ Send \/ Work \/ Delta \/ Collect \/ Flush
  \/ Noise \/ Stop \/ Shut \/ ChatExpire
  \/ \E b \in Browsers : Resume(b) \/ Serve(b) \/ Disconnect(b)

ChatSpec == ChatInit /\ [][ChatNext]_allVars

\* The worker ends every message, by its timeouts if need be, and a goroutine
\* that can take a step takes one.
ChatFairSpec ==
  /\ ChatSpec
  /\ WF_allVars(Send) /\ WF_allVars(Work) /\ WF_allVars(Collect)
  /\ \A b \in Browsers : WF_allVars(Serve(b))

-----------------------------------------------------------------------------
OnChat(n) == n \in DOMAIN log /\ log[n] = Chat

\* Whoever follows the turn misses nothing on the way from the snapshot to
\* the live events: what comes after its cursor is still to come on its
\* channel.  The collector may have lost events, but then it knows.  (One that
\* was refused its subscription finds its channel closed.)
Follows(s) == sub[s].state \in {"open", "overflowed", "closed"}

NothingSkipped ==
  /\ \A b \in Browsers : view[b].pc \in {"top", "select"} /\ Follows(b) =>
       \A n \in 1 .. sub[b].pos : OnChat(n) => n <= view[b].cursor
  /\ turn.pc = "run" /\ ~turn.incomplete /\ Follows(Collector) =>
       \A n \in 1 .. sub[Collector].pos : OnChat(n) => n <= turn.seq

\* The reply outlives everything that may be lost around it: once the turn is
\* finished it is in the history, unless that write failed, and a browser
\* that was told of the end was shown it.
ReplyKept ==
  "reply" \in past /\ "stop" \notin past =>
    /\ turn.pc \in {"announce", "leave", "over"} =>
         turn.reply /\ ((row.state = "final" /\ row.reply) \/ "db" \in past)
    /\ \A b \in Browsers : view[b].shown = "end" => "db" \in past

\* A final row with the reply in it is never replaced by a draft.
FinalKept ==
  [][row.state = "final" /\ row.reply /\ "stop" \notin past => row' = row]_row

\* A turn ends, in whatever order its events, its notification and its reply
\* come, and whichever of them are lost, and the browsers that wait for it are
\* let go.
Settles ==
  (turn.pc = "run") ~>
    (turn.pc = "over" /\ \A b \in Browsers : view[b].pc \in {"off", "ended"})

=============================================================================
