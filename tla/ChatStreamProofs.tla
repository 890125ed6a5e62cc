-------------------------- MODULE ChatStreamProofs -------------------------
(***************************************************************************)
(* Proofs about ChatStream: whoever follows a turn skips no event of it,   *)
(* whatever is lost, cut off, refused or closed meanwhile; and, as long as *)
(* the bot is not stopped and the bus serves everyone, the reply is kept   *)
(* and no draft replaces it.                                               *)
(***************************************************************************)
EXTENDS ChatStream, EventBusProofs

Rows == [state : {"none", "streaming", "final"}, seq : Nat, reply : BOOLEAN]

Turns ==
  [pc : {"none", "run", "announce", "leave", "over"}, seq : Nat, incomplete : BOOLEAN,
   reply : BOOLEAN, ended : BOOLEAN, told : BOOLEAN, failed : BOOLEAN]

Views ==
  [pc : {"off", "sending", "subscribed", "loaded", "top", "select", "ended"},
   snap : Rows, cursor : Nat, pending : BOOLEAN,
   shown : {"nothing", "reply", "end", "recover", "left", "gone"}]

Kinds == {"begin", "delta", "noise", "final"} \cup Terminal

ChatType ==
  /\ kind \in Seq(Kinds) /\ Len(kind) = Len(log)
  /\ pipe \in {"none", "queued", "running", "replied", "ended", "over"}
  /\ responses \in [open : BOOLEAN, replies : Nat]
  /\ turn \in Turns /\ row \in Rows
  /\ view \in [Browsers -> Views]
  /\ past \subseteq {"reply", "db", "stop"}

(***************************************************************************)
(* Who holds which subscription, and how far its reader has got: not past  *)
(* the floor it was told before it has looked at the snapshot, and not     *)
(* past its cursor afterwards.                                             *)
(***************************************************************************)
Waiting == {"sending", "subscribed", "loaded"}
Watching == {"top", "select"}

Served(s) == sub[s].state # "rejected"

BrowserOk(b) ==
  /\ IF view[b].pc \in Waiting \cup Watching
     THEN ~Free(b) /\ sub[b].topic = Chat ELSE Free(b)
  /\ view[b].shown # "nothing" => view[b].pc = "ended"
  /\ view[b].pc \in Waiting /\ Served(b) => sub[b].pos <= sub[b].after
  /\ view[b].pc \in Watching /\ Served(b) => sub[b].pos <= view[b].cursor

CollectorOk ==
  /\ IF turn.pc \in {"run", "announce", "leave"}
     THEN ~Free(Collector) /\ sub[Collector].topic = Chat ELSE Free(Collector)
  /\ turn.pc = "run" => turn.seq <= sub[Collector].pos
  /\ turn.pc = "run" /\ ~turn.incomplete /\ Served(Collector) =>
       \A n \in 1 .. sub[Collector].pos : log[n] = Chat => n <= turn.seq

\* Nothing happens before the turn is prepared.
Dawn == turn.pc = "none" =>
  /\ turn.seq = 0 /\ pipe = "none" /\ Chat \notin Range(log)
  /\ \A b \in Browsers : view[b].pc = "off"

ChatInv ==
  /\ BusInv /\ Streams /\ ChatType
  /\ \A b \in Browsers : BrowserOk(b)
  /\ CollectorOk /\ Dawn

-----------------------------------------------------------------------------
(***************************************************************************)
(* What a step of the bus leaves alone: the log only grows, and the        *)
(* subscriptions of everyone else stay what they were to their readers.    *)
(***************************************************************************)
Grows ==
  /\ Len(log) <= Len(log')
  /\ \A n \in 1 .. Len(log) : log'[n] = log[n]

Same(s) ==
  /\ Free(s)' <=> Free(s)
  /\ ~Free(s) => /\ sub'[s].topic = sub[s].topic
                 /\ sub'[s].pos = sub[s].pos /\ sub'[s].after = sub[s].after
                 /\ Served(s)' <=> Served(s)

Others(S) == \A s \in Subs \ S : Same(s)

BusKept == BusInv' /\ Streams' /\ Grows

LEMMA SameWhenUnchanged ==
  ASSUME NEW s \in Subs, sub'[s] = sub[s]
  PROVE  Same(s)
  BY DEF Same, Free, Served

LEMMA IdleKept ==
  ASSUME ChatInv, UNCHANGED vars
  PROVE  BusKept /\ Others({}) /\ log' = log
<1>1. log' = log /\ sub' = sub
  BY DEF vars
<1>2. BusInv' /\ Streams'
  BY BusNext, StreamsNext DEF ChatInv
<1>3. Grows
  BY <1>1 DEF Grows, ChatInv, BusInv, Plain
<1> QED
  BY <1>1, <1>2, <1>3, SameWhenUnchanged DEF BusKept, Others

LEMMA PublishKept ==
  ASSUME ChatInv, NEW t \in Traces, NEW begins \in BOOLEAN, Publish(t, begins)
  PROVE  BusKept /\ Others({}) /\ log' = Append(log, t)
<1>1. BusInv /\ Streams /\ Plain /\ log \in Seq(Traces)
  BY DEF ChatInv, BusInv, Plain
<1>2. BusInv' /\ Streams'
  BY <1>1, PublishStep, PublishStreams
<1>3. log' = Append(log, t)
  BY DEF Publish
<1>4. Grows
  BY <1>1, <1>3 DEF Grows
<1>5. ASSUME NEW s \in Subs PROVE Same(s)
  <2>1. CASE s \in Subs \ For(t)
    BY <1>1, <2>1, PublishSubs, SameWhenUnchanged
  <2>2. CASE s \in For(t)
    <3>1. /\ sub'[s].topic = sub[s].topic /\ sub'[s].pos = sub[s].pos
          /\ sub'[s].after = sub[s].after /\ s \in Registered
          /\ sub'[s].state \in {"overflowed", "open"}
      BY <1>1, <2>2, PublishSubs
    <3> QED
      BY <3>1 DEF Same, Free, Served, Registered
  <2> QED
    BY <2>1, <2>2
<1> QED
  BY <1>2, <1>3, <1>4, <1>5 DEF BusKept, Others

LEMMA OpenKept ==
  ASSUME ChatInv, NEW s \in Subs, s \notin Registered,
         NEW fresh \in BOOLEAN, NEW replay \in BOOLEAN, NEW since \in 0 .. Len(log),
         fresh => Chat \notin Range(log), Open(s, Chat, fresh, replay, since)
  PROVE  /\ BusKept /\ Others({s}) /\ log' = log
         /\ ~Free(s)' /\ sub'[s].topic = Chat
         /\ sub'[s].pos \in 0 .. Len(log) /\ sub'[s].after \in 0 .. Len(log)
         /\ since <= sub'[s].pos
         /\ replay /\ Served(s)' => sub'[s].pos = since \/ sub'[s].pos <= sub'[s].after
<1>1. BusInv /\ Streams /\ Plain /\ Len(log) \in Nat /\ log \in Seq(Traces)
  BY DEF ChatInv, BusInv, Plain
<1>2. Chat \in Topics /\ Chat # OfBot
  BY ChatAssumption, BusAssumption
<1>3. log' = log
  BY DEF Open
<1>4. Grows
  BY <1>1, <1>3 DEF Grows
<1>5. BusInv' /\ Streams'
  BY <1>1, <1>2, OpenStep, OpenStreams
<1>6. /\ \A r \in Subs \ {s} : sub'[r] = sub[r]
      /\ sub'[s].topic = Chat
      /\ sub'[s].pos \in 0 .. Len(log) /\ sub'[s].after \in 0 .. Len(log)
      /\ Admitted =>
              /\ sub'[s].state = "open"
              /\ sub'[s].pos = IF replay THEN LostTo(Chat, since) ELSE Len(log)
              /\ replay => sub'[s].pos = since \/ sub'[s].pos <= sub'[s].after
      /\ ~Admitted => sub'[s].state = "rejected" /\ sub'[s].pos = Len(log)
  BY <1>1, <1>2, OpenSubs
<1>7. since <= sub'[s].pos
  <2>1. store.overwritten \in 0 .. Len(log) /\ expired \in 0 .. Len(log)
    BY <1>1 DEF BusInv, Sane, Store
  <2>2. since <= LostTo(Chat, since)
    BY <1>1, <2>1, LostFacts
  <2> QED
    BY <1>1, <1>6, <2>2
<1>8. ~Free(s)'
  BY <1>6 DEF Free
<1>9. replay /\ Served(s)' => sub'[s].pos = since \/ sub'[s].pos <= sub'[s].after
  BY <1>6 DEF Served
<1> QED
  BY <1>3, <1>4, <1>5, <1>6, <1>7, <1>8, <1>9, SameWhenUnchanged DEF BusKept, Others

LEMMA ReceiveKept ==
  ASSUME ChatInv, NEW s \in Subs, Receive(s), sub[s].topic = Chat
  PROVE  /\ BusKept /\ Others({s}) /\ log' = log
         /\ ~Free(s) /\ ~Free(s)' /\ sub'[s].topic = Chat /\ (Served(s)' <=> Served(s))
         /\ sub'[s].pos = Head(sub[s].ch) /\ Head(sub[s].ch) \in 1 .. Len(log)
         /\ sub'[s].after = sub[s].after
         /\ \A n \in sub[s].pos + 1 .. sub'[s].pos - 1 : log[n] # Chat
         /\ sub[s].pos < sub'[s].pos
<1>1. BusInv /\ Streams /\ Len(log) \in Nat /\ log \in Seq(Traces)
  BY DEF ChatInv, BusInv, Plain
<1>2. log' = log /\ ~Free(s)
  BY DEF Receive
<1>3. Grows
  BY <1>1, <1>2 DEF Grows
<1>4. /\ BusInv' /\ \A r \in Subs \ {s} : sub'[r] = sub[r]
      /\ sub'[s].pos = Head(sub[s].ch) /\ sub'[s].state = sub[s].state
      /\ sub'[s].topic = sub[s].topic /\ sub'[s].after = sub[s].after
  BY <1>1, ReceiveStep
<1>5. /\ Streams' /\ sub'[s].pos \in 1 .. Limit(s) /\ sub'[s].pos > sub[s].pos
      /\ Limit(s) \in 0 .. Len(log)
      /\ \A n \in sub[s].pos + 1 .. sub'[s].pos - 1 : log[n] \notin Of(Chat)
  BY <1>1, ReceiveStreams
<1>6. Of(Chat) = {Chat}
  BY ChatAssumption, BusAssumption DEF Of
<1> QED
  BY <1>1, <1>2, <1>3, <1>4, <1>5, <1>6, SameWhenUnchanged DEF BusKept, Others, Free, Served

LEMMA UnsubscribeKept ==
  ASSUME ChatInv, NEW s \in Subs, Unsubscribe(s)
  PROVE  BusKept /\ Others({s}) /\ log' = log /\ Free(s)'
<1>1. BusInv /\ Streams /\ Len(log) \in Nat
  BY DEF ChatInv, BusInv, Plain
<1>2. log' = log
  BY DEF Unsubscribe
<1>3. BusInv' /\ Streams' /\ sub'[s] = NoSub /\ \A r \in Subs \ {s} : sub'[r] = sub[r]
  BY <1>1, UnsubscribeStep, UnsubscribeStreams
<1> QED
  BY <1>1, <1>2, <1>3, SameWhenUnchanged DEF BusKept, Others, Grows, Free, NoSub

LEMMA CloseKept ==
  ASSUME ChatInv, Close
  PROVE  BusKept /\ Others({}) /\ log' = log
<1>1. BusInv /\ Streams /\ Len(log) \in Nat
  BY DEF ChatInv, BusInv, Plain
<1>2. log' = log
  BY DEF Close
<1>3. BusInv' /\ Streams'
  BY <1>1, CloseStep, CloseStreams
<1>4. ASSUME NEW s \in Subs PROVE Same(s)
  <2>1. CASE s \notin Registered
    BY <1>1, <2>1, CloseStep, SameWhenUnchanged
  <2>2. CASE s \in Registered
    <3>1. /\ sub'[s].state = "closed" /\ sub'[s].topic = sub[s].topic
          /\ sub'[s].pos = sub[s].pos /\ sub'[s].after = sub[s].after
      BY <1>1, <2>2, CloseStep
    <3> QED
      BY <2>2, <3>1 DEF Same, Free, Served, Registered
  <2> QED
    BY <2>1, <2>2
<1> QED
  BY <1>1, <1>2, <1>3, <1>4 DEF BusKept, Others, Grows

LEMMA ExpireKept ==
  ASSUME ChatInv, Expire
  PROVE  BusKept /\ Others({}) /\ log' = log
<1>1. BusInv /\ Streams /\ Len(log) \in Nat /\ log' = log /\ sub' = sub
  BY DEF ChatInv, BusInv, Plain, Expire
<1>2. [Next]_vars
  BY DEF Next
<1>3. BusInv' /\ Streams'
  BY <1>1, <1>2, BusNext, StreamsNext
<1> QED
  BY <1>1, <1>3, SameWhenUnchanged DEF BusKept, Others, Grows

-----------------------------------------------------------------------------
(***************************************************************************)
(* What a step of the turn, the history or a browser leaves alone.         *)
(***************************************************************************)
LEMMA HandlesApart ==
  /\ Collector \in Subs /\ Collector \notin Browsers
  /\ \A b \in Browsers : b \in Subs /\ b # Collector
  /\ Sender \in Browsers
  BY ChatAssumption DEF Browsers

LEMMA BrowserKept ==
  ASSUME ChatInv, NEW b \in Browsers, Same(b), view'[b] = view[b]
  PROVE  BrowserOk(b)'
<1>1. BrowserOk(b)
  BY DEF ChatInv
<1> QED
  BY <1>1 DEF BrowserOk, Same, Waiting, Watching

StillTurn == turn'.pc = turn.pc /\ turn'.seq = turn.seq /\ turn'.incomplete = turn.incomplete

LEMMA CollectorKept ==
  ASSUME ChatInv, Same(Collector), Grows, StillTurn
  PROVE  CollectorOk'
<1>1. CollectorOk
  BY DEF ChatInv
<1>2. CASE turn.pc = "run"
  <2>1. ~Free(Collector) /\ sub'[Collector].pos = sub[Collector].pos
    BY <1>1, <1>2 DEF CollectorOk, Same
  <2>2. sub[Collector].pos \in 0 .. Len(log) /\ Len(log) \in Nat
    BY <2>1, HandlesApart DEF ChatInv, Streams, StreamFits, BusInv, Plain
  <2>3. \A n \in 1 .. sub[Collector].pos : log'[n] = log[n]
    BY <2>2 DEF Grows
  <2>4. /\ ~Free(Collector)' /\ sub'[Collector].topic = Chat
        /\ Served(Collector)' <=> Served(Collector)
    BY <1>1, <1>2, <2>1 DEF CollectorOk, Same
  <2> QED
    BY <1>1, <1>2, <2>1, <2>3, <2>4 DEF CollectorOk, StillTurn
<1>3. CASE turn.pc # "run"
  BY <1>1, <1>3 DEF CollectorOk, Same, StillTurn
<1> QED
  BY <1>2, <1>3

\* The collector has stopped reading, and is not gone.
LEMMA CollectorRests ==
  ASSUME ChatInv, Same(Collector), turn.pc \in {"run", "announce"},
         turn'.pc \in {"announce", "leave"}
  PROVE  CollectorOk'
<1>1. CollectorOk
  BY DEF ChatInv
<1> QED
  BY <1>1 DEF CollectorOk, Same

\* A step that only browser b takes part in.
ViewStep(b) ==
  /\ BusKept /\ Others({b}) /\ log' = log
  /\ view' \in [Browsers -> Views] /\ \A c \in Browsers \ {b} : view'[c] = view[c]
  /\ BrowserOk(b)'

Pipes == {"none", "queued", "running", "replied", "ended", "over"}

LEMMA BrowserCloses ==
  ASSUME ChatInv, NEW b \in Browsers, ViewStep(b), turn.pc # "none", StillTurn, turn' \in Turns,
         kind' = kind, pipe' \in Pipes, responses' = responses, row' \in Rows, past' = past
  PROVE  ChatInv'
<1>1. \A c \in Browsers : BrowserOk(c)'
  BY BrowserKept, HandlesApart DEF ViewStep, Others
<1>2. CollectorOk'
  BY CollectorKept, HandlesApart DEF ViewStep, Others, BusKept
<1>3. ChatType'
  BY DEF ChatType, ChatInv, ViewStep, Pipes
<1>4. Dawn'
  BY DEF Dawn, StillTurn
<1> QED
  BY <1>1, <1>2, <1>3, <1>4 DEF ChatInv, ViewStep, BusKept

\* A step that no browser takes part in.
LEMMA OthersClose ==
  ASSUME ChatInv, BusKept, NEW S, S \subseteq {Collector}, Others(S), view' = view,
         CollectorOk', ChatType', Dawn'
  PROVE  ChatInv'
<1>1. \A c \in Browsers : BrowserOk(c)'
  BY BrowserKept, HandlesApart DEF Others
<1> QED
  BY <1>1 DEF ChatInv, BusKept

LEMMA StepFacts ==
  ASSUME ChatType, NEW b \in Browsers, NEW v \in Views, Step(b, v)
  PROVE  /\ view' \in [Browsers -> Views] /\ view'[b] = v
         /\ \A c \in Browsers \ {b} : view'[c] = view[c]
  BY DEF Step, ChatType

View(pc, snap, cursor, pending, shown) ==
  [pc |-> pc, snap |-> snap, cursor |-> cursor, pending |-> pending, shown |-> shown]

Pcs == {"off", "sending", "subscribed", "loaded", "top", "select", "ended"}
Shows == {"nothing", "reply", "end", "recover", "left", "gone"}

LEMMA ViewFacts ==
  ASSUME NEW pc \in Pcs, NEW snap \in Rows, NEW cursor \in Nat, NEW pending \in BOOLEAN,
         NEW shown \in Shows
  PROVE  /\ View(pc, snap, cursor, pending, shown) \in Views
         /\ View(pc, snap, cursor, pending, shown).pc = pc
         /\ View(pc, snap, cursor, pending, shown).snap = snap
         /\ View(pc, snap, cursor, pending, shown).cursor = cursor
         /\ View(pc, snap, cursor, pending, shown).pending = pending
         /\ View(pc, snap, cursor, pending, shown).shown = shown
  BY DEF View, Views, Pcs, Shows

LEMMA NoRowFacts == NoRow \in Rows /\ NoRow.state = "none" /\ NoRow.seq = 0
<1>1. ASSUME NEW r \in BOOLEAN
      PROVE  /\ [state |-> "none", seq |-> 0, reply |-> r] \in Rows
             /\ [state |-> "none", seq |-> 0, reply |-> r].state = "none"
             /\ [state |-> "none", seq |-> 0, reply |-> r].seq = 0
  BY DEF Rows
<1> QED
  BY Zenon, <1>1 DEF NoRow

\* A request that begins, goes on or ends, with the fields of NoView else.
NewView(pc, cursor, shown) == View(pc, NoRow, cursor, FALSE, shown)

LEMMA NewViewFacts ==
  ASSUME NEW pc \in Pcs, NEW cursor \in Nat, NEW shown \in Shows
  PROVE  /\ NewView(pc, cursor, shown) \in Views
         /\ NewView(pc, cursor, shown).pc = pc
         /\ NewView(pc, cursor, shown).cursor = cursor
         /\ NewView(pc, cursor, shown).shown = shown
         /\ NewView(pc, cursor, shown).snap = NoRow
<1>1. FALSE \in BOOLEAN /\ NoRow \in Rows
  BY NoRowFacts
<1>2. ASSUME NEW r \in BOOLEAN, NEW w \in Rows
      PROVE  /\ View(pc, w, cursor, r, shown) \in Views
             /\ View(pc, w, cursor, r, shown).pc = pc
             /\ View(pc, w, cursor, r, shown).cursor = cursor
             /\ View(pc, w, cursor, r, shown).shown = shown
             /\ View(pc, w, cursor, r, shown).snap = w
  BY ViewFacts
<1> QED
  BY Zenon, <1>1, <1>2 DEF NewView

LEMMA BlankView ==
  ASSUME NEW pc \in Pcs
  PROVE  /\ NewView(pc, 0, "nothing") \in Views /\ NewView(pc, 0, "nothing").pc = pc
         /\ NewView(pc, 0, "nothing").shown = "nothing"
<1>1. PICK cursor \in Nat, shown \in Shows : cursor = 0 /\ shown = "nothing"
  BY DEF Shows
<1>2. /\ NewView(pc, cursor, shown) \in Views /\ NewView(pc, cursor, shown).pc = pc
      /\ NewView(pc, cursor, shown).shown = shown
  BY NewViewFacts
<1> QED
  BY Zenon, <1>1, <1>2

LEMMA NewViewForms ==
  ASSUME NEW pc \in Pcs, NEW cursor \in Nat, NEW shown \in Shows
  PROVE  /\ [NoView EXCEPT !.pc = pc, !.shown = shown] = NewView(pc, 0, shown)
         /\ [NoView EXCEPT !.pc = pc] = NewView(pc, 0, "nothing")
         /\ [NoView EXCEPT !.pc = pc, !.cursor = cursor] = NewView(pc, cursor, "nothing")
<1>1. FALSE \in BOOLEAN /\ NoRow \in Rows
  BY NoRowFacts
<1>2. NoView = View("off", NoRow, 0, FALSE, "nothing")
  BY Zenon DEF NoView, View
<1>3. ASSUME NEW r \in BOOLEAN, NEW w \in Rows
      PROVE  /\ [View("off", w, 0, r, "nothing") EXCEPT !.pc = pc, !.shown = shown]
                  = View(pc, w, 0, r, shown)
             /\ [View("off", w, 0, r, "nothing") EXCEPT !.pc = pc] = View(pc, w, 0, r, "nothing")
             /\ [View("off", w, 0, r, "nothing") EXCEPT !.pc = pc, !.cursor = cursor]
                  = View(pc, w, cursor, r, "nothing")
  <2> DEFINE v == View("off", w, 0, r, "nothing")
  <2>1. [v EXCEPT !.pc = pc] = View(pc, w, 0, r, "nothing")
    BY DEF View
  <2>2. [View(pc, w, 0, r, "nothing") EXCEPT !.shown = shown] = View(pc, w, 0, r, shown)
    BY DEF View
  <2>3. [View(pc, w, 0, r, "nothing") EXCEPT !.cursor = cursor]
          = View(pc, w, cursor, r, "nothing")
    BY DEF View
  <2>4. /\ [v EXCEPT !.pc = pc, !.shown = shown] = [[v EXCEPT !.pc = pc] EXCEPT !.shown = shown]
        /\ [v EXCEPT !.pc = pc, !.cursor = cursor]
             = [[v EXCEPT !.pc = pc] EXCEPT !.cursor = cursor]
    BY Zenon
  <2> QED
    BY Zenon, <2>1, <2>2, <2>3, <2>4
<1> QED
  BY Zenon, <1>1, <1>2, <1>3 DEF NewView

LEMMA QuitStep ==
  ASSUME ChatInv, NEW b \in Browsers, NEW what \in Shows, Quit(b, what)
  PROVE  ViewStep(b) /\ view'[b].pc = "ended" /\ view'[b].shown = what /\ view'[b].snap = NoRow
<1>1. BusKept /\ Others({b}) /\ log' = log /\ Free(b)'
  BY UnsubscribeKept, HandlesApart DEF Quit
<1> DEFINE v == NewView("ended", 0, what)
<1>2. "ended" \in Pcs /\ 0 \in Nat
  BY DEF Pcs
<1>3. v \in Views /\ v.pc = "ended" /\ v.shown = what /\ v.snap = NoRow
  BY <1>2, NewViewFacts
<1>4. Step(b, v)
  BY Zenon, <1>2, NewViewForms DEF Quit
<1> HIDE DEF v
<1>5. /\ view' \in [Browsers -> Views] /\ view'[b] = v
      /\ \A c \in Browsers \ {b} : view'[c] = view[c]
  BY <1>3, <1>4, StepFacts DEF ChatInv
<1>6. BrowserOk(b)'
  BY <1>1, <1>3, <1>5 DEF BrowserOk, Waiting, Watching
<1> QED
  BY <1>1, <1>3, <1>5, <1>6 DEF ViewStep

LEMMA HeldFacts ==
  ASSUME ChatInv, NEW s \in Subs, ~Free(s)
  PROVE  /\ Len(log) \in Nat /\ sub[s].pos \in 0 .. Len(log) /\ sub[s].after \in 0 .. Len(log)
  BY DEF ChatInv, Streams, StreamFits, BusInv, Plain

LEMMA ViewTyped ==
  ASSUME ChatInv, NEW b \in Browsers
  PROVE  /\ view[b] \in Views /\ view[b].pc \in Pcs /\ view[b].snap \in Rows
         /\ view[b].cursor \in Nat /\ view[b].pending \in BOOLEAN /\ view[b].shown \in Shows
         /\ BrowserOk(b) /\ b \in Subs
  BY HandlesApart DEF ChatInv, ChatType, Views, Pcs, Shows

\* A row that is saved is a row.
LEMMA UpsertedFacts ==
  ASSUME row \in Rows, NEW streaming \in BOOLEAN, NEW seq \in Nat, NEW reply \in BOOLEAN
  PROVE  Upserted(streaming, seq, reply) \in Rows
  BY DEF Upserted, Rows

\* A final row without the reply: its turn brought none, or it was not saved.
LacksReply(r) == r.state = "final" /\ ~r.reply

LEMMA ShowStep ==
  ASSUME ChatInv, NEW b \in Browsers, NEW snap \in Rows, view[b].pc \in Waiting, Show(b, snap)
  PROVE  /\ ViewStep(b) /\ view'[b].pc \in {"top", "ended"}
         /\ view'[b].shown = "end" => LacksReply(snap)
<1>1. CASE snap.state = "final"
  <2>1. Told(snap.reply) \in Shows /\ (Told(snap.reply) = "end" => LacksReply(snap))
    BY <1>1 DEF Told, Shows, LacksReply
  <2> QED
    BY <1>1, <2>1, QuitStep DEF Show
<1>2. CASE snap.state # "final" /\ sub[b].after > snap.seq
  <2>1. "recover" \in Shows
    BY DEF Shows
  <2> QED
    BY <1>2, <2>1, QuitStep DEF Show
<1>3. CASE snap.state # "final" /\ ~(sub[b].after > snap.seq)
  <2> DEFINE v == NewView("top", snap.seq, "nothing")
  <2>1. "top" \in Pcs /\ "nothing" \in Shows /\ snap.seq \in Nat
    BY DEF Pcs, Shows, Rows
  <2>2. v \in Views /\ v.pc = "top" /\ v.cursor = snap.seq /\ v.shown = "nothing"
    BY <2>1, NewViewFacts
  <2>3. [NoView EXCEPT !.pc = "top", !.cursor = snap.seq] = v
    BY Zenon, <2>1, NewViewForms
  <2>4. Step(b, v) /\ UNCHANGED vars
    BY Zenon, <1>3, <2>3 DEF Show
  <2> HIDE DEF v
  <2>5. /\ view' \in [Browsers -> Views] /\ view'[b] = v
        /\ \A c \in Browsers \ {b} : view'[c] = view[c]
    BY <2>2, <2>4, StepFacts DEF ChatInv
  <2>6. BusKept /\ Others({b}) /\ log' = log /\ sub' = sub
    BY <2>4, IdleKept DEF Others, vars
  <2>7. ~Free(b) /\ sub[b].topic = Chat /\ (Served(b) => sub[b].pos <= sub[b].after)
    BY ViewTyped DEF BrowserOk
  <2>8. Served(b) => sub[b].pos <= snap.seq
    BY <1>3, <2>1, <2>7, HeldFacts, ViewTyped
  <2>9. BrowserOk(b)'
    BY <2>2, <2>5, <2>6, <2>7, <2>8 DEF BrowserOk, Free, Served, Waiting, Watching
  <2> QED
    BY <2>2, <2>5, <2>6, <2>9 DEF ViewStep
<1> QED
  BY <1>1, <1>2, <1>3

\* A request starts: it subscribes with a replay from the beginning.
Joining(b, pc) == Open(b, Chat, FALSE, TRUE, 0) /\ Step(b, [NoView EXCEPT !.pc = pc])

LEMMA Joins ==
  ASSUME ChatInv, NEW b \in Browsers, view[b].pc \in {"off", "ended"},
         NEW pc \in {"sending", "subscribed"}, Joining(b, pc)
  PROVE  ViewStep(b) /\ view'[b].pc = pc /\ view'[b].shown = "nothing"
<1> DEFINE v == NewView(pc, 0, "nothing")
<1>1. pc \in Pcs /\ 0 \in Nat /\ "nothing" \in Shows /\ Len(log) \in Nat
  BY DEF Pcs, Shows, ChatInv, BusInv, Plain
<1>2. v \in Views /\ v.pc = pc /\ v.shown = "nothing"
  BY Zenon, <1>1, BlankView
<1>3. Step(b, v)
  BY Zenon, <1>1, NewViewForms DEF Joining
<1> HIDE DEF v
<1>4. /\ view' \in [Browsers -> Views] /\ view'[b] = v
      /\ \A c \in Browsers \ {b} : view'[c] = view[c]
  BY <1>2, <1>3, StepFacts DEF ChatInv
<1>5. b \in Subs /\ b \notin Registered
  BY ViewTyped DEF BrowserOk, Waiting, Watching, Free, Registered
<1>6. PICK fresh \in BOOLEAN, replay \in BOOLEAN, since \in 0 .. Len(log) :
        /\ fresh => Chat \notin Range(log)
        /\ replay /\ since = 0 /\ Open(b, Chat, fresh, replay, since)
  <2>1. 0 \in 0 .. Len(log)
    BY <1>1
  <2> QED
    BY Zenon, <2>1 DEF Joining
<1>7. /\ BusKept /\ Others({b}) /\ log' = log
      /\ ~Free(b)' /\ sub'[b].topic = Chat
      /\ sub'[b].pos \in 0 .. Len(log) /\ sub'[b].after \in 0 .. Len(log)
      /\ Served(b)' => sub'[b].pos = 0 \/ sub'[b].pos <= sub'[b].after
  BY <1>5, <1>6, OpenKept
<1>8. BrowserOk(b)'
  BY <1>1, <1>2, <1>4, <1>7 DEF BrowserOk, Waiting, Watching
<1> QED
  BY <1>2, <1>4, <1>7, <1>8 DEF ViewStep

\* A request goes on without the bus.
LEMMA GoesOn ==
  ASSUME ChatInv, NEW b \in Browsers, NEW v \in Views, Step(b, v), UNCHANGED vars,
         v.shown = "nothing", v.pc \in Waiting \cup Watching,
         /\ v.pc \in Waiting => view[b].pc \in Waiting
         /\ v.pc \in Watching => view[b].pc \in Watching /\ v.cursor = view[b].cursor
  PROVE  ViewStep(b) /\ view'[b] = v
<1>1. /\ view' \in [Browsers -> Views] /\ view'[b] = v
      /\ \A c \in Browsers \ {b} : view'[c] = view[c]
  BY StepFacts DEF ChatInv
<1>2. BusKept /\ Others({b}) /\ log' = log /\ sub' = sub
  BY IdleKept DEF Others, vars
<1>3. BrowserOk(b)'
  BY <1>1, <1>2, ViewTyped DEF BrowserOk, Free, Served, Waiting, Watching
<1> QED
  BY <1>1, <1>2, <1>3 DEF ViewStep

-----------------------------------------------------------------------------
(***************************************************************************)
(* The turn's record, and the steps that keep its position.                *)
(***************************************************************************)
Alike(u, t) ==
  u \in Turns /\ u.pc = t.pc /\ u.seq = t.seq /\ u.incomplete = t.incomplete

LEMMA FlagsAlike ==
  ASSUME NEW t \in Turns, NEW x \in BOOLEAN
  PROVE  /\ Alike([t EXCEPT !.failed = x], t) /\ Alike([t EXCEPT !.ended = x], t)
         /\ Alike([t EXCEPT !.told = x], t) /\ Alike([t EXCEPT !.reply = x], t)
<1>1. Alike([t EXCEPT !.failed = x], t)
  BY DEF Alike, Turns
<1>2. Alike([t EXCEPT !.ended = x], t)
  BY DEF Alike, Turns
<1>3. Alike([t EXCEPT !.told = x], t)
  BY DEF Alike, Turns
<1>4. Alike([t EXCEPT !.reply = x], t)
  BY DEF Alike, Turns
<1> QED
  BY Zenon, <1>1, <1>2, <1>3, <1>4

LEMMA TurnTyped ==
  ASSUME ChatInv
  PROVE  /\ turn \in Turns /\ turn.seq \in Nat /\ turn.reply \in BOOLEAN
         /\ turn.incomplete \in BOOLEAN /\ row \in Rows /\ row.seq \in Nat
         /\ row.reply \in BOOLEAN /\ row.state \in {"none", "streaming", "final"}
         /\ pipe \in Pipes /\ responses \in [open : BOOLEAN, replies : Nat]
         /\ responses.replies \in Nat /\ responses.open \in BOOLEAN
         /\ ChatType /\ CollectorOk /\ Dawn /\ Len(log) \in Nat
  BY DEF ChatInv, ChatType, Turns, Rows, Pipes, BusInv, Plain

LEMMA SameTurn ==
  ASSUME ChatInv, turn' = turn
  PROVE  StillTurn /\ turn' \in Turns
  BY TurnTyped DEF StillTurn

\* A request is only there when a turn has been prepared.
LEMMA NotAtDawn ==
  ASSUME ChatInv, NEW b \in Browsers, view[b].pc # "off"
  PROVE  turn.pc # "none"
  BY TurnTyped DEF Dawn

-----------------------------------------------------------------------------
(***************************************************************************)
(* The browsers' steps.                                                    *)
(***************************************************************************)
LEMMA BrowserCloses1 ==
  ASSUME ChatInv, NEW b \in Browsers, ViewStep(b), turn.pc # "none",
         UNCHANGED <<kind, pipe, responses, turn, past>>, row' \in Rows
  PROVE  ChatInv'
<1>1. StillTurn /\ turn' \in Turns /\ pipe' \in Pipes
  BY SameTurn, TurnTyped
<1> QED
  BY <1>1, BrowserCloses

LEMMA FollowStep ==
  ASSUME ChatInv, Follow
  PROVE  ChatInv'
<1>1. Sender \in Browsers /\ view[Sender].pc \in {"off", "ended"}
  BY HandlesApart DEF Follow
<1>2. Joining(Sender, "sending")
  BY Zenon DEF Follow, Joining
<1>3. ViewStep(Sender)
  BY <1>1, <1>2, Joins
<1>4. turn.pc # "none" /\ UNCHANGED <<kind, pipe, responses, turn, past>> /\ row' = row
  BY Zenon DEF Follow
<1> QED
  BY <1>1, <1>3, <1>4, TurnTyped, BrowserCloses1

LEMMA ResumeStep ==
  ASSUME ChatInv, NEW b \in Browsers, Resume(b)
  PROVE  ChatInv'
<1>1. view[b].pc \in {"off", "ended"}
  <2>1. view[b].pc = "off" \/ view[b].shown \in {"recover", "left"}
    BY Zenon DEF Resume
  <2> QED
    BY <2>1, ViewTyped DEF BrowserOk
<1>2. Joining(b, "subscribed")
  BY Zenon DEF Resume, Joining
<1>3. ViewStep(b)
  BY <1>1, <1>2, Joins
<1>4. turn.pc # "none" /\ UNCHANGED <<kind, pipe, responses, turn, past>> /\ row' = row
  BY Zenon DEF Resume
<1> QED
  BY <1>3, <1>4, TurnTyped, BrowserCloses1

LEMMA InjectStep ==
  ASSUME ChatInv, Inject
  PROVE  ChatInv'
<1>1. /\ Sender \in Browsers /\ view[Sender].pc = "sending"
      /\ UNCHANGED <<kind, responses, row, past>>
  BY HandlesApart DEF Inject
<1>2. turn.pc # "none"
  BY <1>1, NotAtDawn
<1>3. CASE pipe' = "queued" /\ Show(Sender, NoRow) /\ UNCHANGED turn
  <2>1. ViewStep(Sender)
    BY <1>1, <1>3, NoRowFacts, ShowStep DEF Waiting
  <2> QED
    BY <1>1, <1>2, <1>3, <2>1, SameTurn, TurnTyped, BrowserCloses DEF Pipes
<1>4. CASE pipe' = "over" /\ Quit(Sender, "gone") /\ turn' = [turn EXCEPT !.failed = TRUE]
  <2>1. ViewStep(Sender)
    BY <1>1, <1>4, QuitStep DEF Shows
  <2>2. turn \in Turns /\ TRUE \in BOOLEAN
    BY TurnTyped
  <2>3. Alike(turn', turn)
    BY Zenon, <1>4, <2>2, FlagsAlike
  <2>4. StillTurn /\ turn' \in Turns
    BY <2>3 DEF Alike, StillTurn
  <2> QED
    BY <1>1, <1>2, <1>4, <2>1, <2>4, TurnTyped, BrowserCloses DEF Pipes
<1> QED
  BY Zenon, <1>3, <1>4 DEF Inject

LEMMA LoadStep ==
  ASSUME ChatInv, NEW b \in Browsers, Load(b)
  PROVE  ChatInv'
<1> DEFINE v == [view[b] EXCEPT !.pc = "loaded", !.snap = row]
<1>1. /\ view[b].pc = "subscribed" /\ Step(b, v) /\ UNCHANGED vars
      /\ UNCHANGED <<kind, pipe, responses, turn, past>> /\ row' = row
  BY DEF Load
<1>2. v \in Views /\ v.pc = "loaded" /\ v.shown = view[b].shown
  BY ViewTyped, TurnTyped DEF Views
<1> HIDE DEF v
<1>3. view[b].shown = "nothing"
  BY <1>1, ViewTyped DEF BrowserOk
<1>4. ViewStep(b)
  BY <1>1, <1>2, <1>3, GoesOn DEF Waiting, Watching
<1> QED
  BY <1>1, <1>4, NotAtDawn, TurnTyped, BrowserCloses1

LEMMA StartStep ==
  ASSUME ChatInv, NEW b \in Browsers, Start(b)
  PROVE  ChatInv'
<1> DEFINE snap == view[b].snap
           interrupted == Upserted(FALSE, snap.seq, FALSE)
<1>1. view[b].pc = "loaded" /\ UNCHANGED <<kind, pipe, responses, turn, past>>
  BY DEF Start
<1>2. snap \in Rows /\ snap.seq \in Nat /\ row \in Rows /\ turn.pc # "none"
  BY <1>1, ViewTyped, TurnTyped, NotAtDawn DEF Rows
<1>3. interrupted \in Rows
  <2>1. FALSE \in BOOLEAN
    OBVIOUS
  <2> QED
    BY Zenon, <1>2, <2>1, UpsertedFacts
<1>4. \/ Show(b, snap) /\ row' = row
      \/ Quit(b, "gone") /\ row' = row
      \/ row' = interrupted /\ Show(b, interrupted)
  BY Zenon DEF Start
<1> HIDE DEF snap, interrupted
<1>5. ViewStep(b) /\ row' \in Rows
  BY <1>1, <1>2, <1>3, <1>4, ShowStep, QuitStep DEF Waiting, Shows
<1> QED
  BY <1>1, <1>2, <1>5, BrowserCloses1

LEMMA TopStep ==
  ASSUME ChatInv, NEW b \in Browsers, Top(b)
  PROVE  ChatInv'
<1> DEFINE v == [view[b] EXCEPT !.pc = "select"]
           what == Told(row.state = "final" /\ row.reply)
<1>1. /\ view[b].pc = "top" /\ UNCHANGED <<kind, pipe, responses, turn, past>> /\ row' = row
  BY DEF Top
<1>2. /\ v \in Views /\ v.pc = "select" /\ v.shown = view[b].shown /\ v.cursor = view[b].cursor
  BY ViewTyped DEF Views
<1>3. \/ Quit(b, "recover") \/ Quit(b, what)
      \/ Step(b, v) /\ UNCHANGED vars
  BY Zenon DEF Top
<1>4. what \in Shows /\ view[b].shown = "nothing"
  BY <1>1, ViewTyped DEF Told, Shows, BrowserOk
<1> HIDE DEF v, what
<1>5. ViewStep(b)
  BY <1>1, <1>2, <1>3, <1>4, QuitStep, GoesOn DEF Waiting, Watching, Shows
<1> QED
  BY <1>1, <1>5, NotAtDawn, TurnTyped, BrowserCloses1

LEMMA WatchStep ==
  ASSUME ChatInv, NEW b \in Browsers, Watch(b)
  PROVE  ChatInv'
<1> DEFINE n == Head(sub[b].ch)
           k == IF n > view[b].cursor THEN n ELSE view[b].cursor
           more == view[b].pending \/ (n > view[b].cursor /\ kind[n] \in Terminal)
           v == [[view[b] EXCEPT !.pc = "top", !.cursor = IF n > @ THEN n ELSE @]
                   EXCEPT !.pending = @ \/ (n > view[b].cursor /\ kind[n] \in Terminal)]
<1>1. /\ view[b].pc = "select" /\ UNCHANGED <<kind, pipe, responses, turn, past>> /\ row' = row
  BY DEF Watch
<1>2. ~Free(b) /\ sub[b].topic = Chat /\ view[b].shown = "nothing"
      /\ (Served(b) => sub[b].pos <= view[b].cursor) /\ view[b].cursor \in Nat
  BY <1>1, ViewTyped DEF BrowserOk, Watching
<1>3. Quit(b, Told(turn.reply)) \/ (Receive(b) /\ Step(b, v))
  BY Zenon DEF Watch
<1>4. CASE Quit(b, Told(turn.reply))
  <2>1. Told(turn.reply) \in Shows
    BY DEF Told, Shows
  <2> QED
    BY <1>1, <1>4, <2>1, QuitStep, NotAtDawn, TurnTyped, BrowserCloses1
<1>5. CASE Receive(b) /\ Step(b, v)
  <2>1. /\ BusKept /\ Others({b}) /\ log' = log
        /\ ~Free(b)' /\ sub'[b].topic = Chat /\ (Served(b)' <=> Served(b))
        /\ sub'[b].pos = n /\ n \in 1 .. Len(log)
    BY <1>2, <1>5, ReceiveKept, HandlesApart
  <2>2. n \in Nat
    BY <2>1, TurnTyped
  <2>3. k \in Nat /\ n <= k /\ more \in BOOLEAN
    BY <1>2, <2>2, ViewTyped
  <2>4. v = [view[b] EXCEPT !.pc = "top", !.cursor = k, !.pending = more]
    BY DEF k, more
  <2> HIDE DEF n, k, more
  <2>5. v \in Views /\ v.pc = "top" /\ v.cursor = k /\ v.shown = view[b].shown
    BY <2>3, <2>4, ViewTyped DEF Views
  <2> HIDE DEF v
  <2>6. /\ view' \in [Browsers -> Views] /\ view'[b] = v
        /\ \A c \in Browsers \ {b} : view'[c] = view[c]
    BY <1>5, <2>5, StepFacts DEF ChatInv
  <2>7. BrowserOk(b)'
    BY <1>2, <2>1, <2>3, <2>5, <2>6 DEF BrowserOk, Waiting, Watching
  <2>8. ViewStep(b)
    BY <2>1, <2>6, <2>7 DEF ViewStep
  <2> QED
    BY <1>1, <2>8, NotAtDawn, TurnTyped, BrowserCloses1
<1> QED
  BY <1>3, <1>4, <1>5

LEMMA BeatStep ==
  ASSUME ChatInv, NEW b \in Browsers, Beat(b)
  PROVE  ChatInv'
<1> DEFINE v == [view[b] EXCEPT !.pc = "top"]
<1>1. /\ view[b].pc = "select" /\ UNCHANGED <<kind, pipe, responses, turn, past>> /\ row' = row
  BY DEF Beat
<1>2. /\ v \in Views /\ v.pc = "top" /\ v.shown = view[b].shown /\ v.cursor = view[b].cursor
  BY ViewTyped DEF Views
<1>3. Quit(b, "recover") \/ (Step(b, v) /\ UNCHANGED vars)
  BY Zenon DEF Beat
<1>4. view[b].shown = "nothing"
  BY <1>1, ViewTyped DEF BrowserOk
<1> HIDE DEF v
<1>5. ViewStep(b)
  BY <1>1, <1>2, <1>3, <1>4, QuitStep, GoesOn DEF Waiting, Watching, Shows
<1> QED
  BY <1>1, <1>5, NotAtDawn, TurnTyped, BrowserCloses1

LEMMA DisconnectStep ==
  ASSUME ChatInv, NEW b \in Browsers, Disconnect(b)
  PROVE  ChatInv'
<1>1. /\ view[b].pc = "select" /\ UNCHANGED <<kind, pipe, responses, turn, past>> /\ row' = row
      /\ Quit(b, "left") /\ "left" \in Shows
  BY DEF Disconnect, Shows
<1> QED
  BY <1>1, QuitStep, NotAtDawn, TurnTyped, BrowserCloses1

-----------------------------------------------------------------------------
(***************************************************************************)
(* The steps of the engine's worker, of the bus and of the collector.      *)
(***************************************************************************)
Responses == [open : BOOLEAN, replies : Nat]
Pasts == SUBSET {"reply", "db", "stop"}

\* Only the bus, the pipeline, the responses, the row or the turn's flags change.
LEMMA TurnCloses ==
  ASSUME ChatInv, BusKept, Others({}), view' = view, StillTurn, turn' \in Turns,
         kind' \in Seq(Kinds), Len(kind') = Len(log'), pipe' \in Pipes,
         responses' \in Responses, row' \in Rows, past' \in Pasts,
         turn.pc = "none" => pipe' = "none" /\ Chat \notin Range(log')
  PROVE  ChatInv'
<1>1. CollectorOk'
  BY CollectorKept, HandlesApart DEF Others, BusKept
<1>2. ChatType'
  BY TurnTyped DEF ChatType, Pipes, Responses, Pasts
<1>3. Dawn'
  BY TurnTyped DEF Dawn, StillTurn
<1> QED
  BY <1>1, <1>2, <1>3, OthersClose

LEMMA EmitKept ==
  ASSUME ChatInv, NEW t \in Traces, NEW k \in Kinds, Emit(t, k)
  PROVE  /\ BusKept /\ Others({}) /\ kind' \in Seq(Kinds) /\ Len(kind') = Len(log')
         /\ t # Chat /\ Chat \notin Range(log) => Chat \notin Range(log')
<1>1. kind \in Seq(Kinds) /\ Len(kind) = Len(log) /\ log \in Seq(Traces)
  BY DEF ChatInv, ChatType, BusInv, Plain
<1>2. CASE closed /\ UNCHANGED <<vars, kind>>
  <2>1. UNCHANGED vars /\ kind' = kind
    BY <1>2
  <2> QED
    BY <1>1, <2>1, IdleKept
<1>3. CASE ~(closed /\ UNCHANGED <<vars, kind>>)
  <2>1. PICK begins \in BOOLEAN : Publish(t, begins) /\ kind' = Append(kind, k)
    BY Zenon, <1>3 DEF Emit
  <2>2. BusKept /\ Others({}) /\ log' = Append(log, t)
    BY <2>1, PublishKept
  <2>3. Range(log') = Range(log) \cup {t}
    BY <1>1, <2>2, AppendFacts
  <2>4. kind' \in Seq(Kinds) /\ Len(kind') = Len(log')
    BY <1>1, <2>1, <2>2
  <2> QED
    BY <2>2, <2>3, <2>4
<1> QED
  BY <1>2, <1>3

LEMMA Unbothered ==
  ASSUME ChatInv
  PROVE  /\ kind \in Seq(Kinds) /\ Len(kind) = Len(log) /\ responses \in Responses
         /\ past \in Pasts /\ row \in Rows /\ turn \in Turns /\ pipe \in Pipes
  BY DEF ChatInv, ChatType, Responses, Pasts, Pipes

LEMMA KindsAre ==
  /\ "begin" \in Kinds /\ "delta" \in Kinds /\ "noise" \in Kinds /\ "final" \in Kinds
  /\ Terminal \subseteq Kinds /\ Chat \in Traces
  BY ChatAssumption DEF Kinds

\* The worker publishes and moves on.
LEMMA WorkerEmits ==
  ASSUME ChatInv, NEW t \in Traces, NEW k \in Kinds, Emit(t, k), pipe' \in Pipes,
         UNCHANGED <<responses, turn, row, view, past>>,
         pipe # "none" \/ (t # Chat /\ pipe' = pipe)
  PROVE  ChatInv'
<1>1. /\ BusKept /\ Others({}) /\ kind' \in Seq(Kinds) /\ Len(kind') = Len(log')
      /\ t # Chat /\ Chat \notin Range(log) => Chat \notin Range(log')
  BY EmitKept
<1>2. turn.pc = "none" => pipe' = "none" /\ Chat \notin Range(log')
  BY <1>1, TurnTyped DEF Dawn
<1>3. view' = view /\ responses' = responses /\ row' = row /\ past' = past /\ turn' = turn
  OBVIOUS
<1> QED
  BY <1>1, <1>2, <1>3, Unbothered, SameTurn, TurnCloses

LEMMA WorkSteps ==
  ASSUME ChatInv, Begin \/ Delta \/ Terminate \/ Noise
  PROVE  ChatInv'
<1>1. CASE Begin
  BY <1>1, KindsAre, WorkerEmits DEF Begin, Pipes
<1>2. CASE Delta
  BY <1>2, KindsAre, WorkerEmits DEF Delta, Pipes
<1>3. CASE Terminate
  BY <1>3, KindsAre, WorkerEmits DEF Terminate, Pipes
<1>4. CASE Noise
  <2>1. PICK t \in Traces \ {Chat} : Emit(t, "noise")
    BY <1>4 DEF Noise
  <2> QED
    BY <1>4, <2>1, KindsAre, WorkerEmits, TurnTyped DEF Noise
<1> QED
  BY <1>1, <1>2, <1>3, <1>4

\* Steps that leave the bus and the browsers alone.
LEMMA QuietCloses ==
  ASSUME ChatInv, UNCHANGED <<vars, kind, view>>, StillTurn, turn' \in Turns, pipe' \in Pipes,
         responses' \in Responses, row' \in Rows, past' \in Pasts,
         turn.pc = "none" => pipe' = "none"
  PROVE  ChatInv'
<1>1. UNCHANGED vars /\ kind' = kind /\ view' = view
  OBVIOUS
<1>2. BusKept /\ Others({}) /\ log' = log
  BY <1>1, IdleKept
<1>3. turn.pc = "none" => Chat \notin Range(log')
  BY <1>2, TurnTyped DEF Dawn
<1> QED
  BY <1>1, <1>2, <1>3, Unbothered, TurnCloses

LEMMA ResponsesFacts ==
  ASSUME responses \in Responses, NEW x \in BOOLEAN, NEW n \in Nat
  PROVE  /\ [responses EXCEPT !.open = x] \in Responses
         /\ [responses EXCEPT !.replies = n] \in Responses
         /\ [open |-> x, replies |-> n] \in Responses
  BY DEF Responses

LEMMA ReplyStep ==
  ASSUME ChatInv, Reply
  PROVE  ChatInv'
<1>1. /\ UNCHANGED <<vars, kind, view>> /\ turn' = turn /\ pipe = "running" /\ pipe' = "replied"
      /\ past' = past \cup {"reply"}
  BY DEF Reply
<1>2. responses' \in Responses
  <2>1. responses' = responses \/ responses' = [responses EXCEPT !.replies = @ + 1]
    BY Zenon DEF Reply
  <2> QED
    BY <2>1, Unbothered DEF Responses
<1>3. row' \in Rows
  <2>1. row' = row \/ row' = Upserted(FALSE, 0, TRUE)
    BY Zenon DEF Reply
  <2>2. TRUE \in BOOLEAN /\ FALSE \in BOOLEAN /\ 0 \in Nat /\ row \in Rows
    BY TurnTyped
  <2>3. Upserted(FALSE, 0, TRUE) \in Rows
    BY Zenon, <2>2, UpsertedFacts
  <2> QED
    BY <2>1, <2>2, <2>3
<1>4. turn.pc # "none" /\ past' \in Pasts /\ pipe' \in Pipes
  BY <1>1, TurnTyped, Unbothered DEF Dawn, Pasts, Pipes
<1> QED
  BY <1>1, <1>2, <1>3, <1>4, SameTurn, QuietCloses

LEMMA ReportStep ==
  ASSUME ChatInv, Report
  PROVE  ChatInv'
<1>1. /\ UNCHANGED <<vars, kind, view>> /\ pipe = "ended" /\ pipe' = "over"
      /\ past' = past /\ row' = row /\ responses' = responses
  BY DEF Report
<1>2. StillTurn /\ turn' \in Turns
  <2>1. turn' = turn \/ turn' = [turn EXCEPT !.ended = TRUE]
    BY Zenon DEF Report
  <2>2. turn \in Turns /\ TRUE \in BOOLEAN
    BY TurnTyped
  <2>3. Alike([turn EXCEPT !.ended = TRUE], turn)
    BY Zenon, <2>2, FlagsAlike
  <2>4. ASSUME NEW u, Alike(u, turn), turn' = u PROVE StillTurn /\ turn' \in Turns
    BY <2>4 DEF Alike, StillTurn
  <2>5. Alike(turn, turn)
    BY <2>2 DEF Alike
  <2> QED
    BY Zenon, <2>1, <2>3, <2>4, <2>5
<1>3. turn.pc # "none" /\ pipe' \in Pipes
  BY <1>1, TurnTyped DEF Dawn, Pipes
<1> QED
  BY <1>1, <1>2, <1>3, Unbothered, QuietCloses

LEMMA StopStep ==
  ASSUME ChatInv, Stop
  PROVE  ChatInv'
<1>1. /\ UNCHANGED <<vars, kind, view>> /\ pipe' = pipe /\ turn' = turn /\ row' = row
      /\ past' = past \cup {"stop"} /\ turn.pc = "run"
  BY DEF Stop
<1>2. responses' = [responses EXCEPT !.open = FALSE] /\ FALSE \in BOOLEAN /\ 0 \in Nat
      /\ responses \in Responses
  BY Zenon, Unbothered DEF Stop
<1>3. responses' \in Responses
  BY Zenon, <1>2, ResponsesFacts
<1>4. past' \in Pasts /\ row \in Rows /\ pipe \in Pipes
  BY <1>1, Unbothered DEF Pasts
<1> QED
  BY <1>1, <1>3, <1>4, SameTurn, QuietCloses

LEMMA FlushStep ==
  ASSUME ChatInv, Flush
  PROVE  ChatInv'
<1>1. /\ UNCHANGED <<vars, kind, view>> /\ pipe' = pipe /\ turn' = turn /\ past' = past
      /\ responses' = responses
  BY DEF Flush
<1>2. row' = Upserted(TRUE, turn.seq, FALSE) /\ TRUE \in BOOLEAN /\ FALSE \in BOOLEAN
  BY Zenon DEF Flush
<1>3. row \in Rows /\ turn.seq \in Nat
  BY TurnTyped
<1>4. row' \in Rows
  BY Zenon, <1>2, <1>3, UpsertedFacts
<1>5. turn.pc = "none" => pipe' = "none"
  BY <1>1, TurnTyped DEF Dawn
<1> QED
  BY <1>1, <1>4, <1>5, Unbothered, SameTurn, QuietCloses

LEMMA TakeReplyStep ==
  ASSUME ChatInv, TakeReply
  PROVE  ChatInv'
<1>1. /\ UNCHANGED <<vars, kind, view>> /\ pipe' = pipe /\ row' = row /\ past' = past
      /\ turn.pc = "run" /\ responses.replies > 0
  BY DEF TakeReply, Selecting
<1>2. turn' = [turn EXCEPT !.reply = TRUE] /\ TRUE \in BOOLEAN /\ turn \in Turns
  BY Zenon, TurnTyped DEF TakeReply
<1>3. Alike(turn', turn)
  BY Zenon, <1>2, FlagsAlike
<1>4. responses' \in Responses
  <2>1. responses' = [responses EXCEPT !.replies = @ - 1]
    BY Zenon DEF TakeReply
  <2> QED
    BY <1>1, <2>1, Unbothered DEF Responses
<1> QED
  BY <1>1, <1>3, <1>4, Unbothered, QuietCloses DEF Alike, StillTurn

LEMMA TakeEndStep ==
  ASSUME ChatInv, TakeEnd
  PROVE  ChatInv'
<1>1. /\ UNCHANGED <<vars, kind, view>> /\ pipe' = pipe /\ row' = row /\ past' = past
      /\ turn.pc = "run" /\ responses' = responses
  BY DEF TakeEnd, Selecting
<1>2. StillTurn /\ turn' \in Turns
  <2>1. turn \in Turns /\ TRUE \in BOOLEAN /\ FALSE \in BOOLEAN
    BY TurnTyped
  <2>2. turn' = [[turn EXCEPT !.ended = FALSE] EXCEPT !.told = TRUE]
    BY Zenon DEF TakeEnd
  <2>3. PICK u : u = [turn EXCEPT !.ended = FALSE]
    OBVIOUS
  <2>4. Alike(u, turn) /\ u \in Turns
    BY Zenon, <2>1, <2>3, FlagsAlike DEF Alike
  <2>5. Alike(turn', u)
    BY Zenon, <2>1, <2>2, <2>3, <2>4, FlagsAlike
  <2> QED
    BY Zenon, <2>4, <2>5 DEF Alike, StillTurn
<1> QED
  BY <1>1, <1>2, Unbothered, QuietCloses

LEMMA BusSteps ==
  ASSUME ChatInv, Shut \/ ChatExpire
  PROVE  ChatInv'
<1>1. BusKept /\ Others({}) /\ log' = log
  BY CloseKept, ExpireKept DEF Shut, ChatExpire
<1>2. /\ kind' = kind /\ pipe' = pipe /\ responses' = responses /\ turn' = turn
      /\ row' = row /\ view' = view /\ past' = past
  BY DEF Shut, ChatExpire, chatVars
<1>3. turn.pc = "none" => pipe' = "none" /\ Chat \notin Range(log')
  BY <1>1, <1>2, TurnTyped DEF Dawn
<1> QED
  BY <1>1, <1>2, <1>3, Unbothered, SameTurn, TurnCloses

-----------------------------------------------------------------------------
(***************************************************************************)
(* The collector begins, reads, finishes and leaves.                       *)
(***************************************************************************)
\* A step of a turn that has been prepared.
LEMMA CollectorCloses ==
  ASSUME ChatInv, BusKept, Others({Collector}), view' = view, CollectorOk',
         turn'.pc # "none", turn' \in Turns, kind' \in Seq(Kinds), Len(kind') = Len(log'),
         pipe' = pipe, responses' \in Responses, row' \in Rows, past' \in Pasts
  PROVE  ChatInv'
<1>1. ChatType'
  BY TurnTyped DEF ChatType, Pipes, Responses, Pasts
<1>2. Dawn'
  BY DEF Dawn
<1> QED
  BY <1>1, <1>2, OthersClose

LEMMA FinishFacts ==
  ASSUME ChatInv, NEW seq \in Nat, Finish(seq)
  PROVE  /\ turn' \in Turns /\ turn'.pc = "announce" /\ responses' \in Responses
         /\ row' \in Rows /\ past' \in Pasts
<1> DEFINE reply == turn.reply \/ responses.replies > 0
<1>1. turn' = [turn EXCEPT !.pc = "announce", !.seq = seq, !.reply = reply]
  BY Zenon DEF Finish
<1>2. responses' = [responses EXCEPT !.replies = 0]
  BY Zenon DEF Finish
<1>3. \/ row' = Upserted(FALSE, seq, reply) /\ past' = past
      \/ row' = row /\ past' = past \cup {"db"}
  BY Zenon DEF Finish
<1>4. reply \in BOOLEAN
  BY TurnTyped
<1> HIDE DEF reply
<1>5. turn' \in Turns /\ turn'.pc = "announce"
  BY <1>1, <1>4, TurnTyped DEF Turns
<1>6. responses' \in Responses
  BY <1>2, Unbothered DEF Responses
<1>7. row \in Rows /\ FALSE \in BOOLEAN
  BY Unbothered
<1>8. Upserted(FALSE, seq, reply) \in Rows
  BY Zenon, <1>4, <1>7, UpsertedFacts
<1> HIDE <1>1, <1>2
<1>9. row' \in Rows /\ past' \in Pasts
  BY <1>3, <1>7, <1>8, Unbothered DEF Pasts
<1> QED
  BY <1>5, <1>6, <1>9

LEMMA EmptyNow ==
  ASSUME ChatInv, Finish(turn.seq), turn.pc = "run", UNCHANGED <<vars, kind, pipe, view>>
  PROVE  ChatInv'
<1>1. UNCHANGED vars /\ kind' = kind /\ pipe' = pipe /\ view' = view
  OBVIOUS
<1>2. BusKept /\ Others({}) /\ log' = log
  BY <1>1, IdleKept
<1>3. /\ turn' \in Turns /\ turn'.pc = "announce" /\ responses' \in Responses
      /\ row' \in Rows /\ past' \in Pasts
  BY TurnTyped, FinishFacts
<1>4. Same(Collector) /\ Others({Collector})
  BY <1>2, HandlesApart DEF Others
<1>5. CollectorOk'
  BY <1>3, <1>4, CollectorRests
<1> QED
  BY <1>1, <1>2, <1>3, <1>4, <1>5, Unbothered, CollectorCloses

LEMMA FinishSteps ==
  ASSUME ChatInv, Fallback \/ GiveUp
  PROVE  ChatInv'
<1>1. Finish(turn.seq) /\ turn.pc = "run" /\ UNCHANGED <<vars, kind, pipe, view>>
  BY Zenon DEF Fallback, GiveUp, Selecting
<1> QED
  BY <1>1, EmptyNow

LEMMA TakeEventStep ==
  ASSUME ChatInv, TakeEvent
  PROVE  ChatInv'
<1> DEFINE n == Head(sub[Collector].ch)
<1>1. /\ turn.pc = "run" /\ Receive(Collector) /\ kind' = kind /\ pipe' = pipe /\ view' = view
  BY Zenon DEF TakeEvent, Selecting
<1>2. /\ ~Free(Collector) /\ sub[Collector].topic = Chat /\ Collector \in Subs
      /\ turn.seq <= sub[Collector].pos /\ turn.seq \in Nat
      /\ ~turn.incomplete /\ Served(Collector) =>
           \A m \in 1 .. sub[Collector].pos : log[m] = Chat => m <= turn.seq
  BY <1>1, TurnTyped, HandlesApart DEF CollectorOk
<1>3. /\ BusKept /\ Others({Collector}) /\ log' = log
      /\ ~Free(Collector)' /\ sub'[Collector].topic = Chat
      /\ (Served(Collector)' <=> Served(Collector))
      /\ sub'[Collector].pos = n /\ n \in 1 .. Len(log)
      /\ \A m \in sub[Collector].pos + 1 .. sub'[Collector].pos - 1 : log[m] # Chat
      /\ sub[Collector].pos < n
  BY <1>1, <1>2, ReceiveKept
<1>4. sub[Collector].pos \in Nat /\ n \in Nat /\ Len(log) \in Nat
  BY <1>2, <1>3, HeldFacts
<1>5. CASE kind[n] \in Terminal
  <2>1. Finish(n)
    BY Zenon, <1>5 DEF TakeEvent
  <2>2. /\ turn' \in Turns /\ turn'.pc = "announce" /\ responses' \in Responses
        /\ row' \in Rows /\ past' \in Pasts
    BY <1>4, <2>1, FinishFacts
  <2>3. CollectorOk'
    BY <1>3, <2>2 DEF CollectorOk
  <2> QED
    BY <1>1, <1>3, <2>2, <2>3, Unbothered, CollectorCloses
<1>6. CASE kind[n] \notin Terminal
  <2>1. /\ turn' = [turn EXCEPT !.seq = n] /\ row' \in {row, Upserted(TRUE, n, FALSE)}
        /\ UNCHANGED <<responses, past>>
    BY Zenon, <1>6 DEF TakeEvent
  <2>2. TRUE \in BOOLEAN /\ FALSE \in BOOLEAN /\ row \in Rows
    BY Unbothered
  <2>3. Upserted(TRUE, n, FALSE) \in Rows
    BY Zenon, <1>4, <2>2, UpsertedFacts
  <2>4. row' = row \/ row' = Upserted(TRUE, n, FALSE)
    BY Zenon, <2>1
  <2>5. row' \in Rows
    BY Zenon, <2>2, <2>3, <2>4
  <2>6. turn' = [turn EXCEPT !.seq = n] /\ responses' = responses /\ past' = past
    BY Zenon, <2>1
  <2> HIDE DEF n
  <2>7. /\ turn' \in Turns /\ turn'.pc = "run" /\ turn'.seq = n
        /\ turn'.incomplete = turn.incomplete
    BY <1>1, <1>4, <2>6, TurnTyped DEF Turns
  <2>8. CollectorOk'
    <3>1. ASSUME ~turn.incomplete, Served(Collector), NEW m \in 1 .. n, log[m] = Chat
          PROVE  m <= n
      BY <1>4, <3>1
    <3> QED
      BY <1>3, <2>7, <3>1 DEF CollectorOk
  <2> HIDE <2>1, <2>3, <2>4
  <2> QED
    BY <1>1, <1>3, <2>5, <2>6, <2>7, <2>8, Unbothered, CollectorCloses
<1> QED
  BY <1>5, <1>6

LEMMA PrepareStep ==
  ASSUME ChatInv, Prepare
  PROVE  ChatInv'
<1>1. /\ turn.pc = "none" /\ kind' = kind /\ pipe' = pipe /\ row' = row /\ view' = view
      /\ past' = past
  BY Zenon DEF Prepare
<1>2. Collector \in Subs /\ Collector \notin Registered /\ 0 \in 0 .. Len(log)
      /\ Chat \notin Range(log)
  BY <1>1, TurnTyped, HandlesApart DEF CollectorOk, Free, Registered, Dawn
<1>3. PICK fresh \in BOOLEAN, replay \in BOOLEAN, since \in 0 .. Len(log) :
        (fresh => Chat \notin Range(log)) /\ Open(Collector, Chat, fresh, replay, since)
  BY Zenon, <1>2 DEF Prepare
<1>4. responses' \in Responses
  <2>1. responses' = [open |-> TRUE, replies |-> 0] /\ TRUE \in BOOLEAN /\ 0 \in Nat
        /\ responses \in Responses
    BY Zenon, Unbothered DEF Prepare
  <2> QED
    BY Zenon, <2>1, ResponsesFacts
<1>5. turn' = [turn EXCEPT !.pc = "run"]
  BY Zenon DEF Prepare
<1>6. turn' \in Turns /\ turn'.pc = "run" /\ turn'.seq = turn.seq
  BY <1>5, TurnTyped DEF Turns
<1>7. /\ BusKept /\ Others({Collector}) /\ log' = log
      /\ ~Free(Collector)' /\ sub'[Collector].topic = Chat
      /\ sub'[Collector].pos \in 0 .. Len(log)
  BY <1>2, <1>3, OpenKept
<1>8. CollectorOk'
  <2>1. turn.seq = 0 /\ turn.seq <= sub'[Collector].pos
    BY <1>1, <1>7, TurnTyped DEF Dawn
  <2>2. \A m \in 1 .. Len(log) : log[m] # Chat
    BY <1>2, TurnTyped DEF Range, ChatInv, BusInv, Plain
  <2>3. \A m \in 1 .. sub'[Collector].pos : log'[m] # Chat
    BY <1>7, <2>2, TurnTyped
  <2> QED
    BY <1>6, <1>7, <2>1, <2>3 DEF CollectorOk
<1> HIDE <1>5
<1> QED
  BY <1>1, <1>4, <1>6, <1>7, <1>8, Unbothered, CollectorCloses

LEMMA RecoverStep ==
  ASSUME ChatInv, Recover
  PROVE  ChatInv'
<1> DEFINE more == turn.incomplete \/ turn.seq < sub'[Collector].after
<1>1. /\ turn.pc = "run" /\ kind' = kind /\ pipe' = pipe /\ row' = row /\ view' = view
      /\ past' = past /\ responses' = responses /\ sub[Collector].state = "overflowed"
      /\ turn' = [turn EXCEPT !.incomplete = more]
  BY Zenon DEF Recover, Selecting
<1>2. /\ Collector \in Subs /\ Collector \notin Registered /\ ~Free(Collector)
      /\ turn.seq <= sub[Collector].pos /\ turn.seq \in Nat
  BY <1>1, TurnTyped, HandlesApart DEF CollectorOk, Free, Registered
<1>3. turn.seq \in 0 .. Len(log)
  BY <1>2, HeldFacts
<1>4. PICK fresh \in BOOLEAN, replay \in BOOLEAN, since \in 0 .. Len(log) :
        /\ fresh => Chat \notin Range(log)
        /\ replay /\ since = turn.seq /\ Open(Collector, Chat, fresh, replay, since)
  BY Zenon, <1>3 DEF Recover
<1>5. /\ BusKept /\ Others({Collector}) /\ log' = log
      /\ ~Free(Collector)' /\ sub'[Collector].topic = Chat
      /\ sub'[Collector].pos \in 0 .. Len(log) /\ sub'[Collector].after \in 0 .. Len(log)
      /\ turn.seq <= sub'[Collector].pos
      /\ Served(Collector)' =>
           sub'[Collector].pos = turn.seq \/ sub'[Collector].pos <= sub'[Collector].after
  BY <1>2, <1>4, OpenKept
<1>6. more \in BOOLEAN /\ (~more => ~(turn.seq < sub'[Collector].after))
  BY TurnTyped
<1> HIDE DEF more
<1>7. /\ turn' \in Turns /\ turn'.pc = "run" /\ turn'.seq = turn.seq
      /\ (turn'.incomplete <=> more)
  BY <1>1, <1>6, TurnTyped DEF Turns
<1>8. CollectorOk'
  <2>1. ~more /\ Served(Collector)' => sub'[Collector].pos <= turn.seq
    BY <1>2, <1>5, <1>6, TurnTyped
  <2>2. ASSUME ~more, Served(Collector)', NEW m \in 1 .. sub'[Collector].pos
        PROVE  m <= turn.seq
    BY <1>2, <1>5, <2>1, <2>2, TurnTyped
  <2> QED
    BY <1>5, <1>7, <2>2 DEF CollectorOk
<1> QED
  BY <1>1, <1>5, <1>7, <1>8, Unbothered, CollectorCloses

LEMMA AnnounceStep ==
  ASSUME ChatInv, Announce
  PROVE  ChatInv'
<1>1. /\ turn.pc = "announce" /\ Emit(Chat, "final") /\ turn' = [turn EXCEPT !.pc = "leave"]
      /\ UNCHANGED <<pipe, responses, row, view, past>>
  BY Zenon DEF Announce
<1>2. BusKept /\ Others({}) /\ kind' \in Seq(Kinds) /\ Len(kind') = Len(log')
  BY <1>1, KindsAre, EmitKept
<1>3. turn' \in Turns /\ turn'.pc = "leave"
  BY <1>1, TurnTyped DEF Turns
<1>4. Same(Collector) /\ Others({Collector})
  BY <1>2, HandlesApart DEF Others
<1>5. CollectorOk'
  BY <1>1, <1>3, <1>4, CollectorRests
<1> QED
  BY <1>1, <1>2, <1>3, <1>4, <1>5, Unbothered, CollectorCloses

\* What is left of a turn that is over.
LEMMA OverFacts ==
  ASSUME NEW r \in BOOLEAN
  PROVE  [NoTurn EXCEPT !.pc = "over", !.reply = r] \in Turns
         /\ [NoTurn EXCEPT !.pc = "over", !.reply = r].pc = "over"
         /\ [NoTurn EXCEPT !.pc = "over", !.reply = r].reply = r
<1>1. NoTurn \in Turns
  <2>1. ASSUME NEW x \in BOOLEAN
        PROVE  [pc |-> "none", seq |-> 0, incomplete |-> x, reply |-> x,
                ended |-> x, told |-> x, failed |-> x] \in Turns
    BY DEF Turns
  <2> QED
    BY Zenon, <2>1 DEF NoTurn
<1>2. ASSUME NEW t \in Turns
      PROVE  /\ [t EXCEPT !.pc = "over", !.reply = r] \in Turns
             /\ [t EXCEPT !.pc = "over", !.reply = r].pc = "over"
             /\ [t EXCEPT !.pc = "over", !.reply = r].reply = r
  BY DEF Turns
<1> QED
  BY Zenon, <1>1, <1>2

LEMMA LeaveStep ==
  ASSUME ChatInv, Leave
  PROVE  ChatInv'
<1>1. /\ turn.pc = "leave" /\ Unsubscribe(Collector)
      /\ turn' = [NoTurn EXCEPT !.pc = "over", !.reply = turn.reply]
      /\ kind' = kind /\ pipe' = pipe /\ row' = row /\ view' = view /\ past' = past
  BY Zenon DEF Leave
<1>2. /\ BusKept /\ Others({Collector}) /\ log' = log /\ Free(Collector)'
  BY <1>1, UnsubscribeKept, HandlesApart
<1>3. turn' \in Turns /\ turn'.pc = "over"
  BY Zenon, <1>1, OverFacts, TurnTyped
<1>4. responses' \in Responses
  <2>1. responses' = [responses EXCEPT !.open = FALSE] /\ FALSE \in BOOLEAN /\ 0 \in Nat
        /\ responses \in Responses
    BY Zenon, Unbothered DEF Leave
  <2> QED
    BY Zenon, <2>1, ResponsesFacts
<1>5. CollectorOk'
  BY <1>2, <1>3 DEF CollectorOk
<1> QED
  BY <1>1, <1>2, <1>3, <1>4, <1>5, Unbothered, CollectorCloses

-----------------------------------------------------------------------------
LEMMA ChatBegins == ChatInit => ChatInv
<1> SUFFICES ASSUME ChatInit PROVE ChatInv
  OBVIOUS
<1>1. BusInv /\ Streams
  BY BusInit, StreamsInit DEF ChatInit
<1>2. log = <<>> /\ sub = [s \in Subs |-> NoSub] /\ Range(log) = {}
  BY DEF ChatInit, Init, Range
<1>3. /\ kind = <<>> /\ pipe = "none" /\ row = NoRow /\ past = {}
      /\ view = [b \in Browsers |-> NoView]
  BY DEF ChatInit
<1>4. responses \in Responses
  <2>1. responses = [open |-> FALSE, replies |-> 0]
    BY Zenon DEF ChatInit
  <2>2. ASSUME NEW x \in BOOLEAN PROVE [open |-> x, replies |-> 0] \in Responses
    BY DEF Responses
  <2> QED
    BY Zenon, <2>1, <2>2
<1>5. turn \in Turns /\ turn.pc = "none" /\ turn.seq = 0
  <2> DEFINE T(x) == [pc |-> "none", seq |-> 0, incomplete |-> x, reply |-> x,
                      ended |-> x, told |-> x, failed |-> x]
  <2>1. ASSUME NEW x \in BOOLEAN PROVE T(x) \in Turns /\ T(x).pc = "none" /\ T(x).seq = 0
    BY DEF Turns
  <2>2. turn = T(FALSE) /\ FALSE \in BOOLEAN
    BY Zenon DEF ChatInit, NoTurn
  <2> HIDE DEF T
  <2> QED
    BY Zenon, <2>1, <2>2
<1>6. /\ NoView \in Views /\ NoView.pc = "off" /\ NoView.shown = "nothing"
  <2>1. NoView = NewView("off", 0, "nothing")
    BY Zenon DEF NoView, NewView, View
  <2>2. "off" \in Pcs /\ 0 \in Nat /\ "nothing" \in Shows
    BY DEF Pcs, Shows
  <2> QED
    BY <2>1, <2>2, NewViewFacts
<1>7. \A s \in Subs : Free(s)
  BY <1>2 DEF Free, NoSub
<1>8. ChatType
  BY <1>2, <1>3, <1>4, <1>5, <1>6, NoRowFacts DEF ChatType, Responses
<1>9. ASSUME NEW b \in Browsers PROVE BrowserOk(b)
  BY <1>3, <1>6, <1>7, HandlesApart DEF BrowserOk, Waiting, Watching
<1>10. CollectorOk
  BY <1>5, <1>7, HandlesApart DEF CollectorOk
<1>11. Dawn
  BY <1>2, <1>3, <1>5, <1>6 DEF Dawn
<1> QED
  BY <1>1, <1>8, <1>9, <1>10, <1>11 DEF ChatInv

LEMMA ChatStutters ==
  ASSUME ChatInv, UNCHANGED allVars
  PROVE  ChatInv'
<1>1. UNCHANGED <<vars, kind, view>> /\ UNCHANGED chatVars
  BY DEF allVars, chatVars
<1>2. /\ turn' = turn /\ pipe' = pipe /\ responses' = responses /\ row' = row /\ past' = past
  BY <1>1 DEF chatVars
<1> QED
  BY <1>1, <1>2, Unbothered, SameTurn, TurnTyped, QuietCloses DEF Dawn

LEMMA ChatSteps == ChatInv /\ [ChatNext]_allVars => ChatInv'
<1> SUFFICES ASSUME ChatInv, [ChatNext]_allVars PROVE ChatInv'
  OBVIOUS
<1>1. CASE ChatNext
  <2>1. \/ Prepare \/ Follow \/ Inject \/ Begin \/ Reply \/ Terminate \/ Report \/ Delta
        \/ Fallback \/ TakeEvent \/ Recover \/ GiveUp \/ TakeReply \/ TakeEnd
        \/ Announce \/ Leave \/ Flush \/ Noise \/ Stop \/ Shut \/ ChatExpire
        \/ \E b \in Browsers : \/ Resume(b) \/ Load(b) \/ Start(b) \/ Top(b)
                               \/ Watch(b) \/ Beat(b) \/ Disconnect(b)
    BY Zenon, <1>1 DEF ChatNext, Send, Work, Collect, Serve
  <2> QED
    BY <2>1, PrepareStep, FollowStep, InjectStep, WorkSteps, ReplyStep, ReportStep,
       FinishSteps, TakeEventStep, RecoverStep, TakeReplyStep, TakeEndStep, AnnounceStep,
       LeaveStep, FlushStep, StopStep, BusSteps, ResumeStep, LoadStep, StartStep,
       TopStep, WatchStep, BeatStep, DisconnectStep
<1>2. CASE UNCHANGED allVars
  BY <1>2, ChatStutters
<1> QED
  BY <1>1, <1>2

LEMMA ChatAlways == ChatSpec => []ChatInv
  BY ChatBegins, ChatSteps, PTL DEF ChatSpec

LEMMA ChatInvSkipsNothing == ChatInv => NothingSkipped
<1> SUFFICES ASSUME ChatInv PROVE NothingSkipped
  OBVIOUS
<1>1. ASSUME NEW b \in Browsers, view[b].pc \in {"top", "select"}, Follows(b),
             NEW n \in 1 .. sub[b].pos
      PROVE  n <= view[b].cursor
  <2>1. ~Free(b) /\ Served(b) /\ sub[b].pos <= view[b].cursor
    BY <1>1, ViewTyped DEF BrowserOk, Watching, Follows, Free, Served
  <2> QED
    BY <2>1, HeldFacts, ViewTyped
<1>2. ASSUME turn.pc = "run", ~turn.incomplete, Follows(Collector),
             NEW n \in 1 .. sub[Collector].pos, OnChat(n)
      PROVE  n <= turn.seq
  BY <1>2, TurnTyped DEF CollectorOk, Follows, Served, OnChat
<1> QED
  BY <1>1, <1>2 DEF NothingSkipped

\* Whoever follows a turn misses no event of it on the way from the snapshot to
\* the live events, however its subscription is cut off, replayed, overtaken by
\* other traces or closed; the collector that did lose events knows it did.
THEOREM FollowersMissNothing == ChatSpec => []NothingSkipped
  BY ChatAlways, ChatInvSkipsNothing, PTL

-----------------------------------------------------------------------------
(***************************************************************************)
(* The reply.  While the bot runs and the bus serves everyone: what has    *)
(* been published and notified says how far the pipeline is, a turn keeps  *)
(* the reply until the row has it, and no request finds the row lacking it *)
(* before the end of the turn is in its channel.                           *)
(***************************************************************************)
PipeDone == pipe \in {"ended", "over"}
Lost == "reply" \in past => "db" \in past
HasReply(r) == r.state = "final" /\ r.reply

AllServed ==
  /\ closed = FALSE
  /\ \A s \in Subs : /\ sub[s].state \in {"none", "open", "overflowed"}
                     /\ ~Free(s) => sub[s].cap >= 1

Heralds ==
  /\ \A n \in 1 .. Len(kind) : /\ kind[n] \in Terminal => PipeDone
                               /\ kind[n] = "final" => turn.pc \in {"leave", "over"}
  /\ turn.ended \/ turn.told \/ turn.failed => PipeDone
  /\ view[Sender].pc \in {"off", "sending"} => pipe = "none"

TurnOk ==
  /\ turn.pc = "none" => "reply" \notin past
  /\ turn.pc = "run" =>
       responses.open /\ ("reply" \in past => turn.reply \/ responses.replies > 0)
  /\ turn.pc \in {"none", "run"} =>
       row.state # "final" /\ row.seq <= turn.seq /\ "db" \notin past
  /\ turn.pc \in {"announce", "leave", "over"} =>
       /\ PipeDone /\ ("reply" \in past => turn.reply)
       /\ "db" \notin past => row.state = "final" /\ ("reply" \in past => row.reply)
  /\ "db" \in past => ~HasReply(row)

ViewOk(b) ==
  /\ view[b].pc \in Waiting /\ sub[b].state = "overflowed" => sub[b].ch # <<>>
  /\ /\ view[b].pc = "loaded" /\ view[b].snap.state # "final"
     /\ turn.pc \in {"leave", "over"} /\ "db" \notin past
     => sub[b].ch # <<>>
  /\ view[b].pc = "loaded" /\ LacksReply(view[b].snap) => PipeDone /\ Lost
  /\ view[b].shown = "end" => PipeDone /\ Lost

ReplyInv ==
  /\ AllServed
  /\ "stop" \notin past => Heralds /\ TurnOk /\ \A b \in Browsers : ViewOk(b)

\* Room for every handle: nobody is ever turned away, and the bus stays open.
Roomy ==
  /\ CanClose = FALSE
  /\ IsFiniteSet(Subs) /\ Cardinality(Subs) <= MaxSubscriptions

-----------------------------------------------------------------------------
(***************************************************************************)
(* What the operations of the bus do to channels: nobody else's is         *)
(* emptied, and one that is cut off has something in it.                   *)
(***************************************************************************)
ChKept(s) ==
  ~Free(s) => /\ sub[s].ch # <<>> => sub'[s].ch # <<>>
              /\ sub'[s].state = "overflowed" => sub[s].state = "overflowed" \/ sub'[s].ch # <<>>

BusSafe(S) == AllServed' /\ \A s \in Subs \ S : ChKept(s)

LEMMA ServedSame ==
  ASSUME AllServed, closed' = closed, NEW S, \A s \in Subs \ S : sub'[s] = sub[s],
         \A s \in S : /\ sub'[s].state \in {"none", "open", "overflowed"}
                      /\ sub'[s].state # "none" => sub'[s].cap >= 1
  PROVE  BusSafe(S)
<1>1. AllServed'
  BY DEF AllServed, Free
<1> QED
  BY <1>1 DEF BusSafe, ChKept

LEMMA IdleSafe ==
  ASSUME AllServed, UNCHANGED vars
  PROVE  BusSafe({})
<1>1. closed' = closed /\ sub' = sub
  BY DEF vars
<1> QED
  BY <1>1, ServedSame

LEMMA ExpireSafe ==
  ASSUME AllServed, Expire
  PROVE  BusSafe({})
<1>1. closed' = closed /\ sub' = sub
  BY DEF Expire
<1> QED
  BY <1>1, ServedSame

LEMMA UnsubscribeSafe ==
  ASSUME ChatInv, AllServed, NEW s \in Subs, Unsubscribe(s)
  PROVE  BusSafe({s})
<1>1. closed' = closed /\ sub'[s] = NoSub /\ \A r \in Subs \ {s} : sub'[r] = sub[r]
  BY UnsubscribeStep DEF Unsubscribe, ChatInv
<1> QED
  BY <1>1, ServedSame DEF NoSub

LEMMA ReceiveSafe ==
  ASSUME ChatInv, AllServed, NEW s \in Subs, Receive(s)
  PROVE  BusSafe({s})
<1>1. closed' = closed /\ ~Free(s)
  BY DEF Receive
<1>2. /\ \A r \in Subs \ {s} : sub'[r] = sub[r]
      /\ sub'[s].state = sub[s].state /\ sub'[s].cap = sub[s].cap
  BY ReceiveStep DEF ChatInv
<1> QED
  BY <1>1, <1>2, ServedSame DEF AllServed

LEMMA OpenSafe ==
  ASSUME Roomy, ChatInv, AllServed, NEW s \in Subs, s \notin Registered,
         NEW fresh \in BOOLEAN, NEW replay \in BOOLEAN, NEW since \in 0 .. Len(log),
         fresh => Chat \notin Range(log), Open(s, Chat, fresh, replay, since)
  PROVE  BusSafe({s}) /\ sub'[s].state = "open"
<1>1. BusInv /\ Chat \in Topics /\ Chat # OfBot /\ closed' = closed
  BY ChatAssumption, BusAssumption DEF ChatInv, Open
<1>2. Admitted
  <2>1. Registered \subseteq Subs \ {s}
    BY DEF Registered
  <2>2. IsFiniteSet(Subs \ {s}) /\ Cardinality(Subs \ {s}) = Cardinality(Subs) - 1
        /\ Cardinality(Subs) \in Nat
    BY FS_RemoveElement, FS_CardinalityType DEF Roomy
  <2>3. Cardinality(Registered) <= Cardinality(Subs) - 1 /\ Cardinality(Registered) \in Nat
    BY <2>1, <2>2, FS_Subset, FS_CardinalityType
  <2> QED
    BY <2>2, <2>3, BusAssumption DEF Admitted, AllServed, Roomy
<1>3. /\ \A r \in Subs \ {s} : sub'[r] = sub[r]
      /\ sub'[s].state = "open" /\ sub'[s].cap >= 1
  BY <1>1, <1>2, OpenSubs
<1> QED
  BY <1>1, <1>3, ServedSame

LEMMA FullHasSome ==
  ASSUME ChatInv, AllServed, NEW s \in Registered, Full(s)
  PROVE  sub[s].ch # <<>>
<1>1. sub[s] \in Subscription /\ s \in Subs /\ ~Free(s)
  BY OpenOnes DEF ChatInv, BusInv, Registered, Free
<1>2. sub[s].cap >= 1 /\ sub[s].ch \in Seq(Nat) /\ Len(sub[s].ch) = sub[s].cap
  BY <1>1 DEF AllServed, Full, Subscription
<1> QED
  BY <1>2

LEMMA AppendHasSome ==
  ASSUME NEW T, NEW q \in Seq(T), NEW x \in T
  PROVE  Append(q, x) # <<>>
<1>1. Len(Append(q, x)) = Len(q) + 1 /\ Len(q) \in Nat
  OBVIOUS
<1> QED
  BY <1>1

LEMMA PublishSafe ==
  ASSUME ChatInv, AllServed, NEW t \in Traces, NEW begins \in BOOLEAN, Publish(t, begins)
  PROVE  /\ BusSafe({})
         /\ t = Chat =>
              \A s \in Subs : /\ ~Free(s) /\ sub[s].topic = Chat
                              /\ sub[s].state = "overflowed" => sub[s].ch # <<>>
                              => sub'[s].ch # <<>>
<1> DEFINE n == Len(log) + 1
<1>1. BusInv /\ Plain /\ closed' = closed /\ n \in Nat
  BY DEF ChatInv, BusInv, Plain, Publish
<1>2. ASSUME NEW s \in Registered PROVE sub[s] \in Subscription /\ sub[s].ch \in Seq(Nat)
                                        /\ ~Free(s) /\ s \in Subs
  BY <1>1, <1>2, OpenOnes DEF Subscription, Registered, Free
<1>3. ASSUME NEW s \in For(t)
      PROVE  /\ sub'[s].cap = sub[s].cap /\ sub'[s].state \in {"open", "overflowed"}
             /\ sub'[s].ch # <<>>
  <2>1. s \in Registered /\ sub'[s].cap = sub[s].cap
    BY <1>1, <1>3, PublishSubs
  <2>2. CASE s \in Overrun(t)
    <3>1. sub'[s].state = "overflowed" /\ sub'[s].ch = sub[s].ch /\ Full(s)
      BY <1>1, <2>2, PublishSubs DEF Overrun
    <3> QED
      BY <2>1, <3>1, FullHasSome
  <2>3. CASE s \notin Overrun(t)
    <3>1. sub'[s].state = "open" /\ sub'[s].ch = Append(sub[s].ch, n)
      BY <1>1, <1>3, <2>3, PublishSubs
    <3> HIDE DEF n
    <3> QED
      BY <1>1, <1>2, <2>1, <3>1, AppendHasSome
  <2> QED
    BY <2>2, <2>3
<1>4. For(t) \subseteq Registered /\ \A s \in Subs \ For(t) : sub'[s] = sub[s]
  BY <1>1, PublishSubs
<1>5. AllServed'
  <2>1. ASSUME NEW s \in Subs
        PROVE  /\ sub'[s].state \in {"none", "open", "overflowed"}
               /\ sub'[s].state # "none" => sub'[s].cap >= 1
    BY <1>2, <1>3, <1>4 DEF AllServed, Free
  <2> QED
    BY <1>1, <2>1 DEF AllServed, Free
<1>6. \A s \in Subs : ChKept(s)
  BY <1>3, <1>4 DEF ChKept
<1>7. ASSUME t = Chat, NEW s \in Subs, ~Free(s), sub[s].topic = Chat,
             sub[s].state = "overflowed" => sub[s].ch # <<>>
      PROVE  sub'[s].ch # <<>>
  <2>1. CASE s \in For(t)
    BY <1>3, <2>1
  <2>2. CASE s \notin For(t)
    <3>1. Of(Chat) = {Chat}
      BY ChatAssumption, BusAssumption DEF Of
    <3>2. s \notin Registered
      BY <1>7, <2>2, <3>1 DEF For
    <3>3. sub[s].state = "overflowed"
      BY <1>7, <3>2 DEF AllServed, Registered, Free
    <3> QED
      BY <1>4, <1>7, <2>2, <3>3
  <2> QED
    BY <2>1, <2>2
<1> QED
  BY <1>5, <1>6, <1>7 DEF BusSafe

LEMMA EmitSafe ==
  ASSUME ChatInv, AllServed, NEW t \in Traces, NEW k \in Kinds, Emit(t, k)
  PROVE  /\ BusSafe({}) /\ kind' = Append(kind, k)
         /\ t = Chat =>
              \A s \in Subs : /\ ~Free(s) /\ sub[s].topic = Chat
                              /\ sub[s].state = "overflowed" => sub[s].ch # <<>>
                              => sub'[s].ch # <<>>
<1>1. PICK begins \in BOOLEAN : Publish(t, begins) /\ kind' = Append(kind, k)
  BY Zenon DEF Emit, AllServed
<1> QED
  BY <1>1, PublishSafe

\* A browser's step that reads, leaves or does nothing.
LEMMA SafeMoves ==
  ASSUME ChatInv, AllServed, NEW s \in Subs, Unsubscribe(s) \/ Receive(s) \/ UNCHANGED vars
  PROVE  BusSafe({s})
  BY IdleSafe, UnsubscribeSafe, ReceiveSafe DEF BusSafe

-----------------------------------------------------------------------------
(***************************************************************************)
(* What a step has to show for the reply.                                  *)
(***************************************************************************)
Calm == ChatInv /\ ReplyInv /\ "stop" \notin past

LEMMA CalmFacts ==
  ASSUME Calm
  PROVE  /\ ChatInv /\ AllServed /\ Heralds /\ TurnOk /\ \A b \in Browsers : ViewOk(b)
         /\ "stop" \notin past /\ turn.pc \in {"none", "run", "announce", "leave", "over"}
  BY DEF Calm, ReplyInv, ChatInv, ChatType, Turns

\* The pipeline does not come back, and neither does what has happened.
Onwards ==
  /\ past \subseteq past'
  /\ PipeDone => PipeDone'
  /\ PipeDone /\ "reply" \in past' => "reply" \in past

LEMMA ViewOkKept ==
  ASSUME Calm, NEW b \in Browsers, ChKept(b), view'[b] = view[b], Onwards,
         turn'.pc \in {"leave", "over"} /\ view[b].pc = "loaded" =>
           turn.pc \in {"leave", "over"} \/ sub'[b].ch # <<>>
  PROVE  ViewOk(b)'
<1>1. ViewOk(b) /\ BrowserOk(b)
  BY CalmFacts DEF ChatInv
<1>2. view[b].pc \in Waiting => ~Free(b)
  BY <1>1 DEF BrowserOk
<1>3. PipeDone /\ Lost => PipeDone' /\ Lost'
  BY DEF Onwards, Lost, PipeDone
<1>4. view[b].pc \in Waiting /\ sub'[b].state = "overflowed" => sub'[b].ch # <<>>
  BY <1>1, <1>2 DEF ViewOk, ChKept
<1>5. /\ view[b].pc = "loaded" /\ view[b].snap.state # "final"
      /\ turn'.pc \in {"leave", "over"} /\ "db" \notin past'
      => sub'[b].ch # <<>>
  BY <1>1, <1>2 DEF ViewOk, ChKept, Onwards, Waiting
<1> QED
  BY <1>1, <1>3, <1>4, <1>5 DEF ViewOk, LacksReply

LEMMA HeraldsKept ==
  ASSUME Calm, Onwards, turn.pc \in {"leave", "over"} => turn'.pc \in {"leave", "over"},
         \/ kind' = kind
         \/ \E k \in Kinds : /\ kind' = Append(kind, k)
                             /\ k \in Terminal => PipeDone'
                             /\ k = "final" => turn'.pc \in {"leave", "over"},
         turn'.ended \/ turn'.told \/ turn'.failed => PipeDone',
         view'[Sender].pc \in {"off", "sending"} => pipe' = "none"
  PROVE  Heralds'
<1>1. Heralds /\ kind \in Seq(Kinds)
  BY CalmFacts, Unbothered
<1>2. \A n \in 1 .. Len(kind') : /\ kind'[n] \in Terminal => PipeDone'
                                 /\ kind'[n] = "final" => turn'.pc \in {"leave", "over"}
  <2>1. CASE kind' = kind
    BY <1>1, <2>1 DEF Heralds, Onwards
  <2>2. CASE kind' # kind
    <3>1. PICK k \in Kinds : /\ kind' = Append(kind, k)
                             /\ k \in Terminal => PipeDone'
                             /\ k = "final" => turn'.pc \in {"leave", "over"}
      BY <2>2
    <3>2. /\ Len(kind') = Len(kind) + 1 /\ kind'[Len(kind) + 1] = k /\ Len(kind) \in Nat
          /\ \A n \in 1 .. Len(kind) : kind'[n] = kind[n]
      BY <1>1, <3>1
    <3>3. \A n \in 1 .. Len(kind') : n \in 1 .. Len(kind) \/ n = Len(kind) + 1
      BY <3>2
    <3> QED
      BY <1>1, <3>1, <3>2, <3>3 DEF Heralds, Onwards
  <2> QED
    BY <2>1, <2>2
<1> QED
  BY <1>2 DEF Heralds

LEMMA TurnOkKept ==
  ASSUME Calm, Onwards, past' = past, row' = row, responses' = responses,
         turn'.pc = turn.pc, turn'.seq = turn.seq, turn'.reply = turn.reply
  PROVE  TurnOk'
<1>1. TurnOk
  BY CalmFacts
<1> QED
  BY <1>1 DEF TurnOk, Onwards, HasReply

LEMMA PastKept ==
  ASSUME Calm, past' = past, PipeDone => PipeDone'
  PROVE  Onwards /\ "stop" \notin past'
  BY CalmFacts DEF Onwards

\* A step of browser b.
LEMMA BrowserCalm ==
  ASSUME Calm, NEW b \in Browsers, BusSafe({b}), \A c \in Browsers \ {b} : view'[c] = view[c],
         ViewOk(b)', Heralds', TurnOk', Onwards, turn'.pc = turn.pc
  PROVE  ReplyInv'
<1>1. \A c \in Browsers \ {b} : ViewOk(c)'
  BY ViewOkKept, HandlesApart DEF BusSafe
<1> QED
  BY <1>1 DEF ReplyInv, BusSafe

\* A step of anything else.
LEMMA OthersCalm ==
  ASSUME Calm, NEW S, S \subseteq {Collector}, BusSafe(S), view' = view,
         Heralds', TurnOk', Onwards,
         turn'.pc \in {"leave", "over"} => turn.pc \in {"leave", "over"}
  PROVE  ReplyInv'
<1>1. \A c \in Browsers : ViewOk(c)'
  BY ViewOkKept, HandlesApart DEF BusSafe
<1> QED
  BY <1>1 DEF ReplyInv, BusSafe

\* A request that reads no row.
LEMMA ViewOkNow ==
  ASSUME NEW b, view'[b].pc # "loaded", view'[b].shown = "end" => PipeDone' /\ Lost',
         view'[b].pc \in Waiting => sub'[b].state # "overflowed"
  PROVE  ViewOk(b)'
  BY DEF ViewOk

\* The end of the row's turn says what a row without the reply means.
LEMMA RowTells ==
  ASSUME Calm
  PROVE  /\ turn.pc = "over" => PipeDone
         /\ LacksReply(row) => PipeDone /\ Lost
         /\ turn.pc = "over" /\ ~HasReply(row) => Lost
         /\ turn.pc \in {"leave", "over"} /\ ~turn.reply => PipeDone /\ Lost
         /\ turn.pc \in {"leave", "over"} /\ "db" \notin past => row.state = "final"
  BY CalmFacts, TurnTyped DEF TurnOk, LacksReply, HasReply, Lost

-----------------------------------------------------------------------------
(***************************************************************************)
(* The browsers' steps.                                                    *)
(***************************************************************************)
HistoryKept == HasReply(row) => row' = row

\* A browser's step that leaves the pipeline, the turn and the row alone.
LEMMA ViewCalm ==
  ASSUME Calm, NEW b \in Browsers, BusSafe({b}), ViewStep(b), ViewOk(b)',
         UNCHANGED <<kind, pipe, responses, turn, row, past>>,
         view'[b].pc \in {"off", "sending"} => view[b].pc \in {"off", "sending"}
  PROVE  ReplyInv' /\ HistoryKept
<1>1. Onwards
  BY PastKept DEF PipeDone
<1>2. \A c \in Browsers \ {b} : view'[c] = view[c]
  BY DEF ViewStep
<1>3. Heralds'
  <2>1. Heralds
    BY CalmFacts
  <2>2. view'[Sender].pc \in {"off", "sending"} => pipe' = "none"
    BY <1>2, <2>1, HandlesApart DEF Heralds
  <2>3. turn'.ended \/ turn'.told \/ turn'.failed => PipeDone'
    BY <2>1 DEF Heralds, PipeDone
  <2> QED
    BY <1>1, <2>2, <2>3, HeraldsKept
<1>4. TurnOk'
  BY <1>1, TurnOkKept
<1> QED
  BY <1>1, <1>2, <1>3, <1>4, BrowserCalm DEF HistoryKept

LEMMA JoinsCalm ==
  ASSUME Roomy, Calm, NEW b \in Browsers, Follow \/ Resume(b), Follow => b = Sender
  PROVE  ReplyInv' /\ HistoryKept
<1>0. ChatInv /\ AllServed /\ b \in Subs
  BY CalmFacts, HandlesApart
<1>1. PICK pc \in {"sending", "subscribed"} :
        /\ Joining(b, pc)
        /\ pc = "sending" => view[b].pc = "off"
  <2>1. CASE Follow
    BY Zenon, <2>1 DEF Follow, Joining
  <2>2. CASE Resume(b)
    <3>1. Joining(b, "subscribed")
      BY Zenon, <2>2 DEF Resume, Joining
    <3> QED
      BY <3>1
  <2> QED
    BY <2>1, <2>2
<1>2. view[b].pc \in {"off", "ended"} /\ UNCHANGED <<kind, pipe, responses, turn, row, past>>
  <2>1. CASE Follow
    BY Zenon, <2>1 DEF Follow
  <2>2. CASE Resume(b)
    <3>1. view[b].pc = "off" \/ view[b].shown \in {"recover", "left"}
      BY Zenon, <2>2 DEF Resume
    <3>2. UNCHANGED <<kind, pipe, responses, turn, row, past>>
      BY Zenon, <2>2 DEF Resume
    <3> QED
      BY <1>0, <3>1, <3>2, ViewTyped DEF BrowserOk
  <2> QED
    BY <2>1, <2>2
<1>3. ViewStep(b) /\ view'[b].pc = pc /\ view'[b].shown = "nothing"
  BY <1>0, <1>1, <1>2, Joins
<1>4. b \notin Registered
  BY <1>0, <1>2, ViewTyped DEF BrowserOk, Waiting, Watching, Free, Registered
<1>5. BusSafe({b}) /\ sub'[b].state = "open"
  <2>1. 0 \in 0 .. Len(log)
    BY <1>0, TurnTyped
  <2>2. PICK fresh \in BOOLEAN, replay \in BOOLEAN, since \in 0 .. Len(log) :
          (fresh => Chat \notin Range(log)) /\ Open(b, Chat, fresh, replay, since)
    BY Zenon, <1>1, <2>1 DEF Joining
  <2> QED
    BY <1>0, <1>4, <2>2, OpenSafe
<1>6. ViewOk(b)'
  BY <1>3, <1>5, ViewOkNow
<1> QED
  BY <1>1, <1>2, <1>3, <1>5, <1>6, ViewCalm

LEMMA ShowSafe ==
  ASSUME NEW b \in Browsers, NEW snap, Show(b, snap)
  PROVE  Unsubscribe(b) \/ UNCHANGED vars
  BY Zenon DEF Show, Quit

\* A browser that is shown something else than a row, or the row's end.
LEMMA EndsCalm ==
  ASSUME Calm, NEW b \in Browsers, NEW what \in Shows, Quit(b, what), view[b].pc # "off",
         UNCHANGED <<kind, pipe, responses, turn, row, past>>,
         what = "end" => PipeDone /\ Lost
  PROVE  ReplyInv' /\ HistoryKept
<1>0. ChatInv /\ AllServed /\ b \in Subs
  BY CalmFacts, HandlesApart
<1>1. ViewStep(b) /\ view'[b].pc = "ended" /\ view'[b].shown = what
  BY <1>0, QuitStep
<1>2. BusSafe({b})
  BY <1>0, SafeMoves DEF Quit
<1>3. ViewOk(b)'
  BY <1>1, ViewOkNow DEF Waiting, PipeDone, Lost
<1> QED
  BY <1>1, <1>2, <1>3, ViewCalm

\* A browser that goes on, beyond the row it has read.
LEMMA GoesCalm ==
  ASSUME Calm, NEW b \in Browsers, BusSafe({b}), ViewStep(b), view'[b].pc \in Watching,
         UNCHANGED <<kind, pipe, responses, turn, row, past>>
  PROVE  ReplyInv' /\ HistoryKept
<1>1. BrowserOk(b)'
  BY DEF ViewStep
<1>2. view'[b].shown = "nothing"
  BY <1>1 DEF BrowserOk, Watching
<1>3. ViewOk(b)'
  BY <1>2, ViewOkNow DEF Waiting, Watching
<1> QED
  BY <1>3, ViewCalm DEF Watching

LEMMA LoadCalm ==
  ASSUME Calm, NEW b \in Browsers, Load(b)
  PROVE  ReplyInv' /\ HistoryKept
<1> DEFINE v == [view[b] EXCEPT !.pc = "loaded", !.snap = row]
<1>0. ChatInv /\ AllServed /\ b \in Subs /\ ViewOk(b) /\ BrowserOk(b)
  BY CalmFacts, HandlesApart DEF ChatInv
<1>1. /\ view[b].pc = "subscribed" /\ Step(b, v) /\ UNCHANGED vars
      /\ UNCHANGED <<kind, pipe, responses, turn, row, past>> /\ sub' = sub
  BY DEF Load, vars
<1>2. v \in Views /\ v.pc = "loaded" /\ v.shown = view[b].shown /\ v.snap = row
  BY <1>0, ViewTyped, TurnTyped DEF Views
<1> HIDE DEF v
<1>3. view[b].shown = "nothing"
  BY <1>0, <1>1 DEF BrowserOk
<1>4. ViewStep(b) /\ view'[b] = v
  BY <1>0, <1>1, <1>2, <1>3, GoesOn DEF Waiting, Watching
<1>5. BusSafe({b})
  BY <1>0, <1>1, SafeMoves
<1>6. sub[b].state = "overflowed" => sub[b].ch # <<>>
  BY <1>0, <1>1 DEF ViewOk, Waiting
<1>7. (turn.pc \in {"leave", "over"} /\ "db" \notin past => row.state = "final")
      /\ (LacksReply(row) => PipeDone /\ Lost)
  BY RowTells
<1>8. ViewOk(b)'
  BY <1>1, <1>2, <1>3, <1>4, <1>6, <1>7 DEF ViewOk, PipeDone, Lost
<1> QED
  BY <1>1, <1>2, <1>4, <1>5, <1>8, ViewCalm

LEMMA StartCalm ==
  ASSUME Calm, NEW b \in Browsers, Start(b)
  PROVE  ReplyInv' /\ HistoryKept
<1> DEFINE snap == view[b].snap
           interrupted == Upserted(FALSE, snap.seq, FALSE)
<1>0. ChatInv /\ AllServed /\ b \in Subs /\ ViewOk(b) /\ TurnOk
  BY CalmFacts, HandlesApart
<1>1. view[b].pc = "loaded" /\ UNCHANGED <<kind, pipe, responses, turn, past>>
  BY DEF Start
<1>2. snap \in Rows /\ snap.seq \in Nat /\ row \in Rows /\ turn.pc # "none"
  BY <1>0, <1>1, ViewTyped, TurnTyped, NotAtDawn DEF Rows
<1>3. interrupted \in Rows
  <2>1. FALSE \in BOOLEAN
    OBVIOUS
  <2> QED
    BY Zenon, <1>2, <2>1, UpsertedFacts
<1>4. \/ Show(b, snap) /\ row' = row
      \/ Abandoned(b) /\ Quit(b, "gone") /\ row' = row
      \/ Abandoned(b) /\ row' = interrupted /\ Show(b, interrupted)
  BY Zenon DEF Start
<1>5. interrupted = row \/ LacksReply(interrupted)
  <2>1. ASSUME NEW x \in BOOLEAN, NEW k
        PROVE  ~x => [state |-> "final", seq |-> k, reply |-> x].state = "final"
                     /\ ~[state |-> "final", seq |-> k, reply |-> x].reply
    OBVIOUS
  <2>2. \/ interrupted = row
        \/ \E k : interrupted = [state |-> "final", seq |-> k, reply |-> FALSE]
    BY Zenon DEF Upserted
  <2>3. FALSE \in BOOLEAN
    OBVIOUS
  <2> QED
    BY Zenon, <2>1, <2>2, <2>3 DEF LacksReply
<1>6. Abandoned(b) => turn.pc = "over" /\ sub[b].ch = <<>> /\ snap.state # "final"
  BY <1>2, CalmFacts DEF Abandoned, Managed
<1>7. Abandoned(b) => "db" \in past /\ PipeDone /\ Lost
  BY <1>0, <1>1, <1>6 DEF ViewOk, TurnOk, Lost
<1>8. LacksReply(snap) => PipeDone /\ Lost
  BY <1>0, <1>1 DEF ViewOk
<1> HIDE DEF snap, interrupted
<1>9. Onwards /\ "stop" \notin past'
  BY <1>1, PastKept DEF PipeDone
<1>10. PipeDone /\ Lost => PipeDone' /\ Lost'
  BY <1>1 DEF PipeDone, Lost
<1>11. /\ BusSafe({b}) /\ ViewStep(b)
       /\ view'[b].pc \in {"top", "ended"}
       /\ view'[b].shown = "end" => PipeDone' /\ Lost'
  <2>1. CASE Show(b, snap) /\ row' = row
    <3>1. BusSafe({b})
      BY <1>0, <2>1, ShowSafe, SafeMoves
    <3> QED
      BY <1>0, <1>1, <1>2, <1>8, <1>10, <2>1, <3>1, ShowStep DEF Waiting
  <2>2. CASE Abandoned(b) /\ Quit(b, "gone") /\ row' = row
    <3>1. BusSafe({b})
      BY <1>0, <2>2, SafeMoves DEF Quit
    <3> QED
      BY <1>0, <2>2, <3>1, QuitStep DEF Shows
  <2>3. CASE Abandoned(b) /\ row' = interrupted /\ Show(b, interrupted)
    <3>1. BusSafe({b})
      BY <1>0, <2>3, ShowSafe, SafeMoves
    <3> QED
      BY <1>0, <1>1, <1>3, <1>7, <1>10, <2>3, <3>1, ShowStep DEF Waiting
  <2> QED
    BY <1>4, <2>1, <2>2, <2>3
<1>12. ViewOk(b)'
  BY <1>11, ViewOkNow DEF Waiting
<1>13. row' = row \/ (Abandoned(b) /\ LacksReply(row'))
  BY <1>4, <1>5
<1>14. HistoryKept
  BY <1>0, <1>7, <1>13 DEF HistoryKept, TurnOk
<1>15. TurnOk'
  <2>1. CASE row' = row
    BY <1>1, <1>9, <2>1, TurnOkKept
  <2>2. CASE Abandoned(b) /\ LacksReply(row')
    BY <1>0, <1>1, <1>6, <1>7, <1>10, <2>2 DEF TurnOk, LacksReply, HasReply
  <2> QED
    BY <1>13, <2>1, <2>2
<1>16. Heralds'
  <2>1. Heralds /\ \A c \in Browsers \ {b} : view'[c] = view[c]
    BY <1>11, CalmFacts DEF ViewStep
  <2>2. view'[Sender].pc \in {"off", "sending"} => pipe' = "none"
    BY <1>1, <1>11, <2>1, HandlesApart DEF Heralds
  <2>3. turn'.ended \/ turn'.told \/ turn'.failed => PipeDone'
    BY <1>1, <2>1 DEF Heralds, PipeDone
  <2> QED
    BY <1>1, <1>9, <2>2, <2>3, HeraldsKept
<1>17. \A c \in Browsers \ {b} : view'[c] = view[c]
  BY <1>11 DEF ViewStep
<1> QED
  BY <1>1, <1>9, <1>11, <1>12, <1>14, <1>15, <1>16, <1>17, BrowserCalm

LEMMA InjectCalm ==
  ASSUME Calm, Inject
  PROVE  ReplyInv' /\ HistoryKept
<1>0. ChatInv /\ AllServed /\ Heralds /\ TurnOk /\ Sender \in Browsers /\ Sender \in Subs
  BY CalmFacts, HandlesApart
<1>1. /\ view[Sender].pc = "sending"
      /\ UNCHANGED <<kind, responses, row, past>>
  BY DEF Inject
<1>2. pipe = "none" /\ ~PipeDone
  BY <1>0, <1>1 DEF Heralds, PipeDone
<1>3. Onwards
  BY <1>1, <1>2 DEF Onwards
<1>4. \/ Show(Sender, NoRow) /\ turn' = turn
      \/ /\ pipe' = "over" /\ Quit(Sender, "gone")
         /\ turn' = [turn EXCEPT !.failed = TRUE]
  BY Zenon DEF Inject
<1>5. /\ BusSafe({Sender}) /\ ViewStep(Sender)
      /\ view'[Sender].pc \in {"top", "ended"} /\ view'[Sender].shown # "end"
  <2>1. CASE Show(Sender, NoRow)
    <3>1. BusSafe({Sender}) /\ ~LacksReply(NoRow)
      BY <1>0, <2>1, ShowSafe, SafeMoves, NoRowFacts DEF LacksReply
    <3> QED
      BY <1>0, <1>1, <2>1, <3>1, ShowStep, NoRowFacts DEF Waiting
  <2>2. CASE Quit(Sender, "gone")
    <3>1. BusSafe({Sender})
      BY <1>0, <2>2, SafeMoves DEF Quit
    <3> QED
      BY <1>0, <2>2, <3>1, QuitStep DEF Shows
  <2> QED
    BY <1>4, <2>1, <2>2
<1>6. ViewOk(Sender)' /\ \A c \in Browsers \ {Sender} : view'[c] = view[c]
  BY <1>5, ViewOkNow DEF Waiting, ViewStep
<1>7. /\ turn'.pc = turn.pc /\ turn'.seq = turn.seq /\ turn'.reply = turn.reply
      /\ turn' = turn \/ PipeDone'
  <2>1. ASSUME NEW t \in Turns, NEW x \in BOOLEAN
        PROVE  LET u == [t EXCEPT !.failed = x]
               IN  u.pc = t.pc /\ u.seq = t.seq /\ u.reply = t.reply
    BY DEF Turns
  <2>2. turn \in Turns /\ TRUE \in BOOLEAN
    BY <1>0, TurnTyped
  <2>3. turn' = turn \/ pipe' = "over"
    BY Zenon, <1>4
  <2>4. turn'.pc = turn.pc /\ turn'.seq = turn.seq /\ turn'.reply = turn.reply
    BY Zenon, <1>4, <2>1, <2>2
  <2> QED
    BY <2>3, <2>4 DEF PipeDone
<1> HIDE <1>4
<1>8. TurnOk'
  BY <1>1, <1>3, <1>7, TurnOkKept
<1>9. Heralds'
  <2>1. turn'.ended \/ turn'.told \/ turn'.failed => PipeDone'
    BY <1>0, <1>2, <1>7 DEF Heralds
  <2> QED
    BY <1>1, <1>3, <1>5, <1>7, <2>1, HeraldsKept
<1> QED
  BY <1>0, <1>1, <1>3, <1>5, <1>6, <1>7, <1>8, <1>9, BrowserCalm DEF HistoryKept

LEMMA TopCalm ==
  ASSUME Calm, NEW b \in Browsers, Top(b)
  PROVE  ReplyInv' /\ HistoryKept
<1> DEFINE v == [view[b] EXCEPT !.pc = "select"]
           what == Told(row.state = "final" /\ row.reply)
<1>0. ChatInv /\ AllServed /\ b \in Subs
  BY CalmFacts, HandlesApart
<1>1. view[b].pc = "top" /\ UNCHANGED <<kind, pipe, responses, turn, row, past>>
  BY DEF Top
<1>2. /\ v \in Views /\ v.pc = "select" /\ v.shown = view[b].shown /\ v.cursor = view[b].cursor
  BY <1>0, ViewTyped DEF Views
<1>3. \/ Quit(b, "recover")
      \/ (Quit(b, what) /\ ~Managed)
      \/ (Step(b, v) /\ UNCHANGED vars)
  BY Zenon DEF Top
<1>4. what \in Shows /\ view[b].shown = "nothing" /\ (what = "end" => ~HasReply(row))
  BY <1>0, <1>1, ViewTyped DEF Told, Shows, BrowserOk, HasReply
<1> HIDE DEF v, what
<1>5. CASE Quit(b, "recover")
  BY <1>1, <1>5, EndsCalm DEF Shows
<1>6. CASE Quit(b, what) /\ ~Managed
  <2>1. turn.pc = "over"
    BY <1>0, <1>1, <1>6, NotAtDawn, CalmFacts DEF Managed
  <2>2. what = "end" => PipeDone /\ Lost
    BY <1>4, <2>1, RowTells
  <2> QED
    BY <1>1, <1>4, <1>6, <2>2, EndsCalm
<1>7. CASE Step(b, v) /\ UNCHANGED vars
  <2>1. ViewStep(b) /\ view'[b] = v
    BY <1>0, <1>1, <1>2, <1>4, <1>7, GoesOn DEF Waiting, Watching
  <2>2. BusSafe({b})
    BY <1>0, <1>7, SafeMoves
  <2> QED
    BY <1>1, <1>2, <2>1, <2>2, GoesCalm DEF Watching
<1> QED
  BY <1>3, <1>5, <1>6, <1>7

\* What is in a channel is in the log.
LEMMA HeadLogged ==
  ASSUME ChatInv, NEW s \in Subs, ~Free(s), sub[s].ch # <<>>
  PROVE  Head(sub[s].ch) \in 1 .. Len(log) /\ Len(kind) = Len(log)
<1>1. sub[s].ch \in Seq(Nat) /\ InOrder(sub[s].ch) /\ Range(sub[s].ch) = Due(s)
  BY OpenOnes DEF ChatInv, BusInv, Streams, StreamFits, Subscription
<1>2. Head(sub[s].ch) \in Due(s)
  BY <1>1, HeadAndTail
<1>3. Limit(s) <= Len(log) /\ Limit(s) \in Nat /\ Len(log) \in Nat
  BY TurnTyped DEF ChatInv, Streams, StreamFits, Limit
<1>4. Head(sub[s].ch) \in 1 .. Limit(s)
  BY <1>2 DEF Due
<1> QED
  BY <1>3, <1>4, Unbothered

LEMMA WatchCalm ==
  ASSUME Calm, NEW b \in Browsers, Watch(b)
  PROVE  ReplyInv' /\ HistoryKept
<1> DEFINE n == Head(sub[b].ch)
           v == [[view[b] EXCEPT !.pc = "top", !.cursor = IF n > @ THEN n ELSE @]
                   EXCEPT !.pending = @ \/ (n > view[b].cursor /\ kind[n] \in Terminal)]
<1>0. ChatInv /\ AllServed /\ Heralds /\ b \in Subs
  BY CalmFacts, HandlesApart
<1>1. /\ view[b].pc = "select" /\ sub[b].ch # <<>>
      /\ UNCHANGED <<kind, pipe, responses, turn, row, past>>
  BY DEF Watch
<1>2. ~Free(b)
  BY <1>0, <1>1, ViewTyped DEF BrowserOk, Watching
<1>3. n \in 1 .. Len(kind)
  BY <1>0, <1>1, <1>2, HeadLogged
<1>4. \/ kind[n] = "final" /\ Quit(b, Told(turn.reply))
      \/ Receive(b) /\ Step(b, v)
  BY Zenon DEF Watch
<1>5. CASE kind[n] = "final" /\ Quit(b, Told(turn.reply))
  <2>1. turn.pc \in {"leave", "over"}
    BY <1>0, <1>3, <1>5 DEF Heralds
  <2>2. Told(turn.reply) \in Shows /\ (Told(turn.reply) = "end" => PipeDone /\ Lost)
    BY <2>1, RowTells DEF Told, Shows
  <2> QED
    BY <1>1, <1>5, <2>2, EndsCalm
<1>6. CASE Receive(b) /\ Step(b, v)
  <2>1. BusSafe({b})
    BY <1>0, <1>6, SafeMoves
  <2>2. n \in Nat /\ view[b] \in Views /\ view[b].cursor \in Nat
    BY <1>0, <1>3, ViewTyped
  <2> DEFINE k == IF n > view[b].cursor THEN n ELSE view[b].cursor
             more == view[b].pending \/ (n > view[b].cursor /\ kind[n] \in Terminal)
  <2>3. k \in Nat /\ n <= k /\ more \in BOOLEAN
    BY <1>0, <2>2, ViewTyped
  <2>4. v = [view[b] EXCEPT !.pc = "top", !.cursor = k, !.pending = more]
    BY DEF k, more
  <2> HIDE DEF n, k, more
  <2>5. v \in Views /\ v.pc = "top"
    BY <2>2, <2>3, <2>4 DEF Views
  <2> HIDE DEF v
  <2>6. /\ view'[b] = v /\ \A c \in Browsers \ {b} : view'[c] = view[c]
    BY <1>0, <1>6, <2>5, StepFacts, TurnTyped
  <2>7. ChatInv'
    BY <1>0, WatchStep
  <2>8. BrowserOk(b)' /\ view' \in [Browsers -> Views]
    BY <2>7 DEF ChatInv, ChatType
  <2>9. BusKept /\ Others({b}) /\ log' = log
    <3>1. sub[b].topic = Chat
      BY <1>0, <1>1, ViewTyped DEF BrowserOk, Watching
    <3> QED
      BY <1>0, <1>6, <3>1, ReceiveKept
  <2> QED
    BY <1>1, <2>1, <2>5, <2>6, <2>8, <2>9, GoesCalm DEF ViewStep, Watching
<1> QED
  BY <1>4, <1>5, <1>6

LEMMA BeatCalm ==
  ASSUME Calm, NEW b \in Browsers, Beat(b)
  PROVE  ReplyInv' /\ HistoryKept
<1> DEFINE v == [view[b] EXCEPT !.pc = "top"]
<1>0. ChatInv /\ AllServed /\ b \in Subs
  BY CalmFacts, HandlesApart
<1>1. view[b].pc = "select" /\ UNCHANGED <<kind, pipe, responses, turn, row, past>>
  BY DEF Beat
<1>2. /\ v \in Views /\ v.pc = "top" /\ v.shown = view[b].shown /\ v.cursor = view[b].cursor
  BY <1>0, ViewTyped DEF Views
<1>3. Quit(b, "recover") \/ (Step(b, v) /\ UNCHANGED vars)
  BY Zenon DEF Beat
<1>4. view[b].shown = "nothing"
  BY <1>0, <1>1, ViewTyped DEF BrowserOk
<1> HIDE DEF v
<1>5. CASE Quit(b, "recover")
  BY <1>1, <1>5, EndsCalm DEF Shows
<1>6. CASE Step(b, v) /\ UNCHANGED vars
  <2>1. ViewStep(b) /\ view'[b] = v
    BY <1>0, <1>1, <1>2, <1>4, <1>6, GoesOn DEF Waiting, Watching
  <2>2. BusSafe({b})
    BY <1>0, <1>6, SafeMoves
  <2> QED
    BY <1>1, <1>2, <2>1, <2>2, GoesCalm DEF Watching
<1> QED
  BY <1>3, <1>5, <1>6

LEMMA DisconnectCalm ==
  ASSUME Calm, NEW b \in Browsers, Disconnect(b)
  PROVE  ReplyInv' /\ HistoryKept
<1>1. /\ view[b].pc = "select" /\ Quit(b, "left") /\ "left" \in Shows
      /\ UNCHANGED <<kind, pipe, responses, turn, row, past>>
  BY DEF Disconnect, Shows
<1> QED
  BY <1>1, EndsCalm

-----------------------------------------------------------------------------
(***************************************************************************)
(* The steps of the worker and of the bus.                                 *)
(***************************************************************************)
LEMMA EmitsCalm ==
  ASSUME Calm, NEW t \in Traces, NEW k \in Kinds, Emit(t, k), k # "final",
         UNCHANGED <<responses, turn, row, view, past>>, PipeDone => PipeDone',
         k \in Terminal => PipeDone',
         view[Sender].pc \in {"off", "sending"} => pipe' = "none"
  PROVE  ReplyInv' /\ HistoryKept
<1>0. ChatInv /\ AllServed /\ Heralds
  BY CalmFacts
<1>1. responses' = responses /\ turn' = turn /\ row' = row /\ view' = view /\ past' = past
  OBVIOUS
<1>2. BusSafe({}) /\ kind' = Append(kind, k)
  BY <1>0, EmitSafe
<1>3. Onwards
  BY <1>1, PastKept
<1>4. TurnOk'
  BY <1>1, <1>3, TurnOkKept
<1>5. Heralds'
  <2>1. turn'.ended \/ turn'.told \/ turn'.failed => PipeDone'
    BY <1>0, <1>1 DEF Heralds
  <2> QED
    BY <1>1, <1>2, <1>3, <2>1, HeraldsKept
<1> QED
  BY <1>1, <1>2, <1>3, <1>4, <1>5, OthersCalm DEF HistoryKept

LEMMA WorkCalm ==
  ASSUME Calm, Begin \/ Delta \/ Terminate \/ Noise
  PROVE  ReplyInv' /\ HistoryKept
<1>0. ChatInv /\ Heralds /\ Chat \in Traces
  BY CalmFacts, KindsAre
<1>1. CASE Begin
  <2>1. /\ "begin" \in Kinds /\ "begin" \notin Terminal /\ ~PipeDone
        /\ view[Sender].pc \notin {"off", "sending"}
    BY <1>0, <1>1, KindsAre DEF Begin, Terminal, PipeDone, Heralds
  <2> QED
    BY <1>0, <1>1, <2>1, EmitsCalm DEF Begin
<1>2. CASE Delta
  <2>1. /\ "delta" \in Kinds /\ "delta" \notin Terminal /\ ~PipeDone
        /\ view[Sender].pc \notin {"off", "sending"}
    BY <1>0, <1>2, KindsAre DEF Delta, Terminal, PipeDone, Heralds
  <2> QED
    BY <1>0, <1>2, <2>1, EmitsCalm DEF Delta
<1>3. CASE Terminate
  <2>1. PICK k \in Terminal : Emit(Chat, k) /\ pipe \in {"running", "replied"}
    BY <1>3 DEF Terminate
  <2>2. k \in Kinds /\ k # "final" /\ PipeDone' /\ view[Sender].pc \notin {"off", "sending"}
    BY <1>0, <1>3, <2>1, KindsAre DEF Terminate, Terminal, PipeDone, Heralds
  <2> QED
    BY <1>0, <1>3, <2>1, <2>2, EmitsCalm DEF Terminate
<1>4. CASE Noise
  <2>1. PICK t \in Traces \ {Chat} : Emit(t, "noise")
    BY <1>4 DEF Noise
  <2>2. /\ "noise" \in Kinds /\ "noise" \notin Terminal /\ pipe' = pipe
        /\ view[Sender].pc \in {"off", "sending"} => pipe' = "none"
        /\ PipeDone => PipeDone'
    BY <1>0, <1>4, KindsAre DEF Noise, Terminal, Heralds, PipeDone
  <2> QED
    BY <1>0, <1>4, <2>1, <2>2, EmitsCalm DEF Noise
<1> QED
  BY <1>1, <1>2, <1>3, <1>4

\* A step that leaves the bus and the browsers alone.
LEMMA QuietCalm ==
  ASSUME Calm, UNCHANGED <<vars, kind, view>>, Onwards, TurnOk',
         turn'.ended \/ turn'.told \/ turn'.failed => PipeDone',
         view[Sender].pc \in {"off", "sending"} => pipe' = "none",
         turn'.pc \in {"leave", "over"} <=> turn.pc \in {"leave", "over"}
  PROVE  ReplyInv'
<1>1. UNCHANGED vars /\ kind' = kind /\ view' = view
  OBVIOUS
<1>2. BusSafe({})
  BY <1>1, CalmFacts, IdleSafe
<1>3. Heralds'
  BY <1>1, HeraldsKept
<1> QED
  BY <1>1, <1>2, <1>3, OthersCalm

LEMMA ReplyCalm ==
  ASSUME Calm, Reply
  PROVE  ReplyInv' /\ HistoryKept
<1>0. ChatInv /\ Heralds /\ TurnOk
  BY CalmFacts
<1>1. /\ UNCHANGED <<vars, kind, view>> /\ turn' = turn /\ pipe = "running" /\ pipe' = "replied"
      /\ past' = past \cup {"reply"}
  BY DEF Reply
<1>2. ~PipeDone /\ turn.pc = "run" /\ responses.open
  BY <1>0, <1>1, TurnTyped, CalmFacts DEF PipeDone, TurnOk, Dawn
<1>3. row' = row /\ responses' = [responses EXCEPT !.replies = @ + 1]
  BY Zenon, <1>2 DEF Reply
<1>4. responses'.open /\ responses'.replies > 0
  BY <1>0, <1>2, <1>3, TurnTyped
<1> HIDE <1>3
<1>5. Onwards
  BY <1>1, <1>2 DEF Onwards
<1>6. TurnOk'
  <2>1. row' = row
    BY <1>3
  <2>2. "db" \notin past /\ row.state # "final" /\ row.seq <= turn.seq
    BY <1>0, <1>2 DEF TurnOk
  <2> QED
    BY <1>1, <1>2, <1>4, <2>1, <2>2 DEF TurnOk
<1>7. /\ turn'.ended \/ turn'.told \/ turn'.failed => PipeDone'
      /\ view[Sender].pc \in {"off", "sending"} => pipe' = "none"
  BY <1>0, <1>1, <1>2 DEF Heralds
<1> QED
  BY <1>1, <1>3, <1>5, <1>6, <1>7, QuietCalm DEF HistoryKept

\* A flag of the turn's record that is set or cleared.
Flagged(u, t) == u.pc = t.pc /\ u.seq = t.seq /\ u.reply = t.reply

LEMMA FlaggedFacts ==
  ASSUME NEW t \in Turns, NEW x \in BOOLEAN
  PROVE  Flagged([t EXCEPT !.ended = x], t) /\ Flagged([t EXCEPT !.told = x], t)
<1>1. Flagged([t EXCEPT !.ended = x], t)
  BY DEF Flagged, Turns
<1>2. Flagged([t EXCEPT !.told = x], t)
  BY DEF Flagged, Turns
<1> QED
  BY Zenon, <1>1, <1>2

LEMMA ReportCalm ==
  ASSUME Calm, Report
  PROVE  ReplyInv' /\ HistoryKept
<1>0. ChatInv /\ Heralds /\ turn \in Turns /\ TRUE \in BOOLEAN
  BY CalmFacts, TurnTyped
<1>1. /\ UNCHANGED <<vars, kind, view>> /\ pipe = "ended" /\ pipe' = "over"
      /\ past' = past /\ row' = row /\ responses' = responses
  BY DEF Report
<1>2. Flagged(turn', turn)
  <2>1. turn' = turn \/ turn' = [turn EXCEPT !.ended = TRUE]
    BY Zenon DEF Report
  <2>2. Flagged(turn, turn)
    BY DEF Flagged
  <2> QED
    BY Zenon, <1>0, <2>1, <2>2, FlaggedFacts
<1>3. PipeDone' /\ Onwards /\ view[Sender].pc \notin {"off", "sending"}
  BY <1>0, <1>1, PastKept DEF PipeDone, Heralds
<1>4. TurnOk'
  BY <1>1, <1>2, <1>3, TurnOkKept DEF Flagged
<1> QED
  BY <1>1, <1>2, <1>3, <1>4, QuietCalm DEF HistoryKept, Flagged

LEMMA ExpireCalm ==
  ASSUME Calm, ChatExpire
  PROVE  ReplyInv' /\ HistoryKept
<1>0. ChatInv /\ AllServed /\ Heralds
  BY CalmFacts
<1>1. /\ Expire /\ kind' = kind /\ pipe' = pipe /\ responses' = responses /\ turn' = turn
      /\ row' = row /\ view' = view /\ past' = past
  BY DEF ChatExpire, chatVars
<1>2. BusSafe({}) /\ Onwards
  BY <1>0, <1>1, ExpireSafe, PastKept DEF PipeDone
<1>3. TurnOk'
  BY <1>1, <1>2, TurnOkKept
<1>4. Heralds'
  BY <1>0, <1>1 DEF Heralds, PipeDone
<1> QED
  BY <1>1, <1>2, <1>3, <1>4, OthersCalm DEF HistoryKept

LEMMA StutterCalm ==
  ASSUME Calm, UNCHANGED allVars
  PROVE  ReplyInv' /\ HistoryKept
<1>0. ChatInv /\ AllServed /\ Heralds
  BY CalmFacts
<1>1. /\ UNCHANGED vars /\ kind' = kind /\ pipe' = pipe /\ responses' = responses
      /\ turn' = turn /\ row' = row /\ view' = view /\ past' = past
  BY DEF allVars, chatVars
<1>2. BusSafe({}) /\ Onwards
  BY <1>0, <1>1, IdleSafe, PastKept DEF PipeDone
<1>3. TurnOk'
  BY <1>1, <1>2, TurnOkKept
<1>4. Heralds'
  BY <1>0, <1>1 DEF Heralds, PipeDone
<1> QED
  BY <1>1, <1>2, <1>3, <1>4, OthersCalm DEF HistoryKept

-----------------------------------------------------------------------------
(***************************************************************************)
(* The steps of the collector.                                             *)
(***************************************************************************)
\* A draft of the row leaves it a draft, no newer than its cursor.
LEMMA DraftSaved ==
  ASSUME row \in Rows, row.state # "final", NEW seq \in Nat, NEW x \in BOOLEAN, NEW y \in BOOLEAN,
         row.seq <= seq, x
  PROVE  /\ Upserted(x, seq, y).state # "final"
         /\ Upserted(x, seq, y).seq <= seq
  BY DEF Upserted, Accepts, Rows

\* The collector has heard of the end only when it has come.
LEMMA RunFacts ==
  ASSUME Calm, turn.pc = "run"
  PROVE  /\ turn \in Turns /\ row \in Rows /\ responses.open /\ row.state # "final"
         /\ row.seq <= turn.seq /\ turn.seq \in Nat /\ row.seq \in Nat /\ "db" \notin past
         /\ "reply" \in past => turn.reply \/ responses.replies > 0
         /\ turn.ended \/ turn.told \/ turn.failed => PipeDone
         /\ view[Sender].pc \in {"off", "sending"} => pipe = "none"
         /\ ~Free(Collector) /\ Collector \in Subs /\ turn.seq <= sub[Collector].pos
         /\ ChatInv /\ AllServed
  BY CalmFacts, TurnTyped, HandlesApart DEF TurnOk, Heralds, CollectorOk

LEMMA FlushCalm ==
  ASSUME Calm, Flush
  PROVE  ReplyInv' /\ HistoryKept
<1>1. /\ UNCHANGED <<vars, kind, view>> /\ pipe' = pipe /\ turn' = turn /\ past' = past
      /\ responses' = responses /\ turn.pc = "run"
  BY DEF Flush, Selecting
<1>2. row' = Upserted(TRUE, turn.seq, FALSE) /\ TRUE \in BOOLEAN /\ FALSE \in BOOLEAN
  BY Zenon DEF Flush
<1>3. row'.state # "final" /\ row'.seq <= turn.seq
  BY Zenon, <1>1, <1>2, RunFacts, DraftSaved
<1>4. Onwards
  BY <1>1, PastKept DEF PipeDone
<1> HIDE <1>2
<1>5. TurnOk'
  BY <1>1, <1>3, <1>4, RunFacts DEF TurnOk
<1> QED
  BY <1>1, <1>4, <1>5, RunFacts, QuietCalm DEF HistoryKept, HasReply, PipeDone

LEMMA TakeReplyCalm ==
  ASSUME Calm, TakeReply
  PROVE  ReplyInv' /\ HistoryKept
<1>1. /\ UNCHANGED <<vars, kind, view>> /\ pipe' = pipe /\ row' = row /\ past' = past
      /\ turn.pc = "run"
  BY DEF TakeReply, Selecting
<1>2. /\ turn'.pc = turn.pc /\ turn'.seq = turn.seq /\ turn'.ended = turn.ended
      /\ turn'.told = turn.told /\ turn'.failed = turn.failed /\ turn'.reply
  <2>1. ASSUME NEW t \in Turns, NEW x \in BOOLEAN
        PROVE  LET u == [t EXCEPT !.reply = x]
               IN  /\ u.pc = t.pc /\ u.seq = t.seq /\ u.ended = t.ended
                   /\ u.told = t.told /\ u.failed = t.failed /\ u.reply = x
    BY DEF Turns
  <2>2. turn' = [turn EXCEPT !.reply = TRUE] /\ turn \in Turns /\ TRUE \in BOOLEAN
    BY Zenon, <1>1, RunFacts DEF TakeReply
  <2> QED
    BY Zenon, <2>1, <2>2
<1>3. responses'.open
  <2>1. responses' = [responses EXCEPT !.replies = @ - 1]
    BY Zenon DEF TakeReply
  <2> QED
    BY <1>1, <2>1, RunFacts, Unbothered DEF Responses
<1>4. Onwards
  BY <1>1, PastKept DEF PipeDone
<1>5. TurnOk'
  BY <1>1, <1>2, <1>3, <1>4, RunFacts DEF TurnOk
<1> QED
  BY <1>1, <1>2, <1>4, <1>5, RunFacts, QuietCalm DEF HistoryKept, PipeDone

LEMMA TakeEndCalm ==
  ASSUME Calm, TakeEnd
  PROVE  ReplyInv' /\ HistoryKept
<1>1. /\ UNCHANGED <<vars, kind, view>> /\ pipe' = pipe /\ row' = row /\ past' = past
      /\ turn.pc = "run" /\ turn.ended /\ responses' = responses
  BY DEF TakeEnd, Selecting
<1>2. Flagged(turn', turn)
  <2>1. turn \in Turns /\ TRUE \in BOOLEAN /\ FALSE \in BOOLEAN
    BY <1>1, RunFacts
  <2>2. turn' = [[turn EXCEPT !.ended = FALSE] EXCEPT !.told = TRUE]
    BY Zenon DEF TakeEnd
  <2>3. PICK u : u = [turn EXCEPT !.ended = FALSE]
    OBVIOUS
  <2>4. u \in Turns
    BY Zenon, <2>1, <2>3, FlagsAlike DEF Alike
  <2>5. Flagged(u, turn) /\ Flagged(turn', u)
    BY Zenon, <2>1, <2>2, <2>3, <2>4, FlaggedFacts
  <2> QED
    BY Zenon, <2>5 DEF Flagged
<1>3. Onwards /\ PipeDone'
  BY <1>1, PastKept, RunFacts DEF PipeDone
<1>4. TurnOk'
  BY <1>1, <1>2, <1>3, TurnOkKept DEF Flagged
<1> QED
  BY <1>1, <1>2, <1>3, <1>4, RunFacts, QuietCalm DEF HistoryKept, Flagged

\* The turn is finished: the row has the reply, unless it cannot be written.
LEMMA FinalSaved ==
  ASSUME row \in Rows, row.state # "final", NEW seq \in Nat, NEW x \in BOOLEAN, NEW y \in BOOLEAN,
         row.seq <= seq, ~x
  PROVE  Upserted(x, seq, y).state = "final" /\ Upserted(x, seq, y).reply = y
  BY DEF Upserted, Accepts, Rows

LEMMA FinishCalm ==
  ASSUME Calm, turn.pc = "run", NEW seq \in Nat, turn.seq <= seq, Finish(seq), PipeDone,
         pipe' = pipe
  PROVE  /\ TurnOk' /\ Onwards /\ turn'.pc = "announce" /\ HistoryKept
         /\ turn'.ended \/ turn'.told \/ turn'.failed => PipeDone'
<1> DEFINE reply == turn.reply \/ responses.replies > 0
<1>0. PipeDone' /\ reply \in BOOLEAN /\ ("reply" \in past => reply)
  BY RunFacts, TurnTyped DEF PipeDone
<1>1. turn' = [turn EXCEPT !.pc = "announce", !.seq = seq, !.reply = reply]
  BY Zenon DEF Finish
<1>2. \/ row' = Upserted(FALSE, seq, reply) /\ past' = past
      \/ row' = row /\ past' = past \cup {"db"}
  BY Zenon DEF Finish
<1>3. FALSE \in BOOLEAN /\ row \in Rows /\ row.state # "final" /\ row.seq <= seq /\ "db" \notin past
  BY RunFacts
<1> HIDE DEF reply
<1>4. turn'.pc = "announce" /\ turn'.reply = reply
  <2>1. ASSUME NEW t \in Turns, NEW x \in BOOLEAN
        PROVE  LET u == [t EXCEPT !.pc = "announce", !.seq = seq, !.reply = x]
               IN  u.pc = "announce" /\ u.reply = x
    BY DEF Turns
  <2> QED
    BY Zenon, <1>0, <1>1, <2>1, RunFacts
<1>5. \/ row'.state = "final" /\ row'.reply = reply /\ past' = past
      \/ row' = row /\ past' = past \cup {"db"}
  BY Zenon, <1>0, <1>2, <1>3, FinalSaved
<1> HIDE <1>1, <1>2
<1>6. Onwards
  BY <1>0, <1>5 DEF Onwards
<1>7. TurnOk'
  BY <1>0, <1>3, <1>4, <1>5 DEF TurnOk, HasReply
<1> QED
  BY <1>0, <1>3, <1>4, <1>6, <1>7 DEF HistoryKept, HasReply

LEMMA EmptyCalm ==
  ASSUME Calm, Fallback \/ GiveUp
  PROVE  ReplyInv' /\ HistoryKept
<1>1. /\ turn.pc = "run" /\ Finish(turn.seq) /\ UNCHANGED <<vars, kind, view>> /\ pipe' = pipe
  BY Zenon DEF Fallback, GiveUp, Selecting
<1>2. PipeDone
  <2>1. turn.told \/ turn.failed
    BY <1>1, RunFacts DEF Fallback, FallbackDue, GiveUp, AllServed
  <2> QED
    BY <1>1, <2>1, RunFacts
<1>3. turn.seq \in Nat /\ turn.seq <= turn.seq
  BY <1>1, RunFacts
<1>4. /\ TurnOk' /\ Onwards /\ turn'.pc = "announce" /\ HistoryKept
      /\ turn'.ended \/ turn'.told \/ turn'.failed => PipeDone'
  BY <1>1, <1>2, <1>3, FinishCalm
<1> QED
  BY <1>1, <1>4, RunFacts, QuietCalm

LEMMA TakeEventCalm ==
  ASSUME Calm, TakeEvent
  PROVE  ReplyInv' /\ HistoryKept
<1> DEFINE n == Head(sub[Collector].ch)
<1>1. /\ turn.pc = "run" /\ Receive(Collector) /\ kind' = kind /\ pipe' = pipe /\ view' = view
  BY Zenon DEF TakeEvent, Selecting
<1>2. sub[Collector].ch # <<>> /\ sub[Collector].topic = Chat /\ Heralds
  BY <1>1, RunFacts, CalmFacts, TurnTyped DEF Receive, CollectorOk
<1>3. n \in 1 .. Len(kind) /\ n \in Nat
  BY <1>1, <1>2, RunFacts, HeadLogged
<1>4. turn.seq <= n
  <2>1. sub[Collector].pos < n
    BY <1>1, <1>2, RunFacts, ReceiveKept
  <2> QED
    BY <1>1, <1>3, <2>1, RunFacts, HeldFacts
<1>5. BusSafe({Collector})
  BY <1>1, RunFacts, ReceiveSafe
<1>6. CASE kind[n] \in Terminal
  <2>1. Finish(n)
    BY Zenon, <1>6 DEF TakeEvent
  <2>2. PipeDone
    BY <1>2, <1>3, <1>6 DEF Heralds
  <2> HIDE DEF n
  <2>3. /\ TurnOk' /\ Onwards /\ turn'.pc = "announce" /\ HistoryKept
        /\ turn'.ended \/ turn'.told \/ turn'.failed => PipeDone'
    BY <1>1, <1>3, <1>4, <2>1, <2>2, FinishCalm
  <2>4. Heralds'
    BY <1>1, <2>3, RunFacts, HeraldsKept
  <2> QED
    BY <1>1, <1>5, <2>3, <2>4, OthersCalm
<1>7. CASE kind[n] \notin Terminal
  <2>1. turn' = [turn EXCEPT !.seq = n] /\ responses' = responses /\ past' = past
    BY Zenon, <1>7 DEF TakeEvent
  <2>2. row' = row \/ row' = Upserted(TRUE, n, FALSE)
    BY Zenon, <1>7 DEF TakeEvent
  <2>3. TRUE \in BOOLEAN /\ FALSE \in BOOLEAN /\ row.seq <= n
    BY <1>1, <1>3, <1>4, RunFacts
  <2> HIDE DEF n
  <2>4. row'.state # "final" /\ row'.seq <= n
    <3>1. Upserted(TRUE, n, FALSE).state # "final" /\ Upserted(TRUE, n, FALSE).seq <= n
      BY Zenon, <1>1, <1>3, <2>3, RunFacts, DraftSaved
    <3>2. row.state # "final"
      BY <1>1, RunFacts
    <3> QED
      BY Zenon, <2>2, <2>3, <3>1, <3>2
  <2> HIDE <2>2
  <2>5. /\ turn'.pc = "run" /\ turn'.seq = n /\ turn'.reply = turn.reply
        /\ turn'.ended = turn.ended /\ turn'.told = turn.told /\ turn'.failed = turn.failed
    BY <1>1, <1>3, <2>1, RunFacts DEF Turns
  <2>6. responses' = responses /\ past' = past
    BY <2>1
  <2> HIDE <2>1
  <2>7. Onwards
    BY <1>1, <2>6, PastKept DEF PipeDone
  <2>8. TurnOk'
    BY <1>1, <2>4, <2>5, <2>6, RunFacts DEF TurnOk
  <2>9. Heralds'
    BY <1>1, <2>5, <2>7, RunFacts, HeraldsKept DEF PipeDone
  <2> QED
    BY <1>1, <1>5, <2>5, <2>7, <2>8, <2>9, RunFacts, OthersCalm DEF HistoryKept, HasReply
<1> QED
  BY <1>6, <1>7

LEMMA RecoverCalm ==
  ASSUME Roomy, Calm, Recover
  PROVE  ReplyInv' /\ HistoryKept
<1> DEFINE more == turn.incomplete \/ turn.seq < sub'[Collector].after
<1>1. /\ turn.pc = "run" /\ kind' = kind /\ pipe' = pipe /\ row' = row /\ view' = view
      /\ past' = past /\ responses' = responses /\ sub[Collector].state = "overflowed"
      /\ turn' = [turn EXCEPT !.incomplete = more]
  BY Zenon DEF Recover, Selecting
<1>2. /\ Collector \in Subs /\ Collector \notin Registered /\ ChatInv /\ AllServed
      /\ turn.seq \in 0 .. Len(log)
  BY <1>1, RunFacts, HeldFacts DEF Registered
<1>3. PICK fresh \in BOOLEAN, replay \in BOOLEAN, since \in 0 .. Len(log) :
        /\ fresh => Chat \notin Range(log)
        /\ Open(Collector, Chat, fresh, replay, since)
  BY Zenon, <1>2 DEF Recover
<1>4. BusSafe({Collector})
  BY <1>2, <1>3, OpenSafe
<1>5. more \in BOOLEAN
  BY <1>1, RunFacts, TurnTyped
<1> HIDE DEF more
<1>6. /\ turn'.pc = "run" /\ turn'.seq = turn.seq /\ turn'.reply = turn.reply
      /\ turn'.ended = turn.ended /\ turn'.told = turn.told /\ turn'.failed = turn.failed
  BY <1>1, <1>5, RunFacts DEF Turns
<1>7. Onwards
  BY <1>1, PastKept DEF PipeDone
<1>8. TurnOk'
  BY <1>1, <1>6, <1>7, TurnOkKept
<1>9. Heralds'
  BY <1>1, <1>6, <1>7, RunFacts, HeraldsKept DEF PipeDone
<1> QED
  BY <1>1, <1>4, <1>6, <1>7, <1>8, <1>9, OthersCalm DEF HistoryKept

LEMMA PrepareCalm ==
  ASSUME Roomy, Calm, Prepare
  PROVE  ReplyInv' /\ HistoryKept
<1>0. ChatInv /\ AllServed /\ Heralds /\ TurnOk
  BY CalmFacts
<1>1. /\ turn.pc = "none" /\ kind' = kind /\ pipe' = pipe /\ row' = row /\ view' = view
      /\ past' = past
  BY Zenon DEF Prepare
<1>2. Collector \in Subs /\ Collector \notin Registered /\ 0 \in 0 .. Len(log)
      /\ Chat \notin Range(log)
  BY <1>0, <1>1, TurnTyped, HandlesApart DEF CollectorOk, Free, Registered, Dawn
<1>3. PICK fresh \in BOOLEAN, replay \in BOOLEAN, since \in 0 .. Len(log) :
        (fresh => Chat \notin Range(log)) /\ Open(Collector, Chat, fresh, replay, since)
  BY Zenon, <1>2 DEF Prepare
<1>4. BusSafe({Collector})
  BY <1>0, <1>2, <1>3, OpenSafe
<1>5. responses'.open
  <2>1. responses' = [open |-> TRUE, replies |-> 0]
    BY Zenon DEF Prepare
  <2>2. ASSUME NEW x PROVE [open |-> x, replies |-> 0].open = x
    OBVIOUS
  <2> QED
    BY Zenon, <2>1, <2>2
<1>6. turn' = [turn EXCEPT !.pc = "run"]
  BY Zenon DEF Prepare
<1>7. /\ turn'.pc = "run" /\ turn'.seq = turn.seq
      /\ turn'.ended = turn.ended /\ turn'.told = turn.told /\ turn'.failed = turn.failed
  BY <1>0, <1>6, TurnTyped DEF Turns
<1> HIDE <1>6
<1>8. Onwards
  BY <1>1, PastKept DEF PipeDone
<1>9. TurnOk'
  BY <1>0, <1>1, <1>5, <1>7 DEF TurnOk
<1>10. Heralds'
  BY <1>0, <1>1, <1>7, <1>8, HeraldsKept DEF PipeDone, Heralds
<1> QED
  BY <1>1, <1>4, <1>7, <1>8, <1>9, <1>10, OthersCalm DEF HistoryKept

LEMMA AnnounceCalm ==
  ASSUME Calm, Announce
  PROVE  ReplyInv' /\ HistoryKept
<1>0. /\ ChatInv /\ AllServed /\ Heralds /\ TurnOk /\ turn \in Turns
      /\ \A b \in Browsers : ViewOk(b) /\ BrowserOk(b) /\ b \in Subs
  BY CalmFacts, TurnTyped, ViewTyped
<1>1. /\ turn.pc = "announce" /\ Emit(Chat, "final") /\ turn' = [turn EXCEPT !.pc = "leave"]
      /\ UNCHANGED <<pipe, responses, row, view, past>>
  BY Zenon DEF Announce
<1>2. /\ turn'.pc = "leave" /\ turn'.reply = turn.reply
      /\ turn'.ended = turn.ended /\ turn'.told = turn.told /\ turn'.failed = turn.failed
  BY <1>0, <1>1 DEF Turns
<1>3. /\ BusSafe({}) /\ kind' = Append(kind, "final") /\ "final" \notin Terminal
      /\ \A s \in Subs : /\ ~Free(s) /\ sub[s].topic = Chat
                         /\ sub[s].state = "overflowed" => sub[s].ch # <<>>
                         => sub'[s].ch # <<>>
  BY <1>0, <1>1, KindsAre, EmitSafe DEF Terminal
<1>4. /\ pipe' = pipe /\ responses' = responses /\ row' = row /\ view' = view /\ past' = past
  BY <1>1
<1>5. Onwards
  BY <1>4, PastKept DEF PipeDone
<1>6. ASSUME NEW b \in Browsers
      PROVE  ViewOk(b)'
  <2>1. view[b].pc = "loaded" => sub'[b].ch # <<>>
    BY <1>0, <1>3 DEF ViewOk, BrowserOk, Waiting, Watching
  <2>2. ChKept(b)
    BY <1>0, <1>3 DEF BusSafe
  <2> QED
    BY <1>4, <1>5, <2>1, <2>2, ViewOkKept
<1>7. TurnOk'
  BY <1>0, <1>1, <1>2, <1>4 DEF TurnOk, PipeDone, HasReply
<1>8. Heralds'
  BY <1>0, <1>1, <1>2, <1>3, <1>4, <1>5, KindsAre, HeraldsKept DEF Heralds, PipeDone
<1> QED
  BY <1>3, <1>4, <1>6, <1>7, <1>8 DEF ReplyInv, BusSafe, HistoryKept

LEMMA LeaveCalm ==
  ASSUME Calm, Leave
  PROVE  ReplyInv' /\ HistoryKept
<1>0. ChatInv /\ AllServed /\ Heralds /\ TurnOk
  BY CalmFacts
<1>1. /\ turn.pc = "leave" /\ Unsubscribe(Collector)
      /\ turn' = [NoTurn EXCEPT !.pc = "over", !.reply = turn.reply]
      /\ kind' = kind /\ pipe' = pipe /\ row' = row /\ view' = view /\ past' = past
  BY Zenon DEF Leave
<1>2. turn'.pc = "over" /\ turn'.reply = turn.reply
  BY Zenon, <1>0, <1>1, OverFacts, TurnTyped
<1>3. BusSafe({Collector})
  BY <1>0, <1>1, UnsubscribeSafe, HandlesApart
<1>4. PipeDone /\ PipeDone' /\ Onwards
  BY <1>0, <1>1, PastKept DEF TurnOk, PipeDone
<1>5. TurnOk'
  BY <1>0, <1>1, <1>2, <1>4 DEF TurnOk, HasReply
<1>6. Heralds'
  BY <1>0, <1>1, <1>2, <1>4, HeraldsKept DEF Heralds
<1> QED
  BY <1>1, <1>2, <1>3, <1>4, <1>5, <1>6, OthersCalm DEF HistoryKept

-----------------------------------------------------------------------------
(***************************************************************************)
(* Every step.  Once the bot is stopped the bus still serves everyone.     *)
(***************************************************************************)
LEMMA ServedStep ==
  ASSUME Roomy, ChatInv, AllServed, ChatNext
  PROVE  AllServed'
<1>0. /\ Chat \in Traces /\ Collector \in Subs /\ Sender \in Browsers /\ Browsers \subseteq Subs
      /\ \A k \in {"begin", "delta", "noise", "final"} \cup Terminal : k \in Kinds
      /\ Traces \ {Chat} \subseteq Traces /\ turn.seq \in Nat
  BY KindsAre, HandlesApart, TurnTyped
<1>1. ASSUME NEW s \in Subs, NEW fresh \in BOOLEAN, NEW replay \in BOOLEAN,
             NEW since \in 0 .. Len(log), s \notin Registered, fresh => Chat \notin Range(log),
             Open(s, Chat, fresh, replay, since)
      PROVE  AllServed'
  BY <1>1, OpenSafe DEF BusSafe
<1>2. ASSUME NEW t \in Traces, NEW k \in Kinds, Emit(t, k)
      PROVE  AllServed'
  BY <1>2, EmitSafe DEF BusSafe
<1>3. ASSUME NEW s \in Subs, Unsubscribe(s) \/ Receive(s) \/ UNCHANGED vars
      PROVE  AllServed'
  BY <1>3, SafeMoves DEF BusSafe
<1>4. ASSUME Expire PROVE AllServed'
  BY <1>4, ExpireSafe DEF BusSafe
<1>5. CASE Prepare
  <2>1. Collector \notin Registered /\ 0 \in 0 .. Len(log) /\ Chat \notin Range(log)
    BY <1>5, TurnTyped DEF Prepare, CollectorOk, Free, Registered, Dawn
  <2>2. PICK fresh \in BOOLEAN, replay \in BOOLEAN, since \in 0 .. Len(log) :
          (fresh => Chat \notin Range(log)) /\ Open(Collector, Chat, fresh, replay, since)
    BY Zenon, <1>5, <2>1 DEF Prepare
  <2> QED
    BY <1>0, <1>1, <2>1, <2>2
<1>6. CASE Recover
  <2>1. Collector \notin Registered /\ turn.seq \in 0 .. Len(log)
    BY <1>6, TurnTyped, HeldFacts, <1>0
       DEF Recover, Selecting, CollectorOk, Free, Registered
  <2>2. PICK fresh \in BOOLEAN, replay \in BOOLEAN, since \in 0 .. Len(log) :
          (fresh => Chat \notin Range(log)) /\ Open(Collector, Chat, fresh, replay, since)
    BY Zenon, <1>6, <2>1 DEF Recover
  <2> QED
    BY <1>0, <1>1, <2>1, <2>2
<1>7. ASSUME NEW b \in Browsers, view[b].pc \in {"off", "ended"}, NEW pc, Joining(b, pc)
      PROVE  AllServed'
  <2>1. b \notin Registered /\ b \in Subs /\ 0 \in 0 .. Len(log)
    BY <1>7, ViewTyped, TurnTyped DEF BrowserOk, Free, Registered, Waiting, Watching
  <2>2. PICK fresh \in BOOLEAN, replay \in BOOLEAN, since \in 0 .. Len(log) :
          (fresh => Chat \notin Range(log)) /\ Open(b, Chat, fresh, replay, since)
    BY Zenon, <1>7, <2>1 DEF Joining
  <2> QED
    BY <1>1, <2>1, <2>2
<1>8. CASE Follow
  <2>1. Joining(Sender, "sending") /\ view[Sender].pc \in {"off", "ended"}
    BY Zenon, <1>8 DEF Follow, Joining
  <2> QED
    BY <1>0, <1>7, <2>1
<1>9. ASSUME NEW b \in Browsers, Resume(b)
      PROVE  AllServed'
  <2>1. Joining(b, "subscribed")
    BY Zenon, <1>9 DEF Resume, Joining
  <2>2. view[b].pc \in {"off", "ended"}
    BY <1>9, ViewTyped DEF Resume, BrowserOk
  <2> QED
    BY <1>7, <2>1, <2>2
<1>10. ASSUME NEW b \in Browsers, NEW snap, Show(b, snap) \/ \E what : Quit(b, what)
       PROVE  AllServed'
  <2>1. Unsubscribe(b) \/ UNCHANGED vars
    BY Zenon, <1>10 DEF Show, Quit
  <2> QED
    BY <1>0, <1>3, <2>1
<1>11. CASE Inject
  BY <1>0, <1>10, <1>11 DEF Inject
<1>12. ASSUME NEW b \in Browsers, Serve(b) \/ Disconnect(b)
       PROVE  AllServed'
  <2>1. CASE Load(b)
    BY <1>0, <1>3, <2>1 DEF Load
  <2>2. CASE Start(b)
    <3>1. (\E snap : Show(b, snap)) \/ \E what : Quit(b, what)
      BY Zenon, <2>2 DEF Start
    <3> QED
      BY <1>10, <3>1
  <2>3. CASE Top(b) \/ Watch(b) \/ Beat(b) \/ Disconnect(b)
    <3>1. (\E what : Quit(b, what)) \/ Receive(b) \/ UNCHANGED vars
      BY Zenon, <2>3 DEF Top, Watch, Beat, Disconnect
    <3> QED
      BY <1>0, <1>3, <1>10, <3>1
  <2> QED
    BY <1>12, <2>1, <2>2, <2>3 DEF Serve
<1>13. CASE Begin \/ Delta \/ Terminate \/ Noise \/ Announce
  <2>1. \E t \in Traces : \E k \in Kinds : Emit(t, k)
    BY <1>0, <1>13 DEF Begin, Delta, Terminate, Noise, Announce
  <2> QED
    BY <1>2, <2>1
<1>14. CASE Reply \/ Report \/ Stop \/ Flush \/ TakeReply \/ TakeEnd \/ Fallback \/ GiveUp
  <2>1. UNCHANGED vars
    BY Zenon, <1>14 DEF Reply, Report, Stop, Flush, TakeReply, TakeEnd, Fallback, GiveUp
  <2> QED
    BY <1>0, <1>3, <2>1
<1>15. CASE TakeEvent \/ Leave
  BY <1>0, <1>3, <1>15 DEF TakeEvent, Leave
<1>16. CASE Shut \/ ChatExpire
  <2>1. ~Close
    BY DEF Close, Roomy
  <2> QED
    BY <1>4, <1>16, <2>1 DEF Shut, ChatExpire
<1> QED
  BY <1>5, <1>6, <1>8, <1>9, <1>11, <1>12, <1>13, <1>14, <1>15, <1>16
     DEF ChatNext, Send, Work, Collect

LEMMA BrowserSteps ==
  ASSUME Roomy, Calm, NEW b \in Browsers, Resume(b) \/ Serve(b) \/ Disconnect(b)
  PROVE  ReplyInv' /\ HistoryKept
<1>1. CASE Resume(b)
  <2>1. Sender \in Browsers
    BY HandlesApart
  <2>2. CASE Follow
    BY <2>1, <2>2, JoinsCalm
  <2>3. CASE ~Follow
    BY <1>1, <2>3, JoinsCalm
  <2> QED
    BY <2>2, <2>3
<1> QED
  BY <1>1, LoadCalm, StartCalm, TopCalm, WatchCalm, BeatCalm, DisconnectCalm DEF Serve

LEMMA CalmSteps ==
  ASSUME Roomy, Calm, [ChatNext]_allVars, ~Stop
  PROVE  ReplyInv' /\ HistoryKept
<1>1. ~Shut
  BY DEF Shut, Close, Roomy
<1>2. CASE UNCHANGED allVars
  BY <1>2, StutterCalm
<1>3. CASE Prepare \/ Send \/ Work \/ Delta \/ Flush \/ Noise \/ ChatExpire
  BY <1>3, HandlesApart, PrepareCalm, JoinsCalm, InjectCalm, WorkCalm, ReplyCalm, ReportCalm, FlushCalm,
     ExpireCalm DEF Send, Work
<1>4. CASE Collect
  BY <1>4, EmptyCalm, TakeEventCalm, RecoverCalm, TakeReplyCalm, TakeEndCalm, AnnounceCalm,
     LeaveCalm DEF Collect
<1>5. CASE \E b \in Browsers : Resume(b) \/ Serve(b) \/ Disconnect(b)
  BY <1>5, BrowserSteps
<1> QED
  BY <1>1, <1>2, <1>3, <1>4, <1>5 DEF ChatNext

\* A stop is not taken back.
LEMMA StopStays ==
  ASSUME ChatNext
  PROVE  past \subseteq past'
<1>1. ASSUME NEW seq, Finish(seq)
      PROVE  past \subseteq past'
  BY Zenon, <1>1 DEF Finish
<1>2. ASSUME NEW b \in Browsers, Resume(b) \/ Serve(b) \/ Disconnect(b)
      PROVE  past' = past
  BY Zenon, <1>2 DEF Resume, Serve, Load, Start, Top, Watch, Beat, Disconnect
<1>3. CASE Send \/ Work \/ Delta \/ Flush \/ Noise \/ Stop \/ Shut \/ ChatExpire \/ Prepare
  BY Zenon, <1>3 DEF Send, Follow, Inject, Work, Begin, Reply, Terminate, Report, Delta, Flush,
     Noise, Stop, Shut, ChatExpire, chatVars, Prepare
<1>4. CASE Collect
  <2>1. \/ \E seq : Finish(seq)
        \/ past' = past
    BY Zenon, <1>4 DEF Collect, Fallback, TakeEvent, Recover, GiveUp, TakeReply, TakeEnd,
       Announce, Leave
  <2> QED
    BY <1>1, <2>1
<1> QED
  BY <1>2, <1>3, <1>4 DEF ChatNext

LEMMA ReplyBegins == Roomy /\ ChatInit => ReplyInv
<1> SUFFICES ASSUME ChatInit PROVE ReplyInv
  OBVIOUS
<1>1. /\ closed = FALSE /\ \A s \in Subs : sub[s] = NoSub
      /\ kind = <<>> /\ pipe = "none" /\ turn = NoTurn /\ row = NoRow /\ past = {}
      /\ \A b \in Browsers : view[b] = NoView
  BY Zenon DEF ChatInit, Init
<1>2. AllServed
  BY <1>1 DEF AllServed, NoSub, Free
<1>3. turn.pc = "none" /\ turn.seq = 0
  BY Zenon, <1>1 DEF NoTurn
<1>4. ~turn.ended /\ ~turn.told /\ ~turn.failed
  BY Zenon, <1>1 DEF NoTurn
<1>5. row.state = "none" /\ row.seq = 0
  BY <1>1, NoRowFacts
<1>6. \A b \in Browsers : view[b].pc = "off" /\ view[b].shown = "nothing"
  <2>1. ASSUME NEW x, NEW r
        PROVE  LET v == [pc |-> "off", snap |-> r, cursor |-> 0, pending |-> x,
                         shown |-> "nothing"]
               IN  v.pc = "off" /\ v.shown = "nothing"
    OBVIOUS
  <2> QED
    BY Zenon, <1>1, <2>1 DEF NoView
<1>7. Heralds
  BY <1>1, <1>4 DEF Heralds
<1>8. TurnOk
  BY <1>1, <1>3, <1>5 DEF TurnOk
<1>9. \A b \in Browsers : ViewOk(b)
  BY <1>6 DEF ViewOk, Waiting
<1> QED
  BY <1>2, <1>7, <1>8, <1>9 DEF ReplyInv

LEMMA ReplySteps ==
  ASSUME Roomy, ChatInv, ReplyInv, [ChatNext]_allVars
  PROVE  ReplyInv'
<1>1. CASE "stop" \notin past'
  <2>1. "stop" \notin past /\ ~Stop
    BY <1>1, StopStays DEF allVars, chatVars, Stop
  <2> QED
    BY <1>1, <2>1, CalmSteps DEF Calm
<1>2. CASE "stop" \in past'
  <2>1. AllServed'
    <3>1. CASE ChatNext
      BY <3>1, ServedStep DEF ReplyInv
    <3>2. CASE UNCHANGED allVars
      BY <3>2, IdleSafe DEF ReplyInv, BusSafe, allVars
    <3> QED
      BY <3>1, <3>2
  <2> QED
    BY <1>2, <2>1 DEF ReplyInv
<1> QED
  BY <1>1, <1>2

LEMMA ReplyAlways ==
  ASSUME Roomy
  PROVE  ChatSpec => []ReplyInv
<1>1. Roomy /\ ChatInit => ReplyInv
  BY ReplyBegins
<1>2. Roomy /\ ChatInv /\ ReplyInv /\ [ChatNext]_allVars => ReplyInv'
  BY ReplySteps
<1> QED
  BY <1>1, <1>2, ChatAlways, PTL DEF ChatSpec

LEMMA ReplyInvKeeps == ReplyInv => ReplyKept
<1> SUFFICES ASSUME ReplyInv, "reply" \in past, "stop" \notin past
             PROVE  /\ turn.pc \in {"announce", "leave", "over"} =>
                         turn.reply /\ (HasReply(row) \/ "db" \in past)
                    /\ \A b \in Browsers : view[b].shown = "end" => "db" \in past
  BY DEF ReplyKept, HasReply
<1>1. TurnOk /\ \A b \in Browsers : ViewOk(b)
  BY DEF ReplyInv
<1> QED
  BY <1>1 DEF TurnOk, ViewOk, Lost, HasReply

\* Where nobody is turned away and the bus is not closed under the turn, the
\* reply of a bot that is not stopped outlives lost events, overflows, late
\* readers and browsers that come and go: when the turn is finished it is in
\* the row, or that write failed, and no browser is told of an end without it.
THEOREM ReplyIsKept ==
  ASSUME Roomy
  PROVE  ChatSpec => []ReplyKept
  BY ReplyAlways, ReplyInvKeeps, PTL

\* Under the same conditions no step writes over a final row with the reply.
THEOREM FinalRowStays ==
  ASSUME Roomy
  PROVE  ChatSpec => FinalKept
<1>1. ChatInv /\ ReplyInv /\ [ChatNext]_allVars =>
        [HasReply(row) /\ "stop" \notin past => row' = row]_row
  <2> SUFFICES ASSUME ChatInv, ReplyInv, [ChatNext]_allVars, HasReply(row), "stop" \notin past
               PROVE  row' = row
    OBVIOUS
  <2>1. CASE Stop
    BY <2>1 DEF Stop
  <2>2. CASE ~Stop
    BY <2>2, CalmSteps DEF Calm, HistoryKept
  <2> QED
    BY <2>1, <2>2
<1>2. (row.state = "final" /\ row.reply) <=> HasReply(row)
  BY DEF HasReply
<1> QED
  BY <1>1, ChatAlways, ReplyAlways, PTL DEF ChatSpec, FinalKept, HasReply

=============================================================================
