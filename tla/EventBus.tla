----------------------------- MODULE EventBus ------------------------------
(***************************************************************************)
(* The event bus of package outbound: sequence numbers, the ring of        *)
(* retained events, the replay floors kept per trace, and subscriptions    *)
(* with a bounded channel that are cut off when it is full.                *)
(*                                                                         *)
(* Publish, subscribe, Unsubscribe and Close each hold the bus's lock      *)
(* throughout, and are one action each; a reader takes events from its     *)
(* channel without the lock.                                               *)
(***************************************************************************)
EXTENDS FiniteSetsExt, SequenceFilter

CONSTANTS
  Traces,            \* trace ids
  Botless,           \* the traces of a bot other than the one subscribed to
  All, OfBot,        \* topics besides a trace: every event; one bot's events
  Topics,            \* the topics subscribed to
  Subs,              \* handles on a subscription
  StoreCapacity,     \* MemoryEventBusConfig.StoreCapacity
  BufferSize,        \* SubscriptionBufferSize
  MaxSubscriptions,  \* MaxSubscriptions
  MaxEvents,         \* bound on the events published
  CanClose           \* whether the bus may be closed

ASSUME BusAssumption ==
  /\ Botless \subseteq Traces /\ All \notin Traces /\ OfBot \notin Traces
  /\ All # OfBot
  /\ Topics \subseteq Traces \cup {All, OfBot}
  /\ StoreCapacity \in Nat \ {0} /\ BufferSize \in Nat \ {0}
  /\ MaxSubscriptions \in Nat \ {0} /\ MaxEvents \in Nat
  /\ CanClose \in BOOLEAN

VARIABLES
  log,      \* history: the trace of every event, by sequence number
  expired,  \* the last retained event older than StoreTTL; 0 if there is none
  store,    \* eventStore
  sub,      \* handle -> its Subscription
  closed    \* MemoryEventBus.closed

vars == <<log, expired, store, sub, closed>>

Forgotten == [floor |-> 0, last |-> 0, unknown |-> FALSE, pins |-> 0]
NoSub == [state |-> "none", topic |-> All]

\* matches: the traces whose events a subscription to the topic receives.
Of(topic) == CASE topic = All -> Traces
               [] topic = OfBot -> Traces \ Botless
               [] OTHER -> {topic}

Registered == {s \in Subs : sub[s].state = "open"}

-----------------------------------------------------------------------------
(***************************************************************************)
(* eventStore.  The ring holds the events after "overwritten"; "lru" lists *)
(* the traces with a traceReplayState, "trace" holds those states.         *)
(***************************************************************************)
Known(st) == Range(st.lru)

\* Mutant of Track: a trace seen again after its record was dropped starts without a floor.
TrackAfresh(st, t, fresh) ==
  IF t \in Known(st) THEN st
  ELSE [st EXCEPT !.lru = Append(@, t), !.trace[t] = Forgotten]

\* traceLocked
Track(st, t, fresh) ==
  IF t \in Known(st) THEN st
  ELSE [st EXCEPT
    !.lru = Append(@, t),
    !.trace[t] = [Forgotten EXCEPT
      !.floor = IF fresh THEN 0 ELSE st.unknownFloor,
      !.unknown = ~fresh /\ st.unknownFloor > 0]]

\* trimTracesLocked: the unpinned traces longest unused, as many as exceed
\* the bound.
Excess(st) ==
  LET unpinned == Keep(st.lru, {t \in Traces : st.trace[t].pins = 0})
      over == Len(st.lru) - (StoreCapacity + st.pinned)
  IN  {unpinned[i] : i \in {k \in DOMAIN unpinned : k <= over}}

Trim(st) ==
  LET out == Excess(st) IN
  [st EXCEPT
    !.lru = Keep(@, Traces \ out),
    !.unknownFloor = Max({@} \cup {st.trace[t].floor : t \in out}
                              \cup {st.trace[t].last : t \in out}),
    !.trace = [t \in Traces |-> IF t \in out THEN Forgotten ELSE @[t]]]

\* pinTrace and unpinTrace, up to the trimming that follows.
Pin(st, topic, fresh) ==
  IF topic \notin Traces THEN st
  ELSE LET st1 == Track(st, topic, fresh) IN
       [st1 EXCEPT
         !.pinned = IF st1.trace[topic].pins = 0 THEN @ + 1 ELSE @,
         !.trace[topic].pins = @ + 1]

Unpin(st, gone) ==
  LET left(t) == st.trace[t].pins - Cardinality({s \in gone : sub[s].topic = t})
      freed == {t \in Traces : st.trace[t].pins > 0 /\ left(t) = 0}
  IN  [st EXCEPT
        !.pinned = @ - Cardinality(freed),
        !.trace = [t \in Traces |-> [@[t] EXCEPT !.pins = left(t)]]]

Release(st, gone) == \E st1 \in {Unpin(st, gone)} : store' = Trim(st1)

\* append
Evict(st) ==
  LET n == st.overwritten + 1
      t == log[n]
      st1 == [st EXCEPT !.overwritten = n]
  IN  IF Len(log) - st.overwritten < StoreCapacity THEN st
      ELSE IF t \in Known(st) THEN [st1 EXCEPT !.trace[t].floor = Max({@, n})]
      ELSE [st1 EXCEPT !.unknownFloor = Max({@, n})]

Touch(st, n, t, begins) ==
  LET old == st.trace[t] IN
  [st EXCEPT !.lru = Append(Keep(@, Traces \ {t}), t),
             !.trace[t] = [old EXCEPT
               !.floor = IF old.unknown /\ begins THEN 0 ELSE @,
               !.unknown = @ /\ ~begins,
               !.last = n]]

AppendEvent(n, t, begins, cut) ==
  \E st1 \in {Evict(store)} : \E st2 \in {Track(st1, t, begins)} :
    \E st3 \in {Touch(st2, n, t, begins)} : \E st4 \in {Trim(st3)} :
      Release(st4, cut)

\* replayWithFloor
Retained(topic, since) ==
  Keep([i \in 1 .. Len(log) - store.overwritten |-> store.overwritten + i],
       {n \in 1 .. Len(log) : log[n] \in Of(topic) /\ n > since /\ n > expired})

Floor(st, topic) ==
  LET stored == IF topic \notin Traces THEN st.overwritten
                ELSE IF topic \in Known(st) THEN st.trace[topic].floor
                ELSE st.unknownFloor
      stale == {n \in st.overwritten + 1 .. Len(log) :
                  n <= expired /\ log[n] \in Of(topic)}
  IN  Max({stored} \cup stale)

-----------------------------------------------------------------------------
Init ==
  /\ log = <<>> /\ expired = 0
  /\ store = [overwritten |-> 0, lru |-> <<>>, pinned |-> 0, unknownFloor |-> 0,
              trace |-> [t \in Traces |-> Forgotten]]
  /\ sub = [s \in Subs |-> NoSub]
  /\ closed = FALSE

Full(s) == Len(sub[s].ch) = sub[s].cap

\* The channel is closed; what is in it stays readable.
Cut(s, why) == [sub[s] EXCEPT !.state = why, !.end = Len(log)]

\* Mutant of Publish: a full channel loses the event and stays open.
PublishDrop(t, begins) ==
  LET n == Len(log) + 1
      to == {s \in Registered : t \in Of(sub[s].topic) /\ ~Full(s)}
  IN
  /\ ~closed /\ n <= MaxEvents
  /\ begins => t \notin Range(log)
  /\ log' = Append(log, t)
  /\ sub' = [s \in Subs |->
               IF s \in to THEN [sub[s] EXCEPT !.ch = Append(@, n)] ELSE sub[s]]
  /\ AppendEvent(n, t, begins, {})
  /\ expired' = IF expired > store'.overwritten THEN expired ELSE 0
  /\ UNCHANGED closed

\* Publish.  message.received is the first event of a trace, when it has one.
Publish(t, begins) ==
  LET n == Len(log) + 1
      to == {s \in Registered : t \in Of(sub[s].topic)}
      cut == {s \in to : Full(s)}
  IN
  /\ ~closed /\ n <= MaxEvents
  /\ begins => t \notin Range(log)
  /\ log' = Append(log, t)
  /\ sub' = [s \in Subs |->
               IF s \in cut THEN Cut(s, "overflowed")
               ELSE IF s \in to THEN [sub[s] EXCEPT !.ch = Append(@, n)]
               ELSE sub[s]]
  /\ AppendEvent(n, t, begins, cut)
  /\ expired' = IF expired > store'.overwritten THEN expired ELSE 0
  /\ UNCHANGED closed

\* subscribe.  "lost" and "pos" are history: how far events of the topic were
\* gone, and up to where the reader has read.
Admitted == ~closed /\ Cardinality(Registered) < MaxSubscriptions

Open(s, topic, fresh, replay, since) ==
  LET events == IF replay THEN Retained(topic, since) ELSE <<>>
      gone == {n \in 1 .. Max({store.overwritten, expired}) : log[n] \in Of(topic)}
  IN
  \E st \in {Pin(store, topic, fresh)} :
  /\ sub' = [sub EXCEPT ![s] =
       IF Admitted
       THEN [state |-> "open", topic |-> topic, ch |-> events,
             cap |-> BufferSize + Len(events),
             after |-> IF replay THEN Floor(Trim(st), topic) ELSE 0,
             pos |-> IF replay THEN Max({since} \cup gone) ELSE Len(log), end |-> 0]
       ELSE [state |-> "rejected", topic |-> topic, ch |-> <<>>, cap |-> 0,
             after |-> 0, pos |-> Len(log), end |-> Len(log)]]
  /\ store' = IF Admitted THEN Trim(st) ELSE store
  /\ UNCHANGED <<log, expired, closed>>

Free(s) == sub[s].state = "none"

Subscribe(s) ==
  Free(s) /\ \E topic \in Topics : Open(s, topic, FALSE, FALSE, 0)

\* A trace id that was never used before.
SubscribeNewTrace(s) ==
  /\ Free(s)
  /\ \E t \in Topics \cap Traces : t \notin Range(log) /\ Open(s, t, TRUE, FALSE, 0)

SubscribeWithReplay(s) ==
  /\ Free(s)
  /\ \E topic \in Topics \ {OfBot}, since \in 0 .. Len(log) :
       Open(s, topic, FALSE, TRUE, since)

\* The reader takes an event from its channel.
Receive(s) ==
  /\ ~Free(s) /\ sub[s].ch # <<>>
  /\ sub' = [sub EXCEPT ![s].ch = Tail(@), ![s].pos = Head(sub[s].ch)]
  /\ UNCHANGED <<log, expired, store, closed>>

\* Unsubscribe, after which the reader reads no more.
Unsubscribe(s) ==
  /\ ~Free(s)
  /\ sub' = [sub EXCEPT ![s] = NoSub]
  /\ Release(store, Registered \cap {s})
  /\ UNCHANGED <<log, expired, closed>>

Close ==
  /\ CanClose /\ ~closed
  /\ closed' = TRUE
  /\ sub' = [s \in Subs |-> IF s \in Registered THEN Cut(s, "closed") ELSE sub[s]]
  /\ Release(store, Registered)
  /\ UNCHANGED <<log, expired>>

\* Time passes: events outlive StoreTTL, the oldest first.
Expire ==
  /\ \E n \in store.overwritten + 1 .. Len(log) : n > expired /\ expired' = n
  /\ UNCHANGED <<log, store, sub, closed>>

Next ==
  \/ \E t \in Traces, begins \in BOOLEAN : Publish(t, begins)
  \/ \E s \in Subs : \/ Subscribe(s) \/ SubscribeNewTrace(s)
                     \/ SubscribeWithReplay(s) \/ Receive(s) \/ Unsubscribe(s)
  \/ Close \/ Expire

Spec == Init /\ [][Next]_vars

-----------------------------------------------------------------------------
Subscription ==
  [state : {"open", "overflowed", "closed", "rejected"}, topic : Topics,
   ch : Seq(Nat), cap : Nat, after : Nat, pos : Nat, end : Nat]

\* The type of every variable.
TypeOK ==
  /\ log \in Seq(Traces) /\ Len(log) <= MaxEvents
  /\ expired \in {0} \cup store.overwritten + 1 .. Len(log)
  /\ store \in [overwritten : 0 .. Len(log), lru : Seq(Traces), pinned : Nat,
                unknownFloor : 0 .. Len(log),
                trace : [Traces -> [floor : 0 .. Len(log), last : 0 .. Len(log),
                                    unknown : BOOLEAN, pins : Nat]]]
  /\ sub \in [Subs -> {NoSub} \cup Subscription]
  /\ closed \in BOOLEAN

\* No more subscriptions are open than are admitted.  What is recorded of a
\* trace counts its subscriptions, exactly; a trace with one is never
\* forgotten, and the others do not outnumber the ring.
Pinned ==
  /\ IsFiniteSet(Registered) /\ Cardinality(Registered) <= MaxSubscriptions
  /\ \A t \in Traces :
       /\ store.trace[t].pins = Cardinality({s \in Registered : sub[s].topic = t})
       /\ store.trace[t].pins > 0 => t \in Known(store)
  /\ store.pinned = Cardinality({t \in Traces : store.trace[t].pins > 0})
  /\ Len(store.lru) <= StoreCapacity + store.pinned
  /\ IsInjective(store.lru)

Overwritten(t) == {n \in 1 .. store.overwritten : log[n] = t}

\* Nothing that was overwritten lies above the floor of its trace, however
\* the trace was forgotten, remembered, pinned or begun meanwhile; and where
\* the floor is not marked unknown it is the last event overwritten.
FloorsSound ==
  \A t \in Traces :
    IF t \in Known(store)
    THEN /\ \A n \in Overwritten(t) : n <= store.trace[t].floor
         /\ ~store.trace[t].unknown =>
              store.trace[t].floor = Max({0} \cup Overwritten(t))
    ELSE \A n \in Overwritten(t) : n <= store.unknownFloor

\* The state of the bus's records and of its replay floors.
StoreInv == TypeOK /\ Pinned /\ FloorsSound

\* What a handle's subscription is to its reader.
StreamOf == [s \in Subs |->
  IF sub[s].state = "none" THEN [open |-> FALSE, topic |-> {}]
  ELSE [open |-> s \in Registered, topic |-> Of(sub[s].topic),
        told |-> sub[s].after, pos |-> sub[s].pos, end |-> sub[s].end]]

\* The bus implements the stream of events: whatever a reader receives is the
\* topic's events after its cursor, without gap, duplicate or reordering, and
\* what it lost on a replay lies at or below the floor it was told.
Stream == INSTANCE EventStream WITH Readers <- Subs, reader <- StreamOf

ImplementsStream == Stream!Spec

=============================================================================
