---------------------------- MODULE EventStream ----------------------------
(***************************************************************************)
(* What the event bus promises to a reader: every event of its topic after *)
(* the reader's position, in order and without a gap, until the stream     *)
(* ends.  A reader that resumes at a cursor may have lost history, but     *)
(* never history above the floor it is told (Subscription.ReplayAfterSeq). *)
(***************************************************************************)
EXTENDS Integers, Sequences

CONSTANTS
  Readers,  \* handles on a subscription
  Traces    \* what an event belongs to; a topic is a set of traces

VARIABLES
  log,      \* the trace of every event published, by sequence number
  reader    \* reader -> its stream

Absent == [open |-> FALSE, topic |-> {}]
Present(r) == reader[r] # Absent

Stream(topic, told, pos) ==
  [open |-> TRUE, topic |-> topic, told |-> told, pos |-> pos, end |-> 0]

Ended(s) == IF s # Absent /\ s.open
            THEN [s EXCEPT !.open = FALSE, !.end = Len(log)] ELSE s

\* The next event of a reader's stream.
IsNext(r, n) ==
  /\ n > reader[r].pos /\ (reader[r].open \/ n <= reader[r].end)
  /\ log[n] \in reader[r].topic
  /\ \A m \in reader[r].pos + 1 .. n - 1 : log[m] \notin reader[r].topic

-----------------------------------------------------------------------------
Init == log = <<>> /\ reader = [r \in Readers |-> Absent]

\* An event is published; the streams of some readers end before it.
Publish ==
  \E e \in Traces, cut \in SUBSET Readers :
    /\ \A r \in cut : e \in reader[r].topic
    /\ log' = Append(log, e)
    /\ reader' = [r \in Readers |->
                    IF r \in cut THEN Ended(reader[r]) ELSE reader[r]]

\* A reader comes, for what is published from now on (unless it is turned
\* away), or from a cursor.
Listen(r) ==
  /\ ~Present(r)
  /\ \E topic \in SUBSET Traces :
       LET s == Stream(topic, 0, Len(log)) IN
       \E s1 \in {s, Ended(s)} : reader' = [reader EXCEPT ![r] = s1]
  /\ UNCHANGED log

Resume(r) ==
  /\ ~Present(r)
  /\ \E topic \in SUBSET Traces, since, told, pos \in 0 .. Len(log) :
       /\ since <= pos /\ (pos = since \/ pos <= told)
       /\ reader' = [reader EXCEPT ![r] = Stream(topic, told, pos)]
  /\ UNCHANGED log

Read(r) ==
  /\ Present(r)
  /\ \E n \in DOMAIN log : IsNext(r, n) /\ reader' = [reader EXCEPT ![r].pos = n]
  /\ UNCHANGED log

Leave(r) ==
  /\ Present(r)
  /\ reader' = [reader EXCEPT ![r] = Absent]
  /\ UNCHANGED log

\* The bus closes: every stream ends here.
Shut ==
  /\ reader' = [r \in Readers |-> Ended(reader[r])]
  /\ UNCHANGED log

Next ==
  \/ Publish \/ Shut
  \/ \E r \in Readers : Listen(r) \/ Resume(r) \/ Read(r) \/ Leave(r)

Spec == Init /\ [][Next]_<<log, reader>>

=============================================================================
