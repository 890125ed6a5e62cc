------------------------ MODULE InteractionRegistry ------------------------
(***************************************************************************)
(* The registry of the questions a bot has put to its users.  A tool asks  *)
(* and waits; a channel resolves; a new message of the same chat serves or *)
(* cancels a secret that was asked for, and interrupts every other         *)
(* question; a form of the web console claims a secret by its id.          *)
(*                                                                         *)
(* Each action is one section under the registry's lock: an interruption   *)
(* and the end of a wait are several, and others come between them.        *)
(***************************************************************************)
EXTENDS FiniteSets, Functions, SequenceFilter

CONSTANTS
  ChoiceIds,    \* questions of user_choice, each with the call that waits
  SecretIds,    \* questions of secret_input, which waits for none of them
  Chats, Web,   \* the chats, and those of the web console
  Messages      \* messages that users send while questions are open

ASSUME InteractionAssumption ==
  /\ IsFiniteSet(ChoiceIds) /\ IsFiniteSet(SecretIds) /\ ChoiceIds \cap SecretIds = {}
  /\ Web \subseteq Chats

Questions == ChoiceIds \cup SecretIds

\* A secret of a web chat belongs to one conversation, not to the user.
Keys == Chats \X {"chat", "conversation"}
ChatKey(c) == <<c, "chat">>
SecretKey(c) == <<c, IF c \in Web THEN "conversation" ELSE "chat">>

VARIABLES
  entries,    \* the questions that are registered
  status,     \* question -> its status, "none" before it is asked
  place,      \* question -> the key of its session
  index,      \* sessionQuestions: key -> its questions, in order
  closes,     \* question -> how often its done channel was closed
  stale,      \* secrets whose time is over
  tool,       \* choice -> its call of user_choice
  msg,        \* message -> how far the ingress is with it
  swept       \* history: entries an interruption has removed

vars == <<entries, status, place, index, closes, stale, tool, msg, swept>>

Nowhere == <<>>
Final == {"answered", "timeout", "cancelled", "interrupted"}

Init ==
  /\ entries = {} /\ stale = {} /\ swept = {}
  /\ status = [q \in Questions |-> "none"]
  /\ place = [q \in Questions |-> Nowhere]
  /\ index = [k \in Keys |-> <<>>]
  /\ closes = [q \in Questions |-> 0]
  /\ tool = [q \in ChoiceIds |-> [pc |-> "off", outcome |-> "none"]]
  /\ msg = [m \in Messages |-> [pc |-> "off", chat |-> Nowhere, todo |-> <<>>]]

Pending(q) == q \in entries /\ status[q] = "pending"
Form(q) == place[q][2] = "conversation"

PendingSecrets(k) == Keep(index[k], {q \in SecretIds : Pending(q)})

\* A final status, with the done channel closed.
Settle(Q, s) ==
  /\ status' = [q \in Questions |-> IF q \in Q THEN s ELSE status[q]]
  /\ closes' = [q \in Questions |-> IF q \in Q THEN closes[q] + 1 ELSE closes[q]]

\* removeSessionQuestionLocked
Unlisted(q) == [index EXCEPT ![place[q]] = Keep(@, Questions \ {q})]

\* A secret is settled and forgotten at once.
Claim(q, s) ==
  /\ Settle({q}, s)
  /\ index' = Unlisted(q)
  /\ entries' = entries \ {q}

\* Mutant of Finalize: whether it is still pending is not looked at.
FinalizeAny(q, s) ==
  IF q \in entries THEN Settle({q}, s) /\ index' = Unlisted(q)
  ELSE UNCHANGED <<status, closes, index>>

\* finalize: a question that is gone or settled is left alone.
Finalize(q, s) ==
  IF Pending(q) THEN Settle({q}, s) /\ index' = Unlisted(q)
  ELSE UNCHANGED <<status, closes, index>>

\* cleanup
Cleaned(q) == IF status[q] # "pending" THEN entries \ {q} ELSE entries

-----------------------------------------------------------------------------
(***************************************************************************)
(* RegisterQuestion                                                        *)
(***************************************************************************)
RegisterChoice(q, c) ==
  LET k == ChatKey(c) IN
  /\ status[q] = "none" /\ status' = [status EXCEPT ![q] = "pending"]
  /\ entries' = entries \cup {q}
  /\ place' = [place EXCEPT ![q] = k]
  /\ index' = [index EXCEPT ![k] = Append(@, q)]
  /\ tool' = [tool EXCEPT ![q].pc = "asked"]
  /\ UNCHANGED <<closes, stale, msg, swept>>

\* One secret at a time: it is refused while another is pending, unless that
\* one's time is over, which the new request then settles.
RegisterSecret(q, c) ==
  LET k == SecretKey(c)
      old == Range(PendingSecrets(k))
  IN
  /\ status[q] = "none" /\ old \subseteq stale
  /\ status' = [x \in Questions |->
       IF x = q THEN "pending" ELSE IF x \in old THEN "timeout" ELSE status[x]]
  /\ closes' = [x \in Questions |-> IF x \in old THEN closes[x] + 1 ELSE closes[x]]
  /\ entries' = (entries \ old) \cup {q}
  /\ place' = [place EXCEPT ![q] = k]
  /\ index' = [index EXCEPT ![k] = Append(Keep(@, Questions \ old), q)]
  /\ UNCHANGED <<stale, tool, msg, swept>>

\* TimeoutSecs pass; nothing notices before it is asked.
Lapse(q) ==
  /\ q \in SecretIds /\ Pending(q)
  /\ stale' = stale \cup {q}
  /\ UNCHANGED <<entries, status, place, index, closes, tool, msg, swept>>

-----------------------------------------------------------------------------
(***************************************************************************)
(* user_choice: after the question has been shown, or the poll made.       *)
(***************************************************************************)
Report(q, what) == tool' = [tool EXCEPT ![q] = [pc |-> "leaving", outcome |-> what]]

\* Mutant of Abort: the question is left to the cleanup.
AbortUncancelled(q) ==
  /\ tool[q].pc = "asked"
  /\ Report(q, "aborted")
  /\ UNCHANGED <<entries, status, place, index, closes, stale, msg, swept>>

\* The poll could not be made: AbortPending.
Abort(q) ==
  /\ tool[q].pc = "asked"
  /\ Finalize(q, "cancelled")
  /\ Report(q, "aborted")
  /\ UNCHANGED <<entries, place, stale, msg, swept>>

\* Wait: the entry is looked up once and kept.
StartWait(q) ==
  /\ tool[q].pc = "asked"
  /\ IF q \in entries THEN tool' = [tool EXCEPT ![q].pc = "waiting"]
     ELSE Report(q, "lost")
  /\ UNCHANGED <<entries, status, place, index, closes, stale, msg, swept>>

Wake(q) ==
  /\ tool[q].pc = "waiting" /\ status[q] # "pending"
  /\ Report(q, status[q])
  /\ UNCHANGED <<entries, status, place, index, closes, stale, msg, swept>>

\* Mutant of EndWait: the context ended, whatever became of the question meanwhile.
EndWaitBlind(q) ==
  /\ tool[q].pc = "waiting"
  /\ \E why \in {"timeout", "cancelled"} : Finalize(q, why) /\ Report(q, why)
  /\ UNCHANGED <<entries, place, stale, msg, swept>>

\* The wait's context ends, even as the question is being settled: one that
\* was answered or interrupted before it could be finalised stays so.
EndWait(q) ==
  /\ tool[q].pc = "waiting"
  /\ \E why \in {"timeout", "cancelled"} :
       /\ Finalize(q, why)
       /\ Report(q, IF q \in entries /\ status[q] \in {"answered", "interrupted"}
                    THEN status[q] ELSE why)
  /\ UNCHANGED <<entries, place, stale, msg, swept>>

\* CleanupFinal, deferred.
LeaveTool(q) ==
  /\ tool[q].pc = "leaving"
  /\ tool' = [tool EXCEPT ![q].pc = "done"]
  /\ entries' = Cleaned(q)
  /\ UNCHANGED <<status, place, index, closes, stale, msg, swept>>

-----------------------------------------------------------------------------
(***************************************************************************)
(* The channels.                                                           *)
(***************************************************************************)
\* ResolveFrom: the question stays registered and listed.
ResolveFrom(q, c) ==
  /\ q \in ChoiceIds /\ Pending(q) /\ place[q] = ChatKey(c)
  /\ Settle({q}, "answered")
  /\ UNCHANGED <<entries, place, index, stale, tool, msg, swept>>

\* ClaimSecretForm, to submit or to cancel.
ClaimSecretForm(q, cancel) ==
  /\ q \in SecretIds /\ Pending(q) /\ Form(q)
  /\ Claim(q, IF cancel THEN "cancelled" ELSE IF q \in stale THEN "timeout" ELSE "answered")
  /\ UNCHANGED <<place, stale, tool, msg, swept>>

\* Ingress.Receive: first InterceptSecretReply, ...
Goto(m, pc) == msg' = [msg EXCEPT ![m].pc = pc]

Arrive(m) ==
  /\ msg[m].pc = "off"
  /\ \E c \in Chats, pc \in {"cancelling", "replying"} :
       msg' = [msg EXCEPT ![m] = [pc |-> pc, chat |-> c, todo |-> <<>>]]
  /\ UNCHANGED <<entries, status, place, index, closes, stale, tool, swept>>

CancelSecret(m) ==
  LET secrets == PendingSecrets(SecretKey(msg[m].chat)) IN
  /\ msg[m].pc = "cancelling"
  /\ IF secrets = <<>>
     THEN Goto(m, "replying") /\ UNCHANGED <<entries, status, index, closes>>
     ELSE Goto(m, "interrupting") /\ Claim(Head(secrets), "cancelled")
  /\ UNCHANGED <<place, stale, tool, swept>>

TakeSecretReply(m) ==
  LET secrets == Keep(PendingSecrets(SecretKey(msg[m].chat)), {q \in entries : ~Form(q)})
      q == Head(secrets)
  IN
  /\ msg[m].pc = "replying" /\ Goto(m, "interrupting")
  /\ IF secrets = <<>> THEN UNCHANGED <<entries, status, index, closes>>
     ELSE Claim(q, IF q \in stale THEN "timeout" ELSE "answered")
  /\ UNCHANGED <<place, stale, tool, swept>>

\* Mutant of Interrupt: the whole list is cleared, the pending secrets with it.
InterruptKeepingNone(m) ==
  LET k == ChatKey(msg[m].chat) IN
  /\ msg[m].pc = "interrupting"
  /\ msg' = [msg EXCEPT ![m].pc = "sweeping",
                        ![m].todo = Keep(index[k], ChoiceIds)]
  /\ index' = [index EXCEPT ![k] = <<>>]
  /\ UNCHANGED <<entries, status, place, closes, stale, tool, swept>>

\* ... then InterruptBySession.  It takes all but the pending secrets out of
\* the session's list; ...
Interrupt(m) ==
  LET k == ChatKey(msg[m].chat)
      kept == PendingSecrets(k)
  IN
  /\ msg[m].pc = "interrupting"
  /\ msg' = [msg EXCEPT ![m].pc = "sweeping",
                        ![m].todo = Keep(index[k], Questions \ Range(kept))]
  /\ index' = [index EXCEPT ![k] = kept]
  /\ UNCHANGED <<entries, status, place, closes, stale, tool, swept>>

\* ... and of each one taken out: finalize, and cleanup.
SweepFinalize(m) ==
  /\ msg[m].pc = "sweeping" /\ msg[m].todo # <<>>
  /\ Finalize(Head(msg[m].todo), "interrupted")
  /\ Goto(m, "cleaning")
  /\ UNCHANGED <<entries, place, stale, tool, swept>>

SweepCleanup(m) ==
  LET q == Head(msg[m].todo) IN
  /\ msg[m].pc = "cleaning"
  /\ entries' = Cleaned(q)
  /\ swept' = swept \cup (entries \cap {q})
  /\ msg' = [msg EXCEPT ![m].pc = "sweeping", ![m].todo = Tail(@)]
  /\ UNCHANGED <<status, place, index, closes, stale, tool>>

Deliver(m) ==
  /\ msg[m].pc = "sweeping" /\ msg[m].todo = <<>>
  /\ msg' = [msg EXCEPT ![m].pc = "delivered", ![m].chat = Nowhere]
  /\ UNCHANGED <<entries, status, place, index, closes, stale, tool, swept>>

-----------------------------------------------------------------------------
Next ==
  \/ \E q \in ChoiceIds :
       \/ \E c \in Chats : RegisterChoice(q, c) \/ ResolveFrom(q, c)
       \/ Abort(q) \/ StartWait(q) \/ Wake(q) \/ EndWait(q) \/ LeaveTool(q)
  \/ \E q \in SecretIds :
       \/ \E c \in Chats : RegisterSecret(q, c)
       \/ \E cancel \in BOOLEAN : ClaimSecretForm(q, cancel)
       \/ Lapse(q)
  \/ \E m \in Messages :
       \/ Arrive(m) \/ CancelSecret(m) \/ TakeSecretReply(m) \/ Interrupt(m)
       \/ SweepFinalize(m) \/ SweepCleanup(m) \/ Deliver(m)

Spec == Init /\ [][Next]_vars

-----------------------------------------------------------------------------
\* The type of every variable.
TypeOK ==
  /\ entries \subseteq Questions /\ stale \subseteq SecretIds /\ swept \subseteq ChoiceIds
  /\ status \in [Questions -> {"none", "pending"} \cup Final]
  /\ place \in [Questions -> {Nowhere} \cup Keys]
  /\ index \in [Keys -> Seq(Questions)]
  /\ closes \in [Questions -> Nat]
  /\ tool \in [ChoiceIds -> [pc : {"off", "asked", "waiting", "leaving", "done"},
                            outcome : {"none", "lost", "aborted"} \cup Final]]
  /\ msg \in [Messages -> [pc : {"off", "cancelling", "replying", "interrupting",
                                 "sweeping", "cleaning", "delivered"},
                           chat : Chats \cup {Nowhere}, todo : Seq(Questions)]]

\* The interruptions that have yet to end the question.
Hands(q) == {m \in Messages : q \in Range(msg[m].todo)}
Listed(q) == q \in Range(index[place[q]])

\* Every pending question can be found by the message that must interrupt or
\* serve it: it is registered, and either listed under its session, once, or
\* in the hands of one interruption; what is listed is pending or answered.
Findable ==
  /\ \A q \in Questions : status[q] = "pending" =>
       /\ q \in entries
       /\ IF Listed(q) THEN Hands(q) = {} ELSE \E m \in Messages : Hands(q) = {m}
  /\ \A k \in Keys :
       /\ IsInjective(index[k])
       /\ \A q \in Range(index[k]) : place[q] = k /\ status[q] \in {"pending", "answered"}

\* A tool that has returned leaves no entry behind, and a secret keeps one
\* only while it is pending.
NoLeak ==
  /\ \A q \in ChoiceIds : tool[q].pc = "done" => q \notin entries
  /\ \A q \in SecretIds : q \in entries <=> status[q] = "pending"

\* The registry's entries and its index by session agree.
RegistryInv == TypeOK /\ Findable /\ NoLeak

\* The done channel is closed exactly when a question is settled; closing it
\* twice would be a panic.
ClosedOnce ==
  \A q \in Questions : closes[q] = IF status[q] \in Final THEN 1 ELSE 0

\* A reply names no request, so a session has one pending secret at most.
OneSecret ==
  \A q, r \in SecretIds :
    status[q] = "pending" /\ status[r] = "pending" /\ place[q] = place[r] => q = r

\* What a tool tells the model is what became of its question: an answer that
\* was accepted is not reported as a timeout.  The exception is an entry that
\* an interruption removed under a tool that was about to look it up again.
Reported ==
  \A q \in ChoiceIds :
    tool[q].pc = "done" /\ tool[q].outcome # "aborted" =>
      \/ tool[q].outcome = status[q]
      \/ q \in swept /\ tool[q].outcome \in {"lost", "timeout", "cancelled"}

=============================================================================
