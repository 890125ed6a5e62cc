--------------------- MODULE InteractionRegistryProofs ---------------------
(***************************************************************************)
(* Proofs about InteractionRegistry: whatever order answers, timeouts,     *)
(* interruptions and secrets come in, the entries and the index by session *)
(* agree, no done channel is closed twice, a session has one pending       *)
(* secret, and a tool reports what became of its question.                 *)
(***************************************************************************)
EXTENDS InteractionRegistry, SequenceFilterProofs

(***************************************************************************)
(* The inductive invariant: what a call of user_choice and a message of    *)
(* the ingress know, each where it is.                                     *)
(***************************************************************************)
Told(q) ==
  \/ tool[q].outcome = status[q]
  \/ q \in swept /\ tool[q].outcome \in {"lost", "timeout", "cancelled"}

\* A tool that has not left its wait is the only one to end the question
\* otherwise than by an answer or an interruption; its entry is removed
\* under it by nothing but an interruption.
ToolKnown == \A q \in ChoiceIds :
  /\ (tool[q].pc = "off") <=> (status[q] = "none")
  /\ tool[q].pc \in {"asked", "waiting"} =>
       /\ status[q] \in {"pending", "answered", "interrupted"}
       /\ q \in entries \cup swept
  /\ tool[q].pc \in {"leaving", "done"} =>
       /\ status[q] \in Final
       /\ tool[q].outcome = "aborted" \/ Told(q)

\* An interruption holds questions of user_choice only, and cleans up after
\* one that is settled.
MessageKnown == \A m \in Messages :
  /\ msg[m].pc \in {"cancelling", "replying", "interrupting"} => msg[m].chat \in Chats
  /\ msg[m].pc \notin {"sweeping", "cleaning"} => msg[m].todo = <<>>
  /\ \A q \in Range(msg[m].todo) : q \in ChoiceIds /\ status[q] # "none"
  /\ msg[m].pc = "cleaning" =>
       msg[m].todo # <<>> /\ status[Head(msg[m].todo)] \in Final

\* A question that was asked belongs to a session; a secret is listed there
\* only while it is pending.
Placed == \A q \in Questions :
  /\ q \in entries \/ status[q] = "pending" => place[q] \in Keys
  /\ q \in entries => status[q] # "none"
SecretsListed ==
  \A k \in Keys : \A q \in Range(index[k]) : q \in SecretIds => status[q] = "pending"

(***************************************************************************)
(* Lists.                                                                  *)
(***************************************************************************)
LEMMA AppendOnce ==
  ASSUME NEW S, NEW s \in Seq(S), NEW x \in S
  PROVE  /\ Append(s, x) \in Seq(S)
         /\ Range(Append(s, x)) = Range(s) \cup {x}
         /\ IsInjective(s) /\ x \notin Range(s) => IsInjective(Append(s, x))
<1> DEFINE t == Append(s, x)
<1>1. /\ t \in Seq(S) /\ Len(t) = Len(s) + 1 /\ Len(s) \in Nat
      /\ \A i \in 1 .. Len(s) : t[i] = s[i]
      /\ t[Len(s) + 1] = x
  BY AppendProperties
<1>2. DOMAIN t = 1 .. Len(s) + 1 /\ DOMAIN s = 1 .. Len(s)
  BY <1>1
<1> HIDE DEF t
<1>3. \A i \in DOMAIN t : i \in DOMAIN s \/ i = Len(s) + 1
  BY <1>1, <1>2
<1>4. Range(t) = Range(s) \cup {x}
  BY <1>1, <1>2, <1>3 DEF Range
<1>5. IsInjective(s) /\ x \notin Range(s) => IsInjective(t)
  BY <1>1, <1>2, <1>3 DEF Range, IsInjective
<1> QED
  BY <1>1, <1>4, <1>5 DEF t

LEMMA HeadAndTail ==
  ASSUME NEW S, NEW s \in Seq(S), s # <<>>
  PROVE  /\ Head(s) \in Range(s) /\ Tail(s) \in Seq(S)
         /\ Range(s) = {Head(s)} \cup Range(Tail(s))
<1>1. /\ Tail(s) \in Seq(S) /\ Len(Tail(s)) = Len(s) - 1 /\ Len(s) \in Nat \ {0}
      /\ \A i \in 1 .. Len(Tail(s)) : Tail(s)[i] = s[i + 1]
      /\ Head(s) = s[1]
  BY HeadTailProperties, EmptySeq
<1> DEFINE t == Tail(s)
<1>2. DOMAIN t = 1 .. Len(s) - 1 /\ DOMAIN s = 1 .. Len(s)
  BY <1>1
<1>3. ASSUME NEW i \in 2 .. Len(s) PROVE s[i] = t[i - 1] /\ i - 1 \in DOMAIN t
  BY <1>1, <1>2
<1>4. ASSUME NEW i \in DOMAIN t PROVE t[i] = s[i + 1] /\ i + 1 \in DOMAIN s
  BY <1>1, <1>2
<1>5. 1 \in DOMAIN s /\ \A i \in DOMAIN s : i = 1 \/ i \in 2 .. Len(s)
  BY <1>1, <1>2
<1> HIDE DEF t
<1>6. Range(s) = {s[1]} \cup Range(t)
  BY <1>3, <1>4, <1>5 DEF Range
<1> QED
  BY <1>1, <1>5, <1>6 DEF Range, t

LEMMA EmptyRange == Range(<<>>) = {} /\ IsInjective(<<>>)
  BY DEF Range, IsInjective

LEMMA NonEmptyRange ==
  ASSUME NEW S, NEW s \in Seq(S), s # <<>>
  PROVE  Head(s) \in Range(s)
  BY HeadAndTail

(***************************************************************************)
(* The registry by itself: entries, index, statuses and channels, as every *)
(* section under the lock leaves them.                                     *)
(***************************************************************************)
CoreType ==
  /\ entries \subseteq Questions
  /\ status \in [Questions -> {"none", "pending"} \cup Final]
  /\ place \in [Questions -> {Nowhere} \cup Keys]
  /\ index \in [Keys -> Seq(Questions)]
  /\ closes \in [Questions -> Nat]

ListsOk == \A k \in Keys :
  /\ IsInjective(index[k])
  /\ \A q \in Range(index[k]) : place[q] = k /\ status[q] \in {"pending", "answered"}

Held ==
  /\ \A q \in Questions : status[q] = "pending" => q \in entries
  /\ \A q \in SecretIds : q \in entries => status[q] = "pending"
  /\ \A q \in SecretIds : status[q] = "pending" => Listed(q)

CoreInv ==
  CoreType /\ ListsOk /\ Held /\ ClosedOnce /\ OneSecret /\ Placed /\ SecretsListed

LEMMA ChatKeyType == \A c \in Chats : ChatKey(c) \in Keys /\ SecretKey(c) \in Keys
  BY DEF ChatKey, SecretKey, Keys

LEMMA ListElements ==
  ASSUME CoreInv, NEW k \in Keys
  PROVE  Range(index[k]) \subseteq Questions
<1>1. index[k] \in Seq(Questions)
  BY DEF CoreInv, CoreType
<1> QED
  BY <1>1, RangeOfSeq

\* The lists after one of them was filtered by a set.
Filtered(k, Q) == [index EXCEPT ![k] = Keep(@, Q)]

LEMMA FilteredLists ==
  ASSUME CoreInv, NEW k \in Keys, NEW Q, index' = Filtered(k, Q)
  PROVE  /\ index' \in [Keys -> Seq(Questions)]
         /\ \A j \in Keys : IsInjective(index'[j])
         /\ \A x : x \in Range(index'[k]) <=> x \in Range(index[k]) /\ x \in Q
         /\ \A j \in Keys \ {k} : index'[j] = index[j]
<1>1. index \in [Keys -> Seq(Questions)] /\ index[k] \in Seq(Questions) /\ IsInjective(index[k])
  BY DEF CoreInv, CoreType, ListsOk
<1>2. /\ Keep(index[k], Q) \in Seq(Questions)
      /\ \A x : x \in Range(Keep(index[k], Q)) <=> x \in Range(index[k]) /\ x \in Q
      /\ IsInjective(Keep(index[k], Q))
  BY <1>1, KeepProperties
<1>3. index'[k] = Keep(index[k], Q) /\ \A j \in Keys \ {k} : index'[j] = index[j]
  BY <1>1 DEF Filtered
<1>4. index' \in [Keys -> Seq(Questions)]
  BY <1>1, <1>2 DEF Filtered
<1>5. \A j \in Keys : IsInjective(index'[j])
  BY <1>2, <1>3 DEF CoreInv, ListsOk
<1> QED
  BY <1>2, <1>3, <1>4, <1>5

\* A pending question is settled and taken from the list of its session.
LEMMA UnlistedLists ==
  ASSUME CoreInv, NEW q \in Questions, status[q] = "pending", index' = Unlisted(q)
  PROVE  /\ index' \in [Keys -> Seq(Questions)]
         /\ \A j \in Keys : IsInjective(index'[j])
         /\ \A j \in Keys : \A x : x \in Range(index'[j]) <=> x \in Range(index[j]) /\ x # q
<1>1. place[q] \in Keys /\ index' = Filtered(place[q], Questions \ {q})
  BY DEF CoreInv, Placed, Unlisted, Filtered
<1>2. \A j \in Keys : Range(index[j]) \subseteq Questions
  BY ListElements
<1>3. \A j \in Keys \ {place[q]} : q \notin Range(index[j])
  BY DEF CoreInv, ListsOk
<1> HIDE DEF CoreInv
<1>4. /\ index' \in [Keys -> Seq(Questions)]
      /\ \A j \in Keys : IsInjective(index'[j])
      /\ \A x : x \in Range(index'[place[q]]) <=> x \in Range(index[place[q]]) /\ x \in Questions \ {q}
      /\ \A j \in Keys \ {place[q]} : index'[j] = index[j]
  BY <1>1, FilteredLists
<1> QED
  BY <1>1, <1>2, <1>3, <1>4

(***************************************************************************)
(* The sections under the lock, each over the registry by itself.          *)
(***************************************************************************)
\* finalize, of a question that waits for its tool.
LEMMA SettleKeeps ==
  ASSUME CoreInv, NEW q \in ChoiceIds, NEW s \in Final, Pending(q),
         Settle({q}, s), index' = Unlisted(q), UNCHANGED <<entries, place>>
  PROVE  CoreInv'
<1> USE DEF Questions
<1>1. /\ index' \in [Keys -> Seq(Questions)]
      /\ \A j \in Keys : IsInjective(index'[j])
      /\ \A j \in Keys : \A x : x \in Range(index'[j]) <=> x \in Range(index[j]) /\ x # q
  BY UnlistedLists DEF Pending
<1>2. /\ status' \in [Questions -> {"none", "pending"} \cup Final]
      /\ closes' \in [Questions -> Nat]
      /\ status'[q] = s /\ closes'[q] = closes[q] + 1
      /\ \A x \in Questions \ {q} : status'[x] = status[x] /\ closes'[x] = closes[x]
  BY DEF Settle, CoreInv, CoreType
<1>3. status[q] = "pending" /\ s # "none" /\ s # "pending" /\ q \notin SecretIds
  BY InteractionAssumption DEF Pending, Final
<1>4. CoreType'
  BY <1>1, <1>2 DEF CoreInv, CoreType
<1>5. ListsOk' /\ SecretsListed'
  BY <1>1, <1>2, <1>3, ListElements DEF CoreInv, ListsOk, SecretsListed
<1>6. Held' /\ OneSecret' /\ Placed'
  <2>1. \A x \in SecretIds : status[x] = "pending" /\ Listed(x) => Listed(x)'
    BY <1>1, <1>3 DEF CoreInv, Placed, Listed
  <2> QED
    BY <1>2, <1>3, <2>1 DEF CoreInv, Held, OneSecret, Placed
<1>7. ClosedOnce'
  BY <1>2, <1>3 DEF CoreInv, ClosedOnce, Final
<1> QED
  BY <1>4, <1>5, <1>6, <1>7 DEF CoreInv

\* A secret is claimed: settled, taken from its list and forgotten.
LEMMA ClaimKeeps ==
  ASSUME CoreInv, NEW q \in SecretIds, NEW s \in Final, Pending(q), Claim(q, s),
         UNCHANGED place
  PROVE  CoreInv'
<1> USE DEF Questions
<1>1. /\ index' \in [Keys -> Seq(Questions)]
      /\ \A j \in Keys : IsInjective(index'[j])
      /\ \A j \in Keys : \A x : x \in Range(index'[j]) <=> x \in Range(index[j]) /\ x # q
  BY UnlistedLists DEF Pending, Claim
<1>2. /\ status' \in [Questions -> {"none", "pending"} \cup Final]
      /\ closes' \in [Questions -> Nat]
      /\ status'[q] = s /\ closes'[q] = closes[q] + 1
      /\ \A x \in Questions \ {q} : status'[x] = status[x] /\ closes'[x] = closes[x]
      /\ entries' = entries \ {q}
  BY DEF Claim, Settle, CoreInv, CoreType
<1>3. status[q] = "pending" /\ s # "none" /\ s # "pending"
  BY DEF Pending, Final
<1>4. CoreType'
  BY <1>1, <1>2 DEF CoreInv, CoreType
<1>5. ListsOk' /\ SecretsListed'
  BY <1>1, <1>2, <1>3, ListElements DEF CoreInv, ListsOk, SecretsListed
<1>6. Held' /\ OneSecret' /\ Placed'
  BY <1>1, <1>2, <1>3 DEF CoreInv, Held, Listed, OneSecret, Placed
<1>7. ClosedOnce'
  BY <1>2, <1>3 DEF CoreInv, ClosedOnce, Final
<1> QED
  BY <1>4, <1>5, <1>6, <1>7 DEF CoreInv

\* ResolveFrom: the question is answered where it stands.
LEMMA AnswerKeeps ==
  ASSUME CoreInv, NEW q \in ChoiceIds, Pending(q), Settle({q}, "answered"),
         UNCHANGED <<entries, place, index>>
  PROVE  CoreInv'
<1> USE DEF Questions
<1>1. /\ status' \in [Questions -> {"none", "pending"} \cup Final]
      /\ closes' \in [Questions -> Nat]
      /\ status'[q] = "answered" /\ closes'[q] = closes[q] + 1
      /\ \A x \in Questions \ {q} : status'[x] = status[x] /\ closes'[x] = closes[x]
  BY DEF Settle, CoreInv, CoreType, Final
<1>2. status[q] = "pending" /\ q \notin SecretIds
  BY InteractionAssumption DEF Pending
<1>3. ListsOk' /\ SecretsListed'
  BY <1>1, <1>2, ListElements DEF CoreInv, ListsOk, SecretsListed
<1>4. Held' /\ OneSecret' /\ Placed'
  BY <1>1, <1>2 DEF CoreInv, Held, Listed, OneSecret, Placed
<1>5. ClosedOnce'
  BY <1>1, <1>2 DEF CoreInv, ClosedOnce, Final
<1> QED
  BY <1>1, <1>3, <1>4, <1>5 DEF CoreInv, CoreType

\* cleanup, of a question that is settled.
LEMMA CleanKeeps ==
  ASSUME CoreInv, NEW q \in ChoiceIds, entries' = Cleaned(q),
         UNCHANGED <<status, place, index, closes>>
  PROVE  CoreInv'
<1>1. entries' = entries \/ (entries' = entries \ {q} /\ status[q] # "pending")
  BY DEF Cleaned
<1>2. q \notin SecretIds
  BY InteractionAssumption
<1>3. Held'
  BY <1>1, <1>2 DEF CoreInv, Held, Listed
<1> QED
  BY <1>1, <1>3
     DEF CoreInv, CoreType, ListsOk, ClosedOnce, OneSecret, Placed, SecretsListed

\* RegisterQuestion, of a question that waits for its tool.
LEMMA ChoiceKeeps ==
  ASSUME CoreInv, NEW q \in ChoiceIds, NEW c \in Chats, RegisterChoice(q, c)
  PROVE  CoreInv'
<1> USE DEF Questions
<1> DEFINE k == ChatKey(c)
<1>1. k \in Keys /\ index[k] \in Seq(Questions) /\ status[q] = "none"
  BY ChatKeyType DEF CoreInv, CoreType, RegisterChoice
<1>2. \A j \in Keys : q \notin Range(index[j])
  BY <1>1 DEF CoreInv, ListsOk
<1>3. /\ Append(index[k], q) \in Seq(Questions)
      /\ Range(Append(index[k], q)) = Range(index[k]) \cup {q}
      /\ IsInjective(Append(index[k], q))
  BY <1>1, <1>2, AppendOnce DEF CoreInv, ListsOk
<1> HIDE DEF k
<1>4. /\ index' = [index EXCEPT ![k] = Append(@, q)]
      /\ status' = [status EXCEPT ![q] = "pending"]
      /\ place' = [place EXCEPT ![q] = k]
      /\ entries' = entries \cup {q} /\ closes' = closes
  BY DEF RegisterChoice, k
<1>5. /\ index'[k] = Append(index[k], q)
      /\ \A j \in Keys \ {k} : index'[j] = index[j]
      /\ status'[q] = "pending" /\ place'[q] = k
      /\ \A x \in Questions \ {q} : status'[x] = status[x] /\ place'[x] = place[x]
  BY <1>1, <1>4 DEF CoreInv, CoreType
<1>6. CoreType'
  BY <1>1, <1>3, <1>4 DEF CoreInv, CoreType
<1>7. ListsOk' /\ SecretsListed'
  <2>1. \A j \in Keys : IsInjective(index'[j])
    BY <1>3, <1>5 DEF CoreInv, ListsOk
  <2>2. \A j \in Keys : \A x : x \in Range(index'[j]) =>
          \/ x = q /\ j = k
          \/ x # q /\ x \in Range(index[j]) /\ x \in Questions
    BY <1>2, <1>3, <1>5, ListElements
  <2> QED
    BY <1>5, <2>1, <2>2, InteractionAssumption DEF CoreInv, ListsOk, SecretsListed
<1>8. q \notin SecretIds
  BY InteractionAssumption
<1>9. \A x \in SecretIds : Listed(x) /\ status[x] = "pending" => Listed(x)'
  BY <1>3, <1>5, <1>8 DEF Listed, CoreInv, Placed
<1>10. Held' /\ OneSecret' /\ Placed'
  BY <1>1, <1>4, <1>5, <1>8, <1>9 DEF CoreInv, Held, OneSecret, Placed
<1>11. ClosedOnce'
  BY <1>1, <1>4, <1>5 DEF CoreInv, ClosedOnce, Final
<1> QED
  BY <1>6, <1>7, <1>10, <1>11 DEF CoreInv

LEMMA PendingSecretsAre ==
  ASSUME CoreInv, NEW k \in Keys
  PROVE  /\ PendingSecrets(k) \in Seq(Questions) /\ IsInjective(PendingSecrets(k))
         /\ Range(PendingSecrets(k))
              = {q \in SecretIds : status[q] = "pending" /\ place[q] = k}
<1>1. index[k] \in Seq(Questions) /\ IsInjective(index[k])
  BY DEF CoreInv, CoreType, ListsOk
<1>2. /\ PendingSecrets(k) \in Seq(Questions) /\ IsInjective(PendingSecrets(k))
      /\ \A x : x \in Range(PendingSecrets(k))
                  <=> x \in Range(index[k]) /\ x \in {q \in SecretIds : Pending(q)}
  BY <1>1, KeepProperties DEF PendingSecrets
<1>3. \A x \in SecretIds : Pending(x) <=> status[x] = "pending"
  BY DEF Pending, CoreInv, Held, Questions
<1>4. \A x \in SecretIds : status[x] = "pending" => (x \in Range(index[k]) <=> place[x] = k)
  BY DEF CoreInv, Held, Listed, ListsOk
<1> QED
  BY <1>2, <1>3, <1>4

\* RegisterQuestion, of a secret: it takes the place of one whose time is over.
LEMMA SecretKeeps ==
  ASSUME CoreInv, NEW q \in SecretIds, NEW c \in Chats, RegisterSecret(q, c)
  PROVE  CoreInv'
<1> USE DEF Questions
<1> DEFINE k == SecretKey(c)
           old == Range(PendingSecrets(k))
           kept == Keep(index[k], Questions \ old)
<1>1. k \in Keys /\ index[k] \in Seq(Questions) /\ status[q] = "none"
  BY ChatKeyType DEF CoreInv, CoreType, RegisterSecret
<1>2. old = {x \in SecretIds : status[x] = "pending" /\ place[x] = k}
  BY <1>1, PendingSecretsAre
<1>3. \A j \in Keys : q \notin Range(index[j])
  BY <1>1 DEF CoreInv, ListsOk
<1>4. /\ kept \in Seq(Questions) /\ IsInjective(kept)
      /\ \A x : x \in Range(kept) <=> x \in Range(index[k]) /\ x \in Questions \ old
  <2>1. IsInjective(index[k])
    BY <1>1 DEF CoreInv, ListsOk
  <2> HIDE DEF old, k
  <2> QED
    BY <1>1, <2>1, KeepProperties
<1>5. /\ index' = [index EXCEPT ![k] = Append(kept, q)]
      /\ status' = [x \in Questions |->
           IF x = q THEN "pending" ELSE IF x \in old THEN "timeout" ELSE status[x]]
      /\ closes' = [x \in Questions |-> IF x \in old THEN closes[x] + 1 ELSE closes[x]]
      /\ place' = [place EXCEPT ![q] = k]
      /\ entries' = (entries \ old) \cup {q}
  BY DEF RegisterSecret
<1> HIDE DEF kept, old, k
<1>6. /\ Append(kept, q) \in Seq(Questions)
      /\ Range(Append(kept, q)) = Range(kept) \cup {q}
      /\ IsInjective(Append(kept, q))
  BY <1>1, <1>3, <1>4, AppendOnce
<1>7. /\ index'[k] = Append(kept, q)
      /\ \A j \in Keys \ {k} : index'[j] = index[j]
      /\ place'[q] = k /\ \A x \in Questions \ {q} : place'[x] = place[x]
      /\ index' \in [Keys -> Seq(Questions)] /\ place' \in [Questions -> {Nowhere} \cup Keys]
  BY <1>1, <1>5, <1>6 DEF CoreInv, CoreType
<1>8. /\ status'[q] = "pending"
      /\ \A x \in old : status'[x] = "timeout"
      /\ \A x \in Questions \ (old \cup {q}) : status'[x] = status[x]
      /\ q \notin old /\ old \subseteq SecretIds
  BY <1>1, <1>2, <1>5
<1>9. CoreType'
  BY <1>5, <1>7 DEF CoreInv, CoreType, Final
<1>10. \A j \in Keys : \A x : x \in Range(index'[j]) =>
          \/ x = q /\ j = k
          \/ x \in Questions \ (old \cup {q}) /\ x \in Range(index[j])
  <2>1. ASSUME NEW j \in Keys \ {k}, NEW x \in Range(index[j])
        PROVE  x \in Questions \ (old \cup {q})
    BY <1>2, <1>3, <2>1, ListElements DEF CoreInv, ListsOk
  <2> QED
    BY <1>3, <1>4, <1>6, <1>7, <2>1
<1>11. ListsOk' /\ SecretsListed'
  <2>1. \A j \in Keys : IsInjective(index'[j])
    BY <1>6, <1>7 DEF CoreInv, ListsOk
  <2> QED
    BY <1>7, <1>8, <1>10, <2>1 DEF CoreInv, ListsOk, SecretsListed
<1>12. Held'
  <2>1. \A x \in Questions : status'[x] = "pending" => x \in entries'
    BY <1>5, <1>8 DEF CoreInv, Held
  <2>2. \A x \in SecretIds : x \in entries' => status'[x] = "pending"
    BY <1>5, <1>8 DEF CoreInv, Held
  <2>3. ASSUME NEW x \in SecretIds, status'[x] = "pending" PROVE Listed(x)'
    <3>1. CASE x = q
      BY <1>6, <1>7, <3>1 DEF Listed
    <3>2. CASE x # q
      <4>1. status[x] = "pending" /\ x \notin old /\ Listed(x) /\ place[x] \in Keys
        BY <1>8, <2>3, <3>2 DEF CoreInv, Held, Placed
      <4>2. place[x] # k
        BY <1>2, <4>1
      <4> QED
        BY <1>7, <3>2, <4>1, <4>2 DEF Listed
    <3> QED
      BY <3>1, <3>2
  <2> QED
    BY <2>1, <2>2, <2>3 DEF Held
<1>13. OneSecret'
  <2>1. ASSUME NEW x \in SecretIds \ {q}, status'[x] = "pending"
        PROVE  status[x] = "pending" /\ place'[x] = place[x] /\ place[x] # k
    BY <1>2, <1>7, <1>8, <2>1
  <2> QED
    BY <1>7, <2>1 DEF CoreInv, OneSecret
<1>14. Placed'
  BY <1>1, <1>5, <1>7, <1>8 DEF CoreInv, Placed
<1>15. ClosedOnce'
  BY <1>1, <1>2, <1>5, <1>8 DEF CoreInv, ClosedOnce, Final
<1> QED
  BY <1>9, <1>11, <1>12, <1>13, <1>14, <1>15 DEF CoreInv

\* InterruptBySession: all but the pending secrets leave the list.
LEMMA InterruptKeeps ==
  ASSUME CoreInv, NEW k \in Keys, index' = [index EXCEPT ![k] = PendingSecrets(k)],
         UNCHANGED <<entries, status, place, closes>>
  PROVE  CoreInv'
<1>1. /\ index' \in [Keys -> Seq(Questions)]
      /\ index'[k] = PendingSecrets(k)
      /\ \A j \in Keys \ {k} : index'[j] = index[j]
  BY PendingSecretsAre DEF CoreInv, CoreType
<1>2. \A j \in Keys : IsInjective(index'[j])
  BY <1>1, PendingSecretsAre DEF CoreInv, ListsOk
<1>3. \A x \in Range(index'[k]) : x \in SecretIds /\ status[x] = "pending" /\ place[x] = k
  BY <1>1, PendingSecretsAre
<1>4. ListsOk' /\ SecretsListed'
  BY <1>1, <1>2, <1>3 DEF CoreInv, ListsOk, SecretsListed
<1>5. \A x \in SecretIds : status[x] = "pending" => Listed(x)'
  BY <1>1, PendingSecretsAre DEF CoreInv, Held, Listed, Placed, Questions
<1>6. Held'
  BY <1>5 DEF CoreInv, Held
<1> QED
  BY <1>1, <1>4, <1>6 DEF CoreInv, CoreType, ClosedOnce, OneSecret, Placed

LEMMA CoreUnchanged ==
  CoreInv /\ UNCHANGED <<entries, status, place, index, closes>> => CoreInv'
  BY DEF CoreInv, CoreType, ListsOk, Held, Listed, ClosedOnce, OneSecret, Placed, SecretsListed

(***************************************************************************)
(* Tools and messages, around the registry.                                *)
(***************************************************************************)
PeopleType ==
  /\ stale \subseteq SecretIds /\ swept \subseteq ChoiceIds
  /\ tool \in [ChoiceIds -> [pc : {"off", "asked", "waiting", "leaving", "done"},
                            outcome : {"none", "lost", "aborted"} \cup Final]]
  /\ msg \in [Messages -> [pc : {"off", "cancelling", "replying", "interrupting",
                                 "sweeping", "cleaning", "delivered"},
                           chat : Chats \cup {Nowhere}, todo : Seq(Questions)]]

Found == \A q \in Questions : status[q] = "pending" =>
  IF Listed(q) THEN Hands(q) = {} ELSE \E m \in Messages : Hands(q) = {m}

Left == \A q \in ChoiceIds : tool[q].pc = "done" => q \notin entries

PeopleInv == PeopleType /\ Found /\ Left /\ ToolKnown /\ MessageKnown

RegInv == CoreInv /\ PeopleInv

LEMMA RegInvImplies ==
  RegInv => RegistryInv /\ ClosedOnce /\ OneSecret /\ Reported
<1> SUFFICES ASSUME RegInv PROVE RegistryInv /\ ClosedOnce /\ OneSecret /\ Reported
  OBVIOUS
<1> USE DEF RegInv, CoreInv, PeopleInv
<1>1. TypeOK
  BY DEF TypeOK, CoreType, PeopleType
<1>2. Findable
  BY DEF Findable, Found, Held, ListsOk
<1>3. NoLeak
  BY DEF NoLeak, Held, Left, Questions
<1>4. Reported
  BY DEF Reported, ToolKnown, Told
<1> QED
  BY <1>1, <1>2, <1>3, <1>4 DEF RegistryInv

LEMMA RegInitial == Init => RegInv
<1> SUFFICES ASSUME Init PROVE RegInv
  OBVIOUS
<1> USE DEF Init
<1>1. CoreInv
  <2>1. CoreType
    BY DEF CoreType
  <2>2. ListsOk /\ SecretsListed
    BY EmptyRange DEF ListsOk, SecretsListed
  <2>3. Held /\ OneSecret /\ Placed
    BY DEF Held, OneSecret, Placed, Questions
  <2>4. ClosedOnce
    BY DEF ClosedOnce, Final
  <2> QED
    BY <2>1, <2>2, <2>3, <2>4 DEF CoreInv
<1>2. PeopleInv
  BY EmptyRange
     DEF PeopleInv, PeopleType, Found, Left, ToolKnown, MessageKnown, Questions
<1> QED
  BY <1>1, <1>2 DEF RegInv

\* What becomes of the statuses in a step: what is settled stays so, and a
\* question is asked once.
Onward == \A q \in Questions :
  /\ status[q] \in Final => status'[q] = status[q]
  /\ status[q] # "none" => status'[q] # "none"

LEMMA MessageStays ==
  ASSUME MessageKnown, PeopleType, Onward, msg' = msg
  PROVE  MessageKnown'
<1> SUFFICES ASSUME NEW m \in Messages
             PROVE  /\ \A q \in Range(msg[m].todo) : q \in ChoiceIds /\ status'[q] # "none"
                    /\ msg[m].pc = "cleaning" =>
                         msg[m].todo # <<>> /\ status'[Head(msg[m].todo)] \in Final
  BY DEF MessageKnown
<1>1. \A q \in Range(msg[m].todo) : q \in ChoiceIds /\ status'[q] # "none"
  BY DEF MessageKnown, Onward, Questions
<1>2. msg[m].pc = "cleaning" => Head(msg[m].todo) \in ChoiceIds
  BY NonEmptyRange DEF MessageKnown, PeopleType
<1> QED
  BY <1>1, <1>2 DEF MessageKnown, Onward, Questions

\* A tool goes on while others change the registry around it.
Spared == \A q \in ChoiceIds :
  /\ status[q] # "pending" => status'[q] = status[q]
  /\ status[q] = "pending" => status'[q] \in {"pending", "answered", "interrupted"}
  /\ q \in entries \cup swept => q \in entries' \cup swept'

LEMMA ToolStays ==
  ASSUME ToolKnown, Left, Spared, tool' = tool, swept \subseteq swept',
         entries' \cap ChoiceIds \subseteq entries
  PROVE  ToolKnown' /\ Left'
<1>1. ToolKnown'
  BY DEF ToolKnown, Told, Spared, Final
<1>2. Left'
  BY DEF Left
<1> QED
  BY <1>1, <1>2

\* Nobody takes a list in hand, nothing new is asked, and what stays pending
\* stays listed if it was.
LEMMA FoundStays ==
  ASSUME Found, \A m \in Messages : Range(msg'[m].todo) = Range(msg[m].todo),
         \A q \in Questions : status'[q] = "pending" =>
           status[q] = "pending" /\ (Listed(q)' <=> Listed(q))
  PROVE  Found'
<1>1. \A q : Hands(q)' = Hands(q)
  BY DEF Hands
<1> QED
  BY <1>1 DEF Found

(***************************************************************************)
(* The steps of user_choice.                                               *)
(***************************************************************************)
\* What finalize does, whether or not there is anything to settle.
LEMMA FinalizeKeeps ==
  ASSUME RegInv, NEW q \in ChoiceIds, NEW s \in Final, Finalize(q, s),
         UNCHANGED <<entries, place>>
  PROVE  /\ CoreInv' /\ Onward
         /\ \A x \in Questions \ {q} : status'[x] = status[x]
         /\ status'[q] = IF status[q] = "pending" THEN s ELSE status[q]
         /\ \A x \in Questions : status'[x] = "pending" =>
              status[x] = "pending" /\ (Listed(x)' <=> Listed(x))
<1> USE DEF RegInv, Questions
<1>1. Pending(q) <=> status[q] = "pending"
  BY DEF Pending, CoreInv, Held
<1>2. CASE ~ Pending(q)
  <2>1. UNCHANGED <<status, closes, index>>
    BY <1>2 DEF Finalize
  <2>2. CoreInv'
    BY <2>1, CoreUnchanged
  <2> QED
    BY <1>1, <1>2, <2>1, <2>2 DEF Onward, Listed
<1>3. CASE Pending(q)
  <2>1. Settle({q}, s) /\ index' = Unlisted(q)
    BY <1>3 DEF Finalize
  <2>2. CoreInv'
    BY <1>3, <2>1, SettleKeeps
  <2>3. status'[q] = s /\ \A x \in Questions \ {q} : status'[x] = status[x]
    BY <2>1 DEF Settle
  <2>4. \A j \in Keys : \A x : x \in Range(index'[j]) <=> x \in Range(index[j]) /\ x # q
    BY <1>1, <1>3, <2>1, UnlistedLists
  <2>5. \A x \in Questions \ {q} : status[x] = "pending" => (Listed(x)' <=> Listed(x))
    BY <2>4 DEF Listed, CoreInv, Placed
  <2>6. s # "pending" /\ s # "none" /\ status[q] \notin Final
    BY <1>1, <1>3 DEF Final
  <2>7. Onward
    BY <2>3, <2>6 DEF Onward
  <2> QED
    BY <1>1, <1>3, <2>2, <2>3, <2>5, <2>6, <2>7
<1> QED
  BY <1>2, <1>3

LEMMA ReportType ==
  ASSUME PeopleType, NEW q \in ChoiceIds, NEW w \in {"lost", "aborted"} \cup Final,
         Report(q, w), UNCHANGED <<stale, swept, msg>>
  PROVE  /\ PeopleType'
         /\ tool'[q] = [pc |-> "leaving", outcome |-> w]
         /\ \A x \in ChoiceIds \ {q} : tool'[x] = tool[x]
  BY DEF PeopleType, Report

LEMMA AbortKeeps ==
  ASSUME RegInv, NEW q \in ChoiceIds, Abort(q)
  PROVE  RegInv'
<1> USE DEF RegInv, PeopleInv, Questions
<1>1. /\ Finalize(q, "cancelled") /\ Report(q, "aborted") /\ tool[q].pc = "asked"
      /\ UNCHANGED <<entries, place, stale, msg, swept>>
  BY DEF Abort
<1>2. /\ CoreInv' /\ Onward
      /\ \A x \in Questions \ {q} : status'[x] = status[x]
      /\ status'[q] = IF status[q] = "pending" THEN "cancelled" ELSE status[q]
      /\ \A x \in Questions : status'[x] = "pending" =>
           status[x] = "pending" /\ (Listed(x)' <=> Listed(x))
  BY <1>1, FinalizeKeeps DEF Final
<1>3. /\ PeopleType'
      /\ tool'[q] = [pc |-> "leaving", outcome |-> "aborted"]
      /\ \A x \in ChoiceIds \ {q} : tool'[x] = tool[x]
  BY <1>1, ReportType
<1>4. Found' /\ MessageKnown'
  BY <1>1, <1>2, FoundStays, MessageStays
<1>5. ToolKnown' /\ Left'
  BY <1>1, <1>2, <1>3 DEF ToolKnown, Told, Left, Final
<1> QED
  BY <1>2, <1>3, <1>4, <1>5

LEMMA EndWaitKeeps ==
  ASSUME RegInv, NEW q \in ChoiceIds, EndWait(q)
  PROVE  RegInv'
<1> USE DEF RegInv, PeopleInv, Questions
<1>1. PICK why \in {"timeout", "cancelled"} :
        /\ Finalize(q, why)
        /\ Report(q, IF q \in entries /\ status[q] \in {"answered", "interrupted"}
                     THEN status[q] ELSE why)
  BY DEF EndWait
<1>2. tool[q].pc = "waiting" /\ UNCHANGED <<entries, place, stale, msg, swept>>
  BY DEF EndWait
<1> DEFINE what == IF q \in entries /\ status[q] \in {"answered", "interrupted"}
                   THEN status[q] ELSE why
<1>3. /\ CoreInv' /\ Onward
      /\ \A x \in Questions \ {q} : status'[x] = status[x]
      /\ status'[q] = IF status[q] = "pending" THEN why ELSE status[q]
      /\ \A x \in Questions : status'[x] = "pending" =>
           status[x] = "pending" /\ (Listed(x)' <=> Listed(x))
  BY <1>1, <1>2, FinalizeKeeps DEF Final
<1>4. what \in Final
  BY DEF Final
<1>5. what = status'[q] \/ (q \in swept /\ what = why)
  BY <1>2, <1>3 DEF ToolKnown, CoreInv, Held
<1> HIDE DEF what
<1>6. /\ PeopleType'
      /\ tool'[q] = [pc |-> "leaving", outcome |-> what]
      /\ \A x \in ChoiceIds \ {q} : tool'[x] = tool[x]
  BY <1>1, <1>2, <1>4, ReportType DEF what
<1>7. Found' /\ MessageKnown'
  BY <1>2, <1>3, FoundStays, MessageStays
<1>8. status'[q] \in Final
  BY <1>2, <1>3 DEF ToolKnown, Final
<1>9. ToolKnown' /\ Left'
  BY <1>2, <1>3, <1>5, <1>6, <1>8 DEF ToolKnown, Told, Left, Final
<1> QED
  BY <1>3, <1>6, <1>7, <1>9

LEMMA WaitKeeps ==
  ASSUME RegInv, NEW q \in ChoiceIds, StartWait(q) \/ Wake(q)
  PROVE  RegInv'
<1> USE DEF RegInv, PeopleInv, Questions
<1>1. UNCHANGED <<entries, status, place, index, closes, stale, msg, swept>>
  BY DEF StartWait, Wake
<1>2. CoreInv'
  BY <1>1, CoreUnchanged
<1>3. Found' /\ MessageKnown'
  <2>1. Onward /\ \A x : Listed(x)' <=> Listed(x)
    BY <1>1 DEF Onward, Listed
  <2> QED
    BY <1>1, <2>1, FoundStays, MessageStays
<1>4. status[q] # "pending" => status[q] \in Final \cup {"none"}
  BY DEF CoreInv, CoreType
<1>5. CASE StartWait(q) /\ q \in entries
  <2>1. /\ tool' = [tool EXCEPT ![q].pc = "waiting"] /\ tool[q].pc = "asked"
    BY <1>5 DEF StartWait
  <2>2. PeopleType'
    BY <1>1, <2>1 DEF PeopleType
  <2>3. tool'[q].pc = "waiting" /\ \A x \in ChoiceIds \ {q} : tool'[x] = tool[x]
    BY <2>1 DEF PeopleType
  <2>4. ToolKnown' /\ Left'
    BY <1>1, <2>1, <2>3 DEF ToolKnown, Told, Left
  <2> QED
    BY <1>2, <1>3, <2>2, <2>4
<1>6. CASE StartWait(q) /\ q \notin entries
  <2>1. Report(q, "lost") /\ tool[q].pc = "asked"
    BY <1>6 DEF StartWait
  <2>2. /\ PeopleType' /\ tool'[q] = [pc |-> "leaving", outcome |-> "lost"]
        /\ \A x \in ChoiceIds \ {q} : tool'[x] = tool[x]
    BY <1>1, <2>1, ReportType
  <2>3. status[q] \in Final /\ q \in swept
    BY <1>4, <1>6, <2>1 DEF ToolKnown, CoreInv, Held
  <2>4. ToolKnown' /\ Left'
    BY <1>1, <1>6, <2>2, <2>3 DEF ToolKnown, Told, Left, Final
  <2> QED
    BY <1>2, <1>3, <2>2, <2>4
<1>7. CASE Wake(q)
  <2>1. Report(q, status[q]) /\ tool[q].pc = "waiting" /\ status[q] # "pending"
    BY <1>7 DEF Wake
  <2>2. status[q] \in Final
    BY <1>4, <2>1 DEF ToolKnown
  <2>3. /\ PeopleType' /\ tool'[q] = [pc |-> "leaving", outcome |-> status[q]]
        /\ \A x \in ChoiceIds \ {q} : tool'[x] = tool[x]
    BY <1>1, <2>1, <2>2, ReportType
  <2>4. ToolKnown' /\ Left'
    BY <1>1, <2>1, <2>2, <2>3 DEF ToolKnown, Told, Left, Final
  <2> QED
    BY <1>2, <1>3, <2>3, <2>4
<1> QED
  BY <1>5, <1>6, <1>7

LEMMA LeaveKeeps ==
  ASSUME RegInv, NEW q \in ChoiceIds, LeaveTool(q)
  PROVE  RegInv'
<1> USE DEF RegInv, PeopleInv, Questions
<1>1. /\ tool[q].pc = "leaving" /\ tool' = [tool EXCEPT ![q].pc = "done"]
      /\ entries' = Cleaned(q)
      /\ UNCHANGED <<status, place, index, closes, stale, msg, swept>>
  BY DEF LeaveTool
<1>2. CoreInv'
  BY <1>1, CleanKeeps
<1>3. status[q] \in Final
  BY <1>1 DEF ToolKnown
<1>4. entries' = entries \ {q}
  BY <1>1, <1>3 DEF Cleaned, Final
<1>5. Found' /\ MessageKnown'
  <2>1. Onward /\ \A x : Listed(x)' <=> Listed(x)
    BY <1>1 DEF Onward, Listed
  <2> QED
    BY <1>1, <2>1, FoundStays, MessageStays
<1>6. /\ PeopleType'
      /\ tool'[q] = [pc |-> "done", outcome |-> tool[q].outcome]
      /\ \A x \in ChoiceIds \ {q} : tool'[x] = tool[x]
  BY <1>1 DEF PeopleType
<1>7. ToolKnown' /\ Left'
  BY <1>1, <1>3, <1>4, <1>6 DEF ToolKnown, Told, Left
<1> QED
  BY <1>2, <1>5, <1>6, <1>7

(***************************************************************************)
(* RegisterQuestion.                                                       *)
(***************************************************************************)
\* A question that is asked is in no interruption's hands.
LEMMA NewInNoHands ==
  ASSUME RegInv, NEW q \in Questions, status[q] = "none" \/ q \in SecretIds
  PROVE  Hands(q) = {}
  BY InteractionAssumption DEF RegInv, PeopleInv, MessageKnown, Hands

LEMMA RegisterChoiceKeeps ==
  ASSUME RegInv, NEW q \in ChoiceIds, NEW c \in Chats, RegisterChoice(q, c)
  PROVE  RegInv'
<1> USE DEF RegInv, PeopleInv, Questions
<1> DEFINE k == ChatKey(c)
<1>1. /\ status[q] = "none" /\ status' = [status EXCEPT ![q] = "pending"]
      /\ entries' = entries \cup {q}
      /\ place' = [place EXCEPT ![q] = k]
      /\ index' = [index EXCEPT ![k] = Append(@, q)]
      /\ tool' = [tool EXCEPT ![q].pc = "asked"]
      /\ UNCHANGED <<closes, stale, msg, swept>>
  BY DEF RegisterChoice
<1>2. CoreInv'
  BY ChoiceKeeps
<1>3. k \in Keys
  BY ChatKeyType
<1> HIDE DEF k
<1>4. /\ status'[q] = "pending" /\ place'[q] = k
      /\ \A x \in Questions \ {q} : status'[x] = status[x] /\ place'[x] = place[x]
  BY <1>1, <1>3 DEF CoreInv, CoreType
<1>5. /\ index[k] \in Seq(Questions)
      /\ index'[k] = Append(index[k], q)
      /\ \A j \in Keys \ {k} : index'[j] = index[j]
  BY <1>1, <1>3 DEF CoreInv, CoreType
<1>6. Range(index'[k]) = Range(index[k]) \cup {q}
  BY <1>5, AppendOnce
<1>7. Listed(q)' /\ \A x \in Questions \ {q} : status[x] = "pending" => (Listed(x)' <=> Listed(x))
  BY <1>4, <1>5, <1>6 DEF Listed, CoreInv, Placed
<1>8. \A x : Hands(x)' = Hands(x)
  BY <1>1 DEF Hands
<1>9. Found'
  BY <1>1, <1>4, <1>7, <1>8, NewInNoHands DEF Found
<1>10. MessageKnown'
  <2>1. Onward
    BY <1>1, <1>4 DEF Onward, Final
  <2> QED
    BY <1>1, <2>1, MessageStays
<1>11. /\ PeopleType' /\ tool'[q].pc = "asked"
       /\ \A x \in ChoiceIds \ {q} : tool'[x] = tool[x]
  BY <1>1 DEF PeopleType
<1>12. ToolKnown' /\ Left'
  BY <1>1, <1>4, <1>11 DEF ToolKnown, Told, Left
<1> QED
  BY <1>2, <1>9, <1>10, <1>11, <1>12

LEMMA RegisterSecretKeeps ==
  ASSUME RegInv, NEW q \in SecretIds, NEW c \in Chats, RegisterSecret(q, c)
  PROVE  RegInv'
<1> USE DEF RegInv, PeopleInv, Questions
<1> DEFINE k == SecretKey(c)
           old == Range(PendingSecrets(k))
           kept == Keep(index[k], Questions \ old)
<1>1. /\ k \in Keys /\ index[k] \in Seq(Questions) /\ status[q] = "none"
      /\ UNCHANGED <<stale, tool, msg, swept>>
  BY ChatKeyType DEF CoreInv, CoreType, RegisterSecret
<1>2. old = {x \in SecretIds : status[x] = "pending" /\ place[x] = k}
  BY <1>1, PendingSecretsAre
<1>3. /\ kept \in Seq(Questions)
      /\ \A x : x \in Range(kept) <=> x \in Range(index[k]) /\ x \in Questions \ old
  <2> HIDE DEF old, k
  <2> QED
    BY <1>1, KeepProperties
<1>4. /\ index' = [index EXCEPT ![k] = Append(kept, q)]
      /\ status' = [x \in Questions |->
           IF x = q THEN "pending" ELSE IF x \in old THEN "timeout" ELSE status[x]]
      /\ place' = [place EXCEPT ![q] = k]
      /\ entries' = (entries \ old) \cup {q}
  BY DEF RegisterSecret
<1> HIDE DEF kept, old, k
<1>5. CoreInv'
  BY SecretKeeps
<1>6. Range(Append(kept, q)) = Range(kept) \cup {q}
  BY <1>3, AppendOnce
<1>7. /\ index'[k] = Append(kept, q)
      /\ \A j \in Keys \ {k} : index'[j] = index[j]
      /\ \A x \in Questions \ {q} : place'[x] = place[x]
  BY <1>1, <1>4 DEF CoreInv, CoreType
<1>8. \A x \in ChoiceIds : x # q /\ x \notin old /\ status'[x] = status[x]
  BY <1>2, <1>4, InteractionAssumption
<1>9. \A x \in ChoiceIds : status[x] = "pending" => (Listed(x)' <=> Listed(x))
  BY <1>3, <1>6, <1>7, <1>8 DEF Listed, CoreInv, Placed
<1>10. \A x : Hands(x)' = Hands(x)
  BY <1>1 DEF Hands
<1>11. Found'
  <2>1. \A x \in SecretIds : status'[x] = "pending" => Listed(x)'
    BY <1>5 DEF CoreInv, Held
  <2> QED
    BY <1>8, <1>9, <1>10, <2>1, NewInNoHands DEF Found
<1>12. MessageKnown'
  <2>1. Onward
    BY <1>1, <1>2, <1>4 DEF Onward, Final
  <2> QED
    BY <1>1, <2>1, MessageStays
<1>13. ToolKnown' /\ Left'
  <2>1. Spared
    BY <1>1, <1>4, <1>8 DEF Spared
  <2>2. entries' \cap ChoiceIds \subseteq entries
    BY <1>4, <1>8
  <2> QED
    BY <1>1, <2>1, <2>2, ToolStays DEF Spared
<1>14. PeopleType'
  BY <1>1 DEF PeopleType
<1> QED
  BY <1>5, <1>11, <1>12, <1>13, <1>14

(***************************************************************************)
(* The channels.                                                           *)
(***************************************************************************)
LEMMA ResolveKeeps ==
  ASSUME RegInv, NEW q \in ChoiceIds, NEW c \in Chats, ResolveFrom(q, c)
  PROVE  RegInv'
<1> USE DEF RegInv, PeopleInv, Questions
<1>1. /\ Pending(q) /\ Settle({q}, "answered")
      /\ UNCHANGED <<entries, place, index, stale, tool, msg, swept>>
  BY DEF ResolveFrom
<1>2. CoreInv'
  BY <1>1, AnswerKeeps
<1>3. /\ status[q] = "pending" /\ status'[q] = "answered"
      /\ \A x \in Questions \ {q} : status'[x] = status[x]
  BY <1>1 DEF Pending, Settle
<1>4. Found' /\ MessageKnown'
  <2>1. Onward /\ \A x : Listed(x)' <=> Listed(x)
    BY <1>1, <1>3 DEF Onward, Listed, Final
  <2> QED
    BY <1>1, <1>3, <2>1, FoundStays, MessageStays
<1>5. ToolKnown' /\ Left'
  <2>1. Spared
    BY <1>1, <1>3 DEF Spared
  <2> QED
    BY <1>1, <2>1, ToolStays
<1>6. PeopleType'
  BY <1>1 DEF PeopleType
<1> QED
  BY <1>2, <1>4, <1>5, <1>6

\* A secret is claimed, by a form, a reply or a cancellation.
LEMMA ClaimSpares ==
  ASSUME RegInv, NEW q \in SecretIds, NEW s \in Final, Pending(q), Claim(q, s),
         UNCHANGED <<place, stale, tool, swept>>
  PROVE  /\ CoreInv' /\ Onward /\ ToolKnown' /\ Left'
         /\ \A x \in Questions : status'[x] = "pending" =>
              status[x] = "pending" /\ (Listed(x)' <=> Listed(x))
<1> USE DEF RegInv, PeopleInv, Questions
<1>1. CoreInv'
  BY ClaimKeeps
<1>2. /\ status[q] = "pending" /\ status'[q] = s
      /\ \A x \in Questions \ {q} : status'[x] = status[x]
      /\ entries' = entries \ {q}
  BY DEF Pending, Claim, Settle
<1>3. s # "pending" /\ s # "none" /\ q \notin ChoiceIds
  BY InteractionAssumption DEF Final
<1>4. \A j \in Keys : \A x : x \in Range(index'[j]) <=> x \in Range(index[j]) /\ x # q
  BY <1>2, UnlistedLists DEF Claim
<1>5. \A x \in Questions \ {q} : status[x] = "pending" => (Listed(x)' <=> Listed(x))
  BY <1>4 DEF Listed, CoreInv, Placed
<1>6. Onward
  BY <1>2, <1>3 DEF Onward, Final
<1>7. Spared
  BY <1>2, <1>3 DEF Spared
<1>8. ToolKnown' /\ Left'
  BY <1>2, <1>7, ToolStays
<1> QED
  BY <1>1, <1>2, <1>3, <1>5, <1>6, <1>8

LEMMA FormKeeps ==
  ASSUME RegInv, NEW q \in SecretIds, NEW cancel \in BOOLEAN, ClaimSecretForm(q, cancel)
  PROVE  RegInv'
<1> DEFINE s == IF cancel THEN "cancelled" ELSE IF q \in stale THEN "timeout" ELSE "answered"
<1>1. /\ Pending(q) /\ Claim(q, s) /\ s \in Final
      /\ UNCHANGED <<place, stale, tool, msg, swept>>
  BY DEF ClaimSecretForm, Final
<1> HIDE DEF s
<1>2. /\ CoreInv' /\ Onward /\ ToolKnown' /\ Left'
      /\ \A x \in Questions : status'[x] = "pending" =>
           status[x] = "pending" /\ (Listed(x)' <=> Listed(x))
  BY <1>1, ClaimSpares
<1>3. Found' /\ MessageKnown'
  BY <1>1, <1>2, FoundStays, MessageStays DEF RegInv, PeopleInv
<1>4. PeopleType'
  BY <1>1 DEF RegInv, PeopleInv, PeopleType
<1> QED
  BY <1>2, <1>3, <1>4 DEF RegInv, PeopleInv

\* Steps that leave the registry and the messages' hands as they are.
LEMMA LapseKeeps ==
  ASSUME RegInv, NEW q \in SecretIds, Lapse(q)
  PROVE  RegInv'
<1> USE DEF RegInv, PeopleInv
<1>1. UNCHANGED <<entries, status, place, index, closes, tool, msg, swept>>
  BY DEF Lapse
<1>2. CoreInv'
  BY <1>1, CoreUnchanged
<1>3. PeopleType'
  BY DEF Lapse, PeopleType
<1>4. Onward /\ Spared /\ \A x : Listed(x)' <=> Listed(x)
  BY <1>1 DEF Onward, Spared, Listed
<1>5. ToolKnown' /\ Left'
  BY <1>1, <1>4, ToolStays
<1> QED
  BY <1>1, <1>2, <1>3, <1>4, <1>5, FoundStays, MessageStays

(***************************************************************************)
(* The ingress.                                                            *)
(***************************************************************************)
\* What a step of one message does to the others, and to the hands that hold
\* a question.
LEMMA OneMessage ==
  ASSUME MessageKnown, PeopleType, Onward, NEW m \in Messages,
         \A n \in Messages \ {m} : msg'[n] = msg[n],
         msg'[m].pc \in {"cancelling", "replying", "interrupting"} => msg'[m].chat \in Chats,
         msg'[m].pc \notin {"sweeping", "cleaning"} => msg'[m].todo = <<>>,
         \A q \in Range(msg'[m].todo) : q \in ChoiceIds /\ status'[q] # "none",
         msg'[m].pc = "cleaning" =>
           msg'[m].todo # <<>> /\ status'[Head(msg'[m].todo)] \in Final
  PROVE  MessageKnown'
<1>1. ASSUME NEW n \in Messages \ {m}
      PROVE  /\ \A q \in Range(msg[n].todo) : q \in ChoiceIds /\ status'[q] # "none"
             /\ msg[n].pc = "cleaning" => status'[Head(msg[n].todo)] \in Final
  <2>1. \A q \in Range(msg[n].todo) : q \in ChoiceIds /\ status'[q] # "none"
    BY DEF MessageKnown, Onward, Questions
  <2>2. msg[n].pc = "cleaning" => Head(msg[n].todo) \in ChoiceIds
    BY NonEmptyRange DEF MessageKnown, PeopleType
  <2> QED
    BY <2>1, <2>2 DEF MessageKnown, Onward, Questions
<1> QED
  BY <1>1 DEF MessageKnown

\* The message moves on with nothing in hand, and the registry stays.
LEMMA MoveKeeps ==
  ASSUME RegInv, NEW m \in Messages,
         UNCHANGED <<entries, status, place, index, closes, stale, tool, swept>>,
         PeopleType', \A n \in Messages \ {m} : msg'[n] = msg[n],
         msg[m].todo = <<>>, msg'[m].todo = <<>>, msg'[m].pc # "cleaning",
         msg'[m].chat \in Chats \/ msg'[m].pc = "delivered"
  PROVE  RegInv'
<1> USE DEF RegInv, PeopleInv
<1>1. CoreInv'
  BY CoreUnchanged
<1>2. Onward /\ Spared /\ \A x : Listed(x)' <=> Listed(x)
  BY DEF Onward, Spared, Listed
<1>3. ToolKnown' /\ Left'
  BY <1>2, ToolStays
<1>4. MessageKnown'
  BY <1>2, OneMessage, EmptyRange
<1>5. Found'
  BY <1>2, FoundStays
<1> QED
  BY <1>1, <1>3, <1>4, <1>5

LEMMA ArriveKeeps ==
  ASSUME RegInv, NEW m \in Messages, Arrive(m) \/ Deliver(m)
  PROVE  RegInv'
<1> USE DEF RegInv, PeopleInv
<1>1. CASE Arrive(m)
  <2>1. PICK c \in Chats, pc \in {"cancelling", "replying"} :
          msg' = [msg EXCEPT ![m] = [pc |-> pc, chat |-> c, todo |-> <<>>]]
    BY <1>1 DEF Arrive
  <2>2. msg[m].todo = <<>>
    BY <1>1 DEF Arrive, MessageKnown
  <2>3. /\ msg'[m] = [pc |-> pc, chat |-> c, todo |-> <<>>]
        /\ \A n \in Messages \ {m} : msg'[n] = msg[n]
    BY <2>1 DEF PeopleType
  <2>4. PeopleType'
    BY <1>1, <2>1 DEF Arrive, PeopleType
  <2> QED
    BY <1>1, <2>2, <2>3, <2>4, MoveKeeps DEF Arrive
<1>2. CASE Deliver(m)
  <2>1. /\ msg'[m].pc = "delivered" /\ msg[m].todo = <<>> /\ msg'[m].todo = <<>>
        /\ \A n \in Messages \ {m} : msg'[n] = msg[n]
        /\ PeopleType'
    BY <1>2 DEF Deliver, PeopleType
  <2> QED
    BY <1>2, <2>1, MoveKeeps DEF Deliver
<1> QED
  BY <1>1, <1>2

\* A secret is claimed for the message, which moves on.
LEMMA MessageClaims ==
  ASSUME RegInv, NEW m \in Messages, NEW q \in SecretIds, NEW s \in Final,
         Pending(q), Claim(q, s), UNCHANGED <<place, stale, tool, swept>>,
         msg[m].todo = <<>>, msg[m].chat \in Chats, Goto(m, "interrupting")
  PROVE  RegInv'
<1> USE DEF RegInv, PeopleInv
<1>1. /\ CoreInv' /\ Onward /\ ToolKnown' /\ Left'
      /\ \A x \in Questions : status'[x] = "pending" =>
           status[x] = "pending" /\ (Listed(x)' <=> Listed(x))
  BY ClaimSpares
<1>2. /\ msg'[m] = [pc |-> "interrupting", chat |-> msg[m].chat, todo |-> <<>>]
      /\ \A n \in Messages \ {m} : msg'[n] = msg[n]
      /\ PeopleType'
  BY DEF Goto, PeopleType
<1>3. MessageKnown'
  BY <1>1, <1>2, OneMessage, EmptyRange
<1>4. Found'
  BY <1>1, <1>2, FoundStays
<1> QED
  BY <1>1, <1>2, <1>3, <1>4

LEMMA SecretReplyKeeps ==
  ASSUME RegInv, NEW m \in Messages, CancelSecret(m) \/ TakeSecretReply(m)
  PROVE  RegInv'
<1> DEFINE k == SecretKey(msg[m].chat)
<1>1. /\ msg[m].chat \in Chats /\ msg[m].todo = <<>> /\ k \in Keys
      /\ UNCHANGED <<place, stale, tool, swept>>
  BY ChatKeyType DEF CancelSecret, TakeSecretReply, RegInv, PeopleInv, MessageKnown
<1> HIDE DEF k
<1>2. /\ PendingSecrets(k) \in Seq(Questions)
      /\ \A q \in Range(PendingSecrets(k)) : q \in SecretIds /\ Pending(q)
  BY <1>1, PendingSecretsAre DEF RegInv, CoreInv, Held, Pending, Questions
<1>3. ASSUME NEW pc \in {"replying", "interrupting"}, Goto(m, pc),
             UNCHANGED <<entries, status, index, closes>>
      PROVE  RegInv'
  <2>1. /\ msg'[m].pc = pc /\ msg'[m].chat = msg[m].chat /\ msg'[m].todo = <<>>
        /\ \A n \in Messages \ {m} : msg'[n] = msg[n]
        /\ PeopleType'
    BY <1>1, <1>3 DEF Goto, RegInv, PeopleInv, PeopleType
  <2> QED
    BY <1>1, <1>3, <2>1, MoveKeeps
<1>4. CASE CancelSecret(m)
  <2>1. CASE PendingSecrets(k) = <<>>
    BY <1>3, <1>4, <2>1 DEF CancelSecret, k
  <2>2. CASE PendingSecrets(k) # <<>>
    <3>1. Goto(m, "interrupting") /\ Claim(Head(PendingSecrets(k)), "cancelled")
      BY <1>4, <2>2 DEF CancelSecret, k
    <3>2. Head(PendingSecrets(k)) \in SecretIds /\ Pending(Head(PendingSecrets(k)))
      BY <1>2, <2>2, NonEmptyRange
    <3> QED
      BY <1>1, <3>1, <3>2, MessageClaims DEF Final
  <2> QED
    BY <2>1, <2>2
<1>5. CASE TakeSecretReply(m)
  <2> DEFINE secrets == Keep(PendingSecrets(k), {q \in entries : ~Form(q)})
             q == Head(secrets)
             s == IF q \in stale THEN "timeout" ELSE "answered"
  <2>1. /\ secrets \in Seq(Questions)
        /\ \A x : x \in Range(secrets) => x \in Range(PendingSecrets(k))
    BY <1>2, KeepProperties
  <2>2. CASE secrets = <<>>
    BY <1>3, <1>5, <2>2 DEF TakeSecretReply, k
  <2>3. CASE secrets # <<>>
    <3>1. Goto(m, "interrupting") /\ Claim(q, s)
      BY <1>5, <2>3 DEF TakeSecretReply, k
    <3>2. q \in Range(secrets)
      BY <2>1, <2>3, NonEmptyRange
    <3>3. s \in Final
      BY DEF Final
    <3> HIDE DEF s, q, secrets
    <3>4. q \in SecretIds /\ Pending(q)
      BY <1>2, <2>1, <3>2
    <3> QED
      BY <1>1, <3>1, <3>3, <3>4, MessageClaims
  <2> QED
    BY <2>2, <2>3
<1> QED
  BY <1>4, <1>5

\* InterruptBySession takes the session's other questions in hand, ...
LEMMA InterruptTakes ==
  ASSUME RegInv, NEW m \in Messages, Interrupt(m)
  PROVE  RegInv'
<1> USE DEF RegInv, PeopleInv
<1> DEFINE k == ChatKey(msg[m].chat)
           kept == PendingSecrets(k)
           taken == Keep(index[k], Questions \ Range(kept))
<1>1. /\ msg[m].pc = "interrupting" /\ msg[m].todo = <<>> /\ k \in Keys
      /\ UNCHANGED <<entries, status, place, closes, stale, tool, swept>>
  BY ChatKeyType DEF Interrupt, MessageKnown
<1>2. /\ index' = [index EXCEPT ![k] = kept]
      /\ msg' = [msg EXCEPT ![m].pc = "sweeping", ![m].todo = taken]
  BY DEF Interrupt
<1>3. index[k] \in Seq(Questions) /\ Range(index[k]) \subseteq Questions
  BY <1>1, ListElements DEF CoreInv, CoreType
<1>4. /\ kept \in Seq(Questions)
      /\ Range(kept) = {q \in SecretIds : status[q] = "pending" /\ place[q] = k}
  <2> HIDE DEF k
  <2> QED
    BY <1>1, PendingSecretsAre
<1>5. /\ taken \in Seq(Questions)
      /\ \A x : x \in Range(taken) <=> x \in Range(index[k]) /\ x \in Questions \ Range(kept)
  <2> HIDE DEF kept, k
  <2> QED
    BY <1>3, KeepProperties
<1>6. CoreInv'
  BY <1>1, <1>2, InterruptKeeps
<1> HIDE DEF taken, kept, k
<1>7. /\ index'[k] = kept /\ \A j \in Keys \ {k} : index'[j] = index[j]
      /\ msg'[m].pc = "sweeping" /\ msg'[m].todo = taken
      /\ \A n \in Messages \ {m} : msg'[n] = msg[n]
      /\ PeopleType'
  BY <1>1, <1>2, <1>5 DEF PeopleType, CoreInv, CoreType
<1>8. \A x \in Range(taken) : x \in ChoiceIds /\ status[x] # "none" /\ place[x] = k
  BY <1>1, <1>3, <1>4, <1>5 DEF CoreInv, ListsOk, SecretsListed, Questions
<1>9. Onward /\ Spared
  BY <1>1 DEF Onward, Spared
<1>10. ToolKnown' /\ Left'
  BY <1>1, <1>9, ToolStays
<1>11. MessageKnown'
  BY <1>1, <1>7, <1>8, <1>9, OneMessage
<1>12. Found'
  <2> SUFFICES ASSUME NEW q \in Questions, status[q] = "pending"
               PROVE  IF Listed(q)' THEN Hands(q)' = {} ELSE \E n \in Messages : Hands(q)' = {n}
    BY <1>1 DEF Found
  <2>1. place[q] \in Keys /\ place'[q] = place[q]
    BY <1>1 DEF CoreInv, Placed
  <2>2. CASE q \in Range(taken)
    <3>1. Listed(q) /\ Hands(q) = {}
      BY <1>5, <1>8, <2>2 DEF Listed, Found
    <3>2. Hands(q)' = {m}
      BY <1>7, <2>2, <3>1 DEF Hands
    <3>3. ~ Listed(q)'
      BY <1>4, <1>7, <1>8, <2>1, <2>2, InteractionAssumption DEF Listed
    <3> QED
      BY <3>2, <3>3
  <2>3. CASE q \notin Range(taken)
    <3>1. Hands(q)' = Hands(q)
      BY <1>1, <1>7, <2>3, EmptyRange DEF Hands
    <3>2. Listed(q)' <=> Listed(q)
      BY <1>4, <1>5, <1>7, <2>1, <2>3 DEF Listed, CoreInv, Held
    <3> QED
      BY <3>1, <3>2 DEF Found
  <2> QED
    BY <2>2, <2>3
<1> QED
  BY <1>6, <1>7, <1>10, <1>11, <1>12

\* ... finalizes the first of them, ...
LEMMA SweepFinalizeKeeps ==
  ASSUME RegInv, NEW m \in Messages, SweepFinalize(m)
  PROVE  RegInv'
<1> USE DEF RegInv, PeopleInv
<1> DEFINE q == Head(msg[m].todo)
<1>1. /\ msg[m].pc = "sweeping" /\ msg[m].todo # <<>>
      /\ Finalize(q, "interrupted") /\ Goto(m, "cleaning")
      /\ UNCHANGED <<entries, place, stale, tool, swept>>
  BY DEF SweepFinalize
<1>2. q \in ChoiceIds /\ status[q] # "none"
  BY <1>1, NonEmptyRange DEF MessageKnown, PeopleType
<1> HIDE DEF q
<1>3. /\ CoreInv' /\ Onward
      /\ \A x \in Questions \ {q} : status'[x] = status[x]
      /\ status'[q] = IF status[q] = "pending" THEN "interrupted" ELSE status[q]
      /\ \A x \in Questions : status'[x] = "pending" =>
           status[x] = "pending" /\ (Listed(x)' <=> Listed(x))
  BY <1>1, <1>2, FinalizeKeeps DEF Final
<1>4. /\ msg'[m].pc = "cleaning" /\ msg'[m].todo = msg[m].todo
      /\ \A n \in Messages \ {m} : msg'[n] = msg[n]
      /\ PeopleType'
  BY <1>1 DEF Goto, PeopleType
<1>5. status'[q] \in Final
  BY <1>2, <1>3 DEF CoreInv, CoreType, Final, Questions
<1>6. \A x \in Range(msg[m].todo) : x \in ChoiceIds /\ status'[x] # "none"
  BY <1>3 DEF MessageKnown, Onward, Questions
<1>7. MessageKnown'
  BY <1>1, <1>3, <1>4, <1>5, <1>6, OneMessage DEF q
<1>8. Found'
  BY <1>3, <1>4, FoundStays
<1>9. ToolKnown' /\ Left'
  <2>1. Spared
    BY <1>1, <1>2, <1>3 DEF Spared, Questions
  <2> QED
    BY <1>1, <2>1, ToolStays
<1> QED
  BY <1>3, <1>4, <1>7, <1>8, <1>9

\* ... and cleans up after it.
LEMMA SweepCleanupKeeps ==
  ASSUME RegInv, NEW m \in Messages, SweepCleanup(m)
  PROVE  RegInv'
<1> USE DEF RegInv, PeopleInv
<1> DEFINE q == Head(msg[m].todo)
<1>1. /\ msg[m].pc = "cleaning" /\ msg[m].todo # <<>> /\ status[q] \in Final
      /\ entries' = Cleaned(q)
      /\ swept' = swept \cup (entries \cap {q})
      /\ msg' = [msg EXCEPT ![m].pc = "sweeping", ![m].todo = Tail(@)]
      /\ UNCHANGED <<status, place, index, closes, stale, tool>>
  BY DEF SweepCleanup, MessageKnown
<1>2. /\ q \in ChoiceIds /\ Tail(msg[m].todo) \in Seq(Questions)
      /\ Range(msg[m].todo) = {q} \cup Range(Tail(msg[m].todo))
  BY <1>1, HeadAndTail DEF MessageKnown, PeopleType
<1> HIDE DEF q
<1>3. entries' = entries \ {q}
  BY <1>1 DEF Cleaned, Final
<1>4. CoreInv'
  BY <1>1, <1>2, CleanKeeps
<1>5. /\ msg'[m].pc = "sweeping" /\ msg'[m].todo = Tail(msg[m].todo)
      /\ \A n \in Messages \ {m} : msg'[n] = msg[n]
      /\ PeopleType'
  BY <1>1, <1>2 DEF PeopleType
<1>6. Onward /\ Spared /\ \A x : Listed(x)' <=> Listed(x)
  BY <1>1, <1>3 DEF Onward, Spared, Listed
<1>7. MessageKnown'
  <2>1. \A x \in Range(msg'[m].todo) : x \in ChoiceIds /\ status'[x] # "none"
    BY <1>1, <1>2, <1>5 DEF MessageKnown
  <2> QED
    BY <1>5, <1>6, <2>1, OneMessage
<1>8. \A x \in Questions : status[x] = "pending" => Hands(x)' = Hands(x)
  BY <1>1, <1>2, <1>5 DEF Hands, Final
<1>9. Found'
  BY <1>1, <1>6, <1>8 DEF Found
<1>10. ToolKnown' /\ Left'
  BY <1>1, <1>3, <1>6, ToolStays
<1> QED
  BY <1>4, <1>5, <1>7, <1>9, <1>10

LEMMA RegInductive == RegInv /\ [Next]_vars => RegInv'
<1> SUFFICES ASSUME RegInv, [Next]_vars PROVE RegInv'
  OBVIOUS
<1>1. ASSUME NEW q \in ChoiceIds, NEW c \in Chats, RegisterChoice(q, c) \/ ResolveFrom(q, c)
      PROVE  RegInv'
  BY <1>1, RegisterChoiceKeeps, ResolveKeeps
<1>2. ASSUME NEW q \in ChoiceIds,
             Abort(q) \/ StartWait(q) \/ Wake(q) \/ EndWait(q) \/ LeaveTool(q)
      PROVE  RegInv'
  BY <1>2, AbortKeeps, WaitKeeps, EndWaitKeeps, LeaveKeeps
<1>3. ASSUME NEW q \in SecretIds, NEW c \in Chats, RegisterSecret(q, c)
      PROVE  RegInv'
  BY <1>3, RegisterSecretKeeps
<1>4. ASSUME NEW q \in SecretIds, NEW cancel \in BOOLEAN, ClaimSecretForm(q, cancel)
      PROVE  RegInv'
  BY <1>4, FormKeeps
<1>5. ASSUME NEW q \in SecretIds, Lapse(q) PROVE RegInv'
  BY <1>5, LapseKeeps
<1>6. ASSUME NEW m \in Messages,
             \/ Arrive(m) \/ CancelSecret(m) \/ TakeSecretReply(m) \/ Interrupt(m)
             \/ SweepFinalize(m) \/ SweepCleanup(m) \/ Deliver(m)
      PROVE  RegInv'
  BY <1>6, ArriveKeeps, SecretReplyKeeps, InterruptTakes, SweepFinalizeKeeps, SweepCleanupKeeps
<1>7. CASE UNCHANGED vars
  <2>1. Onward /\ Spared /\ \A x : Listed(x)' <=> Listed(x)
    BY <1>7 DEF vars, Onward, Spared, Listed
  <2>2. PeopleType'
    BY <1>7 DEF vars, RegInv, PeopleInv, PeopleType
  <2>3. ToolKnown' /\ Left' /\ MessageKnown' /\ Found' /\ CoreInv'
    BY <1>7, <2>1, ToolStays, MessageStays, FoundStays, CoreUnchanged
       DEF vars, RegInv, PeopleInv
  <2> QED
    BY <2>2, <2>3 DEF RegInv, PeopleInv
<1> QED
  BY <1>1, <1>2, <1>3, <1>4, <1>5, <1>6, <1>7 DEF Next

LEMMA RegAlways == Spec => []RegInv
  BY RegInitial, RegInductive, PTL DEF Spec

\* Every pending question can be found by whoever must end it: it is
\* registered, and listed under its session or in the hands of exactly one
\* interruption; and no entry outlives its question's tool or secret.
THEOREM EntriesAndIndexAgree == Spec => []RegistryInv
  BY RegAlways, RegInvImplies, PTL

\* No done channel is closed twice, nor any left open behind a question that
\* is settled, in whatever order answers, timeouts and interruptions come.
THEOREM SettledOnce == Spec => []ClosedOnce
  BY RegAlways, RegInvImplies, PTL

\* A session has one pending secret at most, so that a reply that names no
\* request finds the right one.
THEOREM OneSecretAtATime == Spec => []OneSecret
  BY RegAlways, RegInvImplies, PTL

\* A tool reports what became of its question, unless an interruption removed
\* the entry under it.
THEOREM ReportsAreTrue == Spec => []Reported
  BY RegAlways, RegInvImplies, PTL

=============================================================================
