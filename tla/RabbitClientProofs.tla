-------------------------- MODULE RabbitClientProofs --------------------------
(***************************************************************************)
(* Theorems about RabbitClient, for any number of publishing goroutines,   *)
(* lists of any length and any number of breaks.                           *)
(***************************************************************************)
EXTENDS RabbitClient, SequenceTheorems, TLAPS

USE ConstantsAssumption DEF ConstantsAssumption

PCs == {"ensure", "loop", "dial", "open", "use", "sent", "done", "failed", "receive", "ack",
        "exited"}
ConsumerPCs == {"ensure", "loop", "dial", "open", "use", "receive", "ack", "exited"}
Errors == {"none", "write", "not open"}
Counters == [breaks : Nat, dials : Nat, channels : Nat]
Locals == [pc : PCs, batch : 1 .. Batches, try : {1, 2}, err : Errors, chan : Nat]

TypeOK ==
  /\ conn \in {"none", "open", "broken", "closed"}
  /\ channel \in Nat
  /\ openChans \in SUBSET Nat
  /\ mu \in Threads \cup {Nobody}
  /\ threads \in [Threads -> Locals]
  /\ wire \in Seq(Publication) /\ stored \in Seq(Publication)
  /\ queue \in Seq(Nat) /\ unacked \in Seq(Nat) /\ acked \in SUBSET Nat
  /\ inbox \in Seq(Nat) /\ handled \in Seq(Nat)
  /\ successes \in SUBSET Publication
  /\ used \in Counters

\* Inside of ensureChannel, and before the channel that is opened there.
Ensuring(t) == threads[t].pc \in {"loop", "dial", "open"}
Reopening(t) == threads[t].pc \in {"dial", "open"}

LockInv ==
  /\ OneChannelOpen
  /\ \A t \in Threads : Ensuring(t) => mu = t
  /\ \A t \in Threads : Reopening(t) => IsClosed(channel)

\* What left the client, and what it knows of it.
Sent == stored \o wire
WithBroker(p) ==
  \/ threads[p].pc = "done"
  \/ threads[p].pc = "sent" /\ threads[p].err = "none"

SentInOrder ==
  \A i, j \in DOMAIN Sent :
    i < j /\ Sent[i].by = Sent[j].by => Sent[i].batch < Sent[j].batch
SentIsCurrent ==
  \A i \in DOMAIN Sent :
    \/ Sent[i].batch < threads[Sent[i].by].batch
    \/ Sent[i].batch = threads[Sent[i].by].batch /\ WithBroker(Sent[i].by)
SuccessesBefore ==
  \A p \in Publishers : \A b \in 1 .. threads[p].batch - 1 :
    [by |-> p, batch |-> b] \in successes
PublishInv == SentInOrder /\ SentIsCurrent /\ SuccessesBefore

\* While the channel that the consumer subscribed on is open, at most one
\* delivery is out: held by the library, or handled and not acknowledged.
Unsubscribed == threads[Consumer].pc \in {"ensure", "loop", "dial", "open", "use"}

DeliveryOut ==
  \/ threads[Consumer].pc = "exited"
  \/ threads[Consumer].pc = "receive" /\ inbox = unacked
  \/ /\ threads[Consumer].pc \in {"receive", "ack"}
     /\ inbox = <<>> /\ unacked # <<>>
     /\ ToSet(unacked) \subseteq ToSet(handled)

ChannelsNumbered ==
  /\ channel <= used.channels /\ threads[Consumer].chan <= used.channels
  /\ \A ch \in openChans : 0 < ch /\ ch <= used.channels
OneDelivery ==
  /\ threads[Consumer].pc \in ConsumerPCs
  /\ Len(unacked) <= 1
  /\ Unsubscribed => threads[Consumer].chan = 0 /\ unacked = <<>> /\ inbox = <<>>
  /\ ~IsClosed(threads[Consumer].chan) => DeliveryOut
ConsumerInv == ChannelsNumbered /\ OneDelivery /\ UpdatesKeptUntilHandled

-----------------------------------------------------------------------------
(* Sequences *)

LEMMA AppendToSet ==
  ASSUME NEW S, NEW s \in Seq(S), NEW x \in S
  PROVE  ToSet(Append(s, x)) = ToSet(s) \cup {x}
<1>1. DOMAIN s = 1 .. Len(s) /\ DOMAIN Append(s, x) = 1 .. Len(s) + 1
  BY LenProperties, AppendProperties
<1>2. /\ Append(s, x)[Len(s) + 1] = x
      /\ \A i \in 1 .. Len(s) : Append(s, x)[i] = s[i]
      /\ Len(s) \in Nat
  BY LenProperties, AppendProperties
<1> QED  BY <1>1, <1>2 DEF ToSet

LEMMA HeadTailToSet ==
  ASSUME NEW S, NEW s \in Seq(S), s # <<>>
  PROVE  ToSet(s) = {Head(s)} \cup ToSet(Tail(s))
<1>1. /\ DOMAIN s = 1 .. Len(s) /\ DOMAIN Tail(s) = 1 .. Len(s) - 1
      /\ Len(s) \in Nat /\ Len(s) > 0
  BY LenProperties, HeadTailProperties, EmptySeq
<1>2. Head(s) = s[1] /\ \A i \in 1 .. Len(s) - 1 : Tail(s)[i] = s[i + 1]
  BY <1>1, HeadTailProperties
<1>3. \A x : x \in ToSet(s) <=> \E i \in 1 .. Len(s) : x = s[i]
  BY <1>1 DEF ToSet
<1>4. \A x : x \in ToSet(Tail(s)) <=> \E i \in 1 .. Len(s) - 1 : x = s[i + 1]
  BY <1>1, <1>2 DEF ToSet
<1>5. ASSUME NEW x, x \in ToSet(s) PROVE x = s[1] \/ x \in ToSet(Tail(s))
  <2>1. PICK i \in 1 .. Len(s) : x = s[i]
    BY <1>3, <1>5
  <2>2. CASE i # 1
    <3>1. i - 1 \in 1 .. Len(s) - 1 /\ (i - 1) + 1 = i
      BY <1>1, <2>2
    <3> QED  BY <1>4, <2>1, <3>1
  <2> QED  BY <2>1, <2>2
<1>6. ASSUME NEW x, x = s[1] \/ x \in ToSet(Tail(s)) PROVE x \in ToSet(s)
  <2>1. CASE x = s[1]
    BY <1>1, <1>3, <2>1
  <2>2. CASE x \in ToSet(Tail(s))
    <3>1. PICK i \in 1 .. Len(s) - 1 : x = s[i + 1]
      BY <1>4, <2>2
    <3>2. i + 1 \in 1 .. Len(s)
      BY <1>1
    <3> QED  BY <1>3, <3>1, <3>2
  <2> QED  BY <1>6, <2>1, <2>2
<1> QED  BY <1>2, <1>5, <1>6

LEMMA ConcatToSet ==
  ASSUME NEW S, NEW s \in Seq(S), NEW t \in Seq(S)
  PROVE  ToSet(s \o t) = ToSet(s) \cup ToSet(t)
<1>1. Range(s \o t) = Range(s) \cup Range(t)
  BY RangeConcatenation
<1> QED  BY <1>1 DEF Range, ToSet

LEMMA EmptyToSet == ToSet(<<>>) = {}
  BY DEF ToSet

\* The broker receives the first message of the wire: nothing else moves.
LEMMA MoveHead ==
  ASSUME NEW S, NEW s \in Seq(S), NEW w \in Seq(S), w # <<>>
  PROVE  Append(s, Head(w)) \o Tail(w) = s \o w
<1>1. /\ Head(w) \in S /\ Tail(w) \in Seq(S) /\ Len(Tail(w)) = Len(w) - 1
      /\ \A i \in 1 .. Len(w) - 1 : Tail(w)[i] = w[i + 1]
      /\ Len(w) \in Nat \ {0} /\ Len(s) \in Nat /\ Head(w) = w[1]
  BY HeadTailProperties, EmptySeq, LenProperties
<1> DEFINE a == Append(s, Head(w))
<1>2. /\ a \in Seq(S) /\ Len(a) = Len(s) + 1 /\ a[Len(s) + 1] = w[1]
      /\ \A i \in 1 .. Len(s) : a[i] = s[i]
  BY <1>1, AppendProperties
<1> HIDE DEF a
<1>3. /\ a \o Tail(w) \in Seq(S) /\ s \o w \in Seq(S)
      /\ Len(a \o Tail(w)) = Len(s) + Len(w) /\ Len(s \o w) = Len(s) + Len(w)
  <2>1. Tail(w) \in Seq(S) /\ a \in Seq(S)
    BY <1>1, <1>2
  <2>2. a \o Tail(w) \in Seq(S) /\ Len(a \o Tail(w)) = Len(a) + Len(Tail(w))
    BY <2>1, ConcatProperties
  <2>3. s \o w \in Seq(S) /\ Len(s \o w) = Len(s) + Len(w)
    BY ConcatProperties
  <2> QED  BY <1>1, <1>2, <2>2, <2>3
<1>4. ASSUME NEW i \in 1 .. Len(s) + Len(w)
      PROVE  (a \o Tail(w))[i] = (s \o w)[i]
  <2>1. (s \o w)[i] = IF i <= Len(s) THEN s[i] ELSE w[i - Len(s)]
    BY <1>1, ConcatProperties
  <2>2. (a \o Tail(w))[i] = IF i <= Len(a) THEN a[i] ELSE Tail(w)[i - Len(a)]
    <3>1. i \in 1 .. Len(a) + Len(Tail(w))
      BY <1>1, <1>2
    <3>2. a \in Seq(S) /\ Tail(w) \in Seq(S)
      BY <1>1, <1>2
    <3> QED  BY <3>1, <3>2, ConcatProperties
  <2>3. CASE i <= Len(s)
    BY <1>1, <1>2, <2>1, <2>2, <2>3
  <2>4. CASE i = Len(s) + 1
    BY <1>1, <1>2, <2>1, <2>2, <2>4
  <2>5. CASE i > Len(s) + 1
    <3>1. /\ i - (Len(s) + 1) \in 1 .. Len(w) - 1
          /\ (i - (Len(s) + 1)) + 1 = i - Len(s)
      BY <1>1, <2>5
    <3>2. Tail(w)[i - (Len(s) + 1)] = w[i - Len(s)]
      BY <1>1, <3>1
    <3>3. (s \o w)[i] = w[i - Len(s)] /\ i > Len(a)
      BY <1>1, <1>2, <2>1, <2>5
    <3>4. (a \o Tail(w))[i] = Tail(w)[i - Len(a)] /\ Len(a) = Len(s) + 1
      BY <1>1, <1>2, <2>2, <3>3
    <3> QED  BY <3>2, <3>3, <3>4
  <2>6. Len(s) \in Nat /\ Len(w) \in Nat
    BY <1>1
  <2>7. i \in Int
    BY <2>6
  <2>8. i <= Len(s) \/ i = Len(s) + 1 \/ i > Len(s) + 1
    BY <2>6, <2>7
  <2> QED  BY <2>3, <2>4, <2>5, <2>8
<1>5. a \o Tail(w) = s \o w
  BY <1>1, <1>3, <1>4, SeqEqual
<1> QED  BY <1>5 DEF a

LEMMA AppendToConcat ==
  ASSUME NEW S, NEW s \in Seq(S), NEW w \in Seq(S), NEW m \in S
  PROVE  s \o Append(w, m) = Append(s \o w, m)
<1>1. Append(w, m) = w \o <<m>>
  BY AppendIsConcat
<1>2. s \o w \in Seq(S)
  BY ConcatProperties
<1>3. Append(s \o w, m) = (s \o w) \o <<m>>
  BY <1>2, AppendIsConcat
<1>4. <<m>> \in Seq(S)
  OBVIOUS
<1> QED  BY <1>1, <1>3, <1>4, ConcatAssociative

-----------------------------------------------------------------------------
(* Types *)

LEMMA GotoType ==
  ASSUME TypeOK, NEW t \in Threads, NEW pc \in PCs, Goto(t, pc)
  PROVE  threads' \in [Threads -> Locals]
<1>1. threads[t] \in Locals
  BY DEF TypeOK
<1>2. [threads[t] EXCEPT !.pc = pc] \in Locals
  BY <1>1 DEF Locals
<1>3. threads' = [threads EXCEPT ![t] = [threads[t] EXCEPT !.pc = pc]]
  BY DEF Goto
<1> QED  BY <1>2, <1>3 DEF TypeOK

LEMMA CountersType ==
  ASSUME TypeOK
  PROVE  /\ [used EXCEPT !.breaks = @ + 1] \in Counters
         /\ [used EXCEPT !.dials = @ + 1] \in Counters
         /\ [used EXCEPT !.channels = @ + 1] \in Counters
         /\ used.channels + 1 \in Nat
<1>1. used \in Counters
  BY DEF TypeOK
<1>2. used.breaks + 1 \in Nat /\ used.dials + 1 \in Nat /\ used.channels + 1 \in Nat
  BY <1>1 DEF Counters
<1>3. /\ [used EXCEPT !.breaks = used.breaks + 1] \in Counters
      /\ [used EXCEPT !.dials = used.dials + 1] \in Counters
      /\ [used EXCEPT !.channels = used.channels + 1] \in Counters
  BY <1>1, <1>2 DEF Counters
<1> QED  BY <1>2, <1>3

LEMMA InitTypeOK == Init => TypeOK
<1> SUFFICES ASSUME Init PROVE TypeOK
  OBVIOUS
<1>1. [pc |-> "ensure", batch |-> 1, try |-> 1, err |-> "none", chan |-> 0] \in Locals
  BY DEF Locals, PCs, Errors
<1>2. \A S : <<>> \in Seq(S)
  BY EmptySeq
<1>3. threads \in [Threads -> Locals]
  BY <1>1 DEF Init
<1> QED  BY <1>2, <1>3 DEF Init, TypeOK, Counters

LEMMA EnsureChannelType ==
  ASSUME TypeOK, NEW t \in Threads, EnsureChannel(t)
  PROVE  TypeOK'
<1> USE DEF broker, go
<1>0. <<>> \in Seq(Publication)
  BY EmptySeq
<1>1. CASE Lock(t)
  <2>1. threads' \in [Threads -> Locals]
    BY <1>1, GotoType DEF Lock, PCs
  <2> QED  BY <1>1, <2>1 DEF Lock, TypeOK
<1>2. CASE CheckChannel(t)
  <2>1. threads' \in [Threads -> Locals]
    BY <1>2, GotoType DEF CheckChannel, PCs
  <2> QED  BY <1>2, <2>1 DEF CheckChannel, TypeOK
<1>3. CASE Connect(t)
  <2>1. threads' \in [Threads -> Locals]
    BY <1>3, GotoType DEF Connect, PCs
  <2>2. used' \in Counters
    BY <1>3, CountersType DEF Connect, TypeOK
  <2> QED  BY <1>0, <1>3, <2>1, <2>2 DEF Connect, TypeOK
<1>4. CASE OpenChannel(t)
  <2>1. threads' \in [Threads -> Locals]
    BY <1>4, GotoType DEF OpenChannel, PCs
  <2>2. used' \in Counters
    BY <1>4, CountersType DEF OpenChannel, TypeOK
  <2>3. channel' \in Nat /\ openChans' \in SUBSET Nat
    BY <1>4, CountersType DEF OpenChannel, TypeOK
  <2> QED  BY <1>4, <2>1, <2>2, <2>3 DEF OpenChannel, TypeOK
<1> QED  BY <1>1, <1>2, <1>3, <1>4 DEF EnsureChannel

LEMMA PublisherType ==
  ASSUME TypeOK, NEW p \in Publishers, Publish(p) \/ AfterPublish(p)
  PROVE  TypeOK'
<1> USE DEF broker, go
<1>0. p \in Threads /\ threads[p] \in Locals
  BY DEF TypeOK, Threads
<1>1. CASE Publish(p)
  <2>1. PICK e \in Errors :
          threads' = [threads EXCEPT ![p] = [threads[p] EXCEPT !.pc = "sent", !.err = e]]
    BY <1>1 DEF Publish, Errors
  <2>2. [threads[p] EXCEPT !.pc = "sent", !.err = e] \in Locals
    BY <1>0 DEF Locals, PCs
  <2>3. threads' \in [Threads -> Locals]
    BY <2>1, <2>2 DEF TypeOK
  <2>4. [by |-> p, batch |-> threads[p].batch] \in Publication
    BY <1>0 DEF Locals, Publication
  <2>5. Append(wire, [by |-> p, batch |-> threads[p].batch]) \in Seq(Publication)
    BY <2>4, AppendProperties DEF TypeOK
  <2>6. wire' \in Seq(Publication)
    BY <1>1, <2>5 DEF Publish, TypeOK
  <2> QED  BY <1>1, <2>3, <2>6 DEF Publish, TypeOK
<1>2. CASE AfterPublish(p)
  <2>1. threads' \in [Threads -> Locals]
    <3>1. CASE Retries(p) /\ threads[p].try = 1
      <4>1. threads' = [threads EXCEPT ![p] = [threads[p] EXCEPT !.pc = "ensure", !.try = 2]]
        BY <1>2, <3>1 DEF AfterPublish
      <4>2. [threads[p] EXCEPT !.pc = "ensure", !.try = 2] \in Locals
        BY <1>0 DEF Locals, PCs
      <4> QED  BY <4>1, <4>2 DEF TypeOK
    <3>2. CASE ~(Retries(p) /\ threads[p].try = 1) /\ threads[p].err # "none"
      BY <1>0, <1>2, <3>2, GotoType DEF AfterPublish, PCs
    <3>3. CASE ~(Retries(p) /\ threads[p].try = 1) /\ threads[p].err = "none"
      <4> DEFINE last == threads[p].batch = Batches
                 pc == IF last THEN "done" ELSE "ensure"
                 b == IF last THEN threads[p].batch ELSE threads[p].batch + 1
      <4>1. threads' = [threads EXCEPT ![p] =
                          [threads[p] EXCEPT !.pc = pc, !.try = 1, !.batch = b]]
        BY <1>2, <3>3 DEF AfterPublish
      <4>2. b \in 1 .. Batches /\ pc \in PCs
        BY <1>0 DEF Locals, PCs
      <4> HIDE DEF b, pc
      <4>3. [threads[p] EXCEPT !.pc = pc, !.try = 1, !.batch = b] \in Locals
        BY <1>0, <4>2 DEF Locals
      <4> QED  BY <4>1, <4>3 DEF TypeOK
    <3> QED  BY <3>1, <3>2, <3>3
  <2>2. successes' \in SUBSET Publication
    <3>1. [by |-> p, batch |-> threads[p].batch] \in Publication
      BY <1>0 DEF Locals, Publication
    <3>2. Succeeds(p) /\ successes \in SUBSET Publication
      BY <1>2 DEF AfterPublish, TypeOK
    <3> QED  BY <3>1, <3>2 DEF Succeeds
  <2> QED  BY <1>2, <2>1, <2>2 DEF AfterPublish, TypeOK
<1> QED  BY <1>1, <1>2

LEMMA ConsumeType == TypeOK /\ Consume => TypeOK'
<1> SUFFICES ASSUME TypeOK, Consume PROVE TypeOK'
  OBVIOUS
<1> USE DEF broker, go, Exit
<1>0. Consumer \in Threads /\ threads[Consumer] \in Locals
  BY DEF TypeOK, Threads
<1>1. CASE Subscribe
  <2>1. CASE ~IsClosed(channel) /\ conn = "open"
    <3>1. threads' = [threads EXCEPT ![Consumer] =
                        [threads[Consumer] EXCEPT !.pc = "receive", !.chan = channel]]
      BY <1>1, <2>1 DEF Subscribe
    <3>2. [threads[Consumer] EXCEPT !.pc = "receive", !.chan = channel] \in Locals
      BY <1>0 DEF Locals, PCs, TypeOK
    <3>3. threads' \in [Threads -> Locals]
      BY <3>1, <3>2 DEF TypeOK
    <3> QED  BY <1>1, <3>3 DEF Subscribe, TypeOK
  <2>2. CASE ~(~IsClosed(channel) /\ conn = "open")
    <3>1. threads' \in [Threads -> Locals]
      BY <1>0, <1>1, <2>2, GotoType DEF Subscribe, PCs
    <3> QED  BY <1>1, <3>1 DEF Subscribe, TypeOK
  <2> QED  BY <2>1, <2>2
<1>2. CASE DeliveriesEnd
  <2>1. threads' \in [Threads -> Locals]
    BY <1>0, <1>2, GotoType DEF DeliveriesEnd, PCs
  <2> QED  BY <1>2, <2>1 DEF DeliveriesEnd, TypeOK
<1>3. CASE Handle
  <2>1. threads' \in [Threads -> Locals]
    BY <1>0, <1>3, GotoType DEF Handle, PCs
  <2>2. Head(inbox) \in Nat /\ Tail(inbox) \in Seq(Nat)
    BY <1>3, HeadTailProperties DEF Handle, TypeOK
  <2>3. handled' \in Seq(Nat)
    <3>1. Append(handled, Head(inbox)) \in Seq(Nat)
      BY <2>2, AppendProperties DEF TypeOK
    <3> QED  BY <1>3, <3>1 DEF Handle, TypeOK
  <2> QED  BY <1>3, <2>1, <2>2, <2>3 DEF Handle, TypeOK
<1>4. CASE Ack
  <2>1. threads' \in [Threads -> Locals]
    BY <1>0, <1>4, GotoType DEF Ack, PCs
  <2>2. ToSet(unacked) \subseteq Nat /\ <<>> \in Seq(Nat)
    BY LenProperties DEF TypeOK, ToSet
  <2>3. acked' \in SUBSET Nat /\ unacked' \in Seq(Nat)
    BY <1>4, <2>2 DEF Ack, TypeOK
  <2> QED  BY <1>4, <2>1, <2>3 DEF Ack, TypeOK
<1> QED  BY <1>1, <1>2, <1>3, <1>4 DEF Consume

LEMMA RequeueType == TypeOK /\ Requeue => queue' \in Seq(Nat) /\ unacked' \in Seq(Nat)
  BY ConcatProperties, EmptySeq DEF Requeue, TypeOK

LEMMA EnvironmentType == TypeOK /\ Environment => TypeOK'
<1> SUFFICES ASSUME TypeOK, Environment PROVE TypeOK'
  OBVIOUS
<1> USE DEF broker, go
<1>0. <<>> \in Seq(Publication)
  BY EmptySeq
<1>1. CASE Receive
  <2>1. Head(wire) \in Publication /\ Tail(wire) \in Seq(Publication)
    BY <1>1, HeadTailProperties DEF Receive, TypeOK
  <2>2. stored' \in Seq(Publication)
    BY <1>1, <2>1, AppendProperties DEF Receive, TypeOK
  <2> QED  BY <1>1, <2>1, <2>2 DEF Receive, TypeOK
<1>2. CASE Deliver
  <2>1. Head(queue) \in Nat /\ Tail(queue) \in Seq(Nat)
    BY <1>2, HeadTailProperties DEF Deliver, TypeOK
  <2>2. inbox' \in Seq(Nat) /\ unacked' \in Seq(Nat)
    BY <1>2, <2>1, AppendProperties DEF Deliver, TypeOK
  <2> QED  BY <1>2, <2>1, <2>2 DEF Deliver, TypeOK
<1>3. CASE ConnectionBreaks
  BY <1>0, <1>3, CountersType DEF ConnectionBreaks, Breaks, TypeOK
<1>4. CASE ConnectionCloses
  BY <1>4, RequeueType DEF ConnectionCloses, TypeOK
<1>5. CASE ChannelCloses
  <2>1. queue' \in Seq(Nat) /\ unacked' \in Seq(Nat)
    BY <1>5, RequeueType DEF ChannelCloses, TypeOK
  <2>2. wire' \in Seq(Publication)
    BY <1>0, <1>5 DEF ChannelCloses, TypeOK
  <2> QED  BY <1>5, <2>1, <2>2, CountersType DEF ChannelCloses, Breaks, TypeOK
<1> QED  BY <1>1, <1>2, <1>3, <1>4, <1>5 DEF Environment

LEMMA NextTypeOK == TypeOK /\ [Next]_vars => TypeOK'
<1> SUFFICES ASSUME TypeOK, [Next]_vars PROVE TypeOK'
  OBVIOUS
<1>1. ASSUME NEW p \in Publishers, PublishStep(p) PROVE TypeOK'
  BY <1>1, EnsureChannelType, PublisherType DEF PublishStep, Threads
<1>2. CASE ConsumeStep
  BY <1>2, EnsureChannelType, ConsumeType DEF ConsumeStep, Threads
<1>3. CASE Environment
  BY <1>3, EnvironmentType
<1>4. CASE UNCHANGED vars
  BY <1>4 DEF vars, broker, go, TypeOK
<1> QED  BY <1>1, <1>2, <1>3, <1>4 DEF Next

\* Every value of the variables has its type: no message or counter leaves its
\* set, whatever the goroutines and the broker interleave.
THEOREM TypeCorrect == Spec => []TypeOK
  BY InitTypeOK, NextTypeOK, PTL DEF Spec

-----------------------------------------------------------------------------
(* One channel *)

LEMMA GotoPc ==
  ASSUME TypeOK, NEW t \in Threads, NEW pc, Goto(t, pc)
  PROVE  /\ threads'[t].pc = pc
         /\ \A x \in Threads : x # t => threads'[x] = threads[x]
         /\ threads'[t].batch = threads[t].batch /\ threads'[t].err = threads[t].err
         /\ threads'[t].try = threads[t].try /\ threads'[t].chan = threads[t].chan
<1>1. threads[t] \in Locals /\ t \in DOMAIN threads
  BY DEF TypeOK
<1>2. threads' = [threads EXCEPT ![t] = [threads[t] EXCEPT !.pc = pc]]
  BY DEF Goto
<1> QED  BY <1>1, <1>2 DEF Locals, TypeOK

\* A step that is not of the lock's holder, and opens nothing.
LEMMA LockFrame ==
  ASSUME TypeOK, LockInv, mu' = mu, channel' = channel, openChans' \subseteq openChans,
         \A t \in Threads : Ensuring(t)' => Ensuring(t),
         \A t \in Threads : Reopening(t)' => Reopening(t)
  PROVE  LockInv'
  BY DEF LockInv, OneChannelOpen, Ensuring, Reopening, IsClosed

LEMMA EnsureChannelLock ==
  ASSUME TypeOK, LockInv, NEW t \in Threads, EnsureChannel(t)
  PROVE  LockInv'
<1> USE DEF OneChannelOpen, Ensuring, Reopening, IsClosed, At
<1>1. CASE Lock(t)
  <2>1. \A x \in Threads : ~Ensuring(x)
    BY <1>1 DEF Lock, LockInv, Threads
  <2>2. threads'[t].pc = "loop" /\ \A x \in Threads : x # t => threads'[x] = threads[x]
    BY <1>1, GotoPc DEF Lock
  <2> QED  BY <1>1, <2>1, <2>2 DEF Lock, LockInv
<1>2. CASE CheckChannel(t)
  <2>1. mu = t
    BY <1>2 DEF CheckChannel, LockInv
  <2>2. CASE IsClosed(channel)
    <3>1. threads'[t].pc = "dial" /\ \A x \in Threads : x # t => threads'[x] = threads[x]
      BY <1>2, <2>2, GotoPc DEF CheckChannel
    <3> QED  BY <1>2, <2>1, <2>2, <3>1 DEF CheckChannel, LockInv
  <2>3. CASE ~IsClosed(channel)
    <3>1. threads'[t].pc = "use" /\ \A x \in Threads : x # t => threads'[x] = threads[x]
      BY <1>2, <2>3, GotoPc DEF CheckChannel
    <3> QED  BY <1>2, <2>1, <2>3, <3>1 DEF CheckChannel, LockInv
  <2> QED  BY <2>2, <2>3
<1>3. CASE Connect(t)
  <2>1. mu = t /\ IsClosed(channel)
    BY <1>3 DEF Connect, LockInv
  <2>2. PICK pc \in {"open", "loop"} : Goto(t, pc)
    BY <1>3 DEF Connect
  <2>3. threads'[t].pc = pc /\ \A x \in Threads : x # t => threads'[x] = threads[x]
    BY <2>2, GotoPc
  <2> QED  BY <1>3, <2>1, <2>3 DEF Connect, LockInv
<1>4. CASE OpenChannel(t)
  <2>1. mu = t /\ openChans = {}
    BY <1>4 DEF OpenChannel, LockInv
  <2>2. threads'[t].pc = "loop" /\ \A x \in Threads : x # t => threads'[x] = threads[x]
    BY <1>4, GotoPc DEF OpenChannel
  <2>3. openChans' \subseteq {channel'}
    BY <1>4, <2>1 DEF OpenChannel
  <2> QED  BY <1>4, <2>1, <2>2, <2>3 DEF OpenChannel, LockInv
<1> QED  BY <1>1, <1>2, <1>3, <1>4 DEF EnsureChannel

\* What a publisher's own steps do to the locals.
LEMMA PublishLocals ==
  ASSUME TypeOK, NEW p \in Publishers, Publish(p)
  PROVE  /\ threads'[p].pc = "sent" /\ threads'[p].batch = threads[p].batch
         /\ threads'[p].err \in Errors
         /\ threads'[p].err = "none" \/ wire' = wire
         /\ \A x \in Threads : x # p => threads'[x] = threads[x]
<1>1. threads[p] \in Locals /\ p \in DOMAIN threads
  BY DEF TypeOK, Threads
<1>2. PICK e \in Errors :
        /\ threads' = [threads EXCEPT ![p] = [threads[p] EXCEPT !.pc = "sent", !.err = e]]
        /\ e = "none" \/ wire' = wire
  BY DEF Publish, Errors
<1> QED  BY <1>1, <1>2 DEF Locals, TypeOK

LEMMA AfterPublishLocals ==
  ASSUME TypeOK, NEW p \in Publishers, AfterPublish(p)
  PROVE  /\ \A x \in Threads : x # p => threads'[x] = threads[x]
         /\ \/ /\ threads[p].err # "none"
               /\ threads'[p].pc \in {"ensure", "failed"}
               /\ threads'[p].batch = threads[p].batch
            \/ /\ threads[p].err = "none"
               /\ threads'[p].pc = "done"
               /\ threads'[p].batch = threads[p].batch
            \/ /\ threads[p].err = "none"
               /\ threads'[p].pc = "ensure"
               /\ threads'[p].batch = threads[p].batch + 1
<1>1. threads[p] \in Locals /\ p \in DOMAIN threads /\ p \in Threads
  BY DEF TypeOK, Threads
<1>2. CASE Retries(p) /\ threads[p].try = 1
  <2>1. threads' = [threads EXCEPT ![p] = [threads[p] EXCEPT !.pc = "ensure", !.try = 2]]
    BY <1>2 DEF AfterPublish
  <2> QED  BY <1>1, <1>2, <2>1 DEF Locals, TypeOK, Retries
<1>3. CASE ~(Retries(p) /\ threads[p].try = 1) /\ threads[p].err # "none"
  <2>1. Goto(p, "failed")
    BY <1>3 DEF AfterPublish
  <2> QED  BY <1>1, <1>3, <2>1, GotoPc
<1>4. CASE threads[p].err = "none"
  <2> DEFINE last == threads[p].batch = Batches
             pc == IF last THEN "done" ELSE "ensure"
             b == IF last THEN threads[p].batch ELSE threads[p].batch + 1
  <2>1. threads' = [threads EXCEPT ![p] =
                      [threads[p] EXCEPT !.pc = pc, !.try = 1, !.batch = b]]
    BY <1>4 DEF AfterPublish, Retries
  <2> HIDE DEF pc, b
  <2>2. /\ threads'[p].pc = pc /\ threads'[p].batch = b
        /\ \A x \in Threads : x # p => threads'[x] = threads[x]
    BY <1>1, <2>1 DEF Locals, TypeOK
  <2> QED  BY <1>4, <2>2 DEF pc, b
<1> QED  BY <1>2, <1>3, <1>4

\* The consumer's own steps after ensureChannel.
LEMMA ConsumeLocals ==
  ASSUME TypeOK, Consume
  PROVE  /\ threads'[Consumer].pc \in {"receive", "ack", "exited"}
         /\ \A x \in Threads : x # Consumer => threads'[x] = threads[x]
         /\ Subscribe \/ threads'[Consumer].chan = threads[Consumer].chan
<1>1. threads[Consumer] \in Locals /\ Consumer \in DOMAIN threads /\ Consumer \in Threads
  BY DEF TypeOK, Threads
<1>2. CASE \E pc \in {"receive", "ack", "exited"} : Goto(Consumer, pc)
  BY <1>1, <1>2, GotoPc
<1>3. CASE Subscribe /\ ~IsClosed(channel) /\ conn = "open"
  <2>1. threads' = [threads EXCEPT ![Consumer] =
                      [threads[Consumer] EXCEPT !.pc = "receive", !.chan = channel]]
    BY <1>3 DEF Subscribe
  <2> QED  BY <1>1, <1>3, <2>1 DEF Locals, TypeOK
<1> QED  BY <1>2, <1>3 DEF Consume, Subscribe, DeliveriesEnd, Handle, Ack, Exit

LEMMA NextLock == TypeOK /\ LockInv /\ [Next]_vars => LockInv'
<1> SUFFICES ASSUME TypeOK, LockInv, [Next]_vars PROVE LockInv'
  OBVIOUS
<1> USE DEF Ensuring, Reopening
<1>1. ASSUME NEW p \in Publishers, PublishStep(p) PROVE LockInv'
  <2>0. p \in Threads
    BY DEF Threads
  <2>1. CASE EnsureChannel(p)
    BY <2>0, <2>1, EnsureChannelLock
  <2>2. CASE Publish(p)
    <3>1. \A t \in Threads : threads'[t].pc = threads[t].pc \/ threads'[t].pc = "sent"
      BY <2>2, PublishLocals
    <3> QED  BY <2>2, <3>1, LockFrame DEF Publish
  <2>3. CASE AfterPublish(p)
    <3>1. \A t \in Threads :
            threads'[t].pc = threads[t].pc \/ threads'[t].pc \in {"ensure", "failed", "done"}
      BY <2>3, AfterPublishLocals
    <3> QED  BY <2>3, <3>1, LockFrame DEF AfterPublish
  <2> QED  BY <1>1, <2>1, <2>2, <2>3 DEF PublishStep
<1>2. CASE ConsumeStep
  <2>1. CASE EnsureChannel(Consumer)
    BY <2>1, EnsureChannelLock DEF Threads
  <2>2. CASE Consume
    <3>1. \A t \in Threads :
            threads'[t].pc = threads[t].pc \/ threads'[t].pc \in {"receive", "ack", "exited"}
      BY <2>2, ConsumeLocals
    <3>2. mu' = mu /\ channel' = channel /\ openChans' = openChans
      BY <2>2 DEF Consume, Subscribe, DeliveriesEnd, Handle, Ack
    <3> QED  BY <3>1, <3>2, LockFrame
  <2> QED  BY <1>2, <2>1, <2>2 DEF ConsumeStep
<1>3. CASE Environment
  <2>1. mu' = mu /\ channel' = channel /\ threads' = threads /\ openChans' \subseteq openChans
    BY <1>3 DEF Environment, Receive, Deliver, ConnectionBreaks, ConnectionCloses,
       ChannelCloses
  <2> QED  BY <2>1, LockFrame
<1>4. CASE UNCHANGED vars
  BY <1>4, LockFrame DEF vars
<1> QED  BY <1>1, <1>2, <1>3, <1>4 DEF Next

\* OneChannelOpen, for any number of goroutines: a channel is opened only under
\* c.mu and after the old one was seen closed, and nothing reopens in between.
THEOREM OneChannel == Spec => []OneChannelOpen
<1>1. Init => LockInv
  BY DEF Init, LockInv, OneChannelOpen, Ensuring, Reopening, Threads
<1>2. LockInv => OneChannelOpen
  BY DEF LockInv
<1> QED  BY <1>1, <1>2, NextLock, TypeCorrect, PTL DEF Spec

-----------------------------------------------------------------------------
(* What the broker stores *)

LEMMA SentType ==
  ASSUME TypeOK
  PROVE  /\ Sent \in Seq(Publication) /\ Len(Sent) \in Nat /\ DOMAIN Sent = 1 .. Len(Sent)
         /\ \A i \in 1 .. Len(Sent) : Sent[i].by \in Publishers /\ Sent[i].batch \in Nat
<1>1. Sent \in Seq(Publication)
  BY ConcatProperties DEF Sent, TypeOK
<1>2. \A i \in 1 .. Len(Sent) : Sent[i] \in Publication
  BY <1>1, ElementOfSeq
<1> QED  BY <1>1, <1>2, LenProperties DEF Publication

LEMMA SentTypeNext ==
  ASSUME TypeOK'
  PROVE  Sent' \in Seq(Publication) /\ Len(Sent') \in Nat /\ DOMAIN Sent' = 1 .. Len(Sent')
<1>1. Sent' \in Seq(Publication)
  BY ConcatProperties DEF Sent, TypeOK
<1> QED  BY <1>1, LenProperties

LEMMA BatchType == TypeOK => \A p \in Publishers : threads[p].batch \in Nat
  BY DEF TypeOK, Threads, Locals

\* What is on the wire is lost with the connection: Sent loses its end.
LEMMA SentPrefix ==
  ASSUME TypeOK, stored' = stored, wire' \in {wire, <<>>}
  PROVE  /\ Len(Sent') <= Len(Sent)
         /\ \A i \in 1 .. Len(Sent') : Sent'[i] = Sent[i]
<1>1. CASE wire' = wire
  BY <1>1, SentType DEF Sent
<1>2. CASE wire' = <<>>
  <2>1. /\ stored \in Seq(Publication) /\ wire \in Seq(Publication)
        /\ Len(stored) \in Nat /\ Len(wire) \in Nat
    BY LenProperties DEF TypeOK
  <2>2. Sent' = stored
    BY <1>2, <2>1, ConcatEmptySeq DEF Sent
  <2>3. /\ Len(Sent) = Len(stored) + Len(wire)
        /\ \A i \in 1 .. Len(stored) + Len(wire) : i <= Len(stored) => Sent[i] = stored[i]
    BY <2>1, ConcatProperties DEF Sent
  <2> QED  BY <2>1, <2>2, <2>3
<1> QED  BY <1>1, <1>2

\* A step that sends nothing and moves no publisher on.
LEMMA PublishFrame ==
  ASSUME TypeOK, TypeOK', PublishInv,
         Len(Sent') <= Len(Sent), \A i \in 1 .. Len(Sent') : Sent'[i] = Sent[i],
         \A p \in Publishers : threads'[p].batch = threads[p].batch,
         \A p \in Publishers : WithBroker(p) => WithBroker(p)',
         successes \subseteq successes'
  PROVE  PublishInv'
<1>1. \A i \in DOMAIN Sent' : i \in DOMAIN Sent /\ Sent'[i] = Sent[i] /\ Sent[i].by \in Publishers
  BY SentType, SentTypeNext
<1>2. SentInOrder'
  BY <1>1 DEF PublishInv, SentInOrder
<1>3. SentIsCurrent'
  BY <1>1 DEF PublishInv, SentIsCurrent, WithBroker
<1>4. SuccessesBefore'
  BY DEF PublishInv, SuccessesBefore
<1> QED  BY <1>2, <1>3, <1>4 DEF PublishInv

LEMMA PublishOrder ==
  ASSUME TypeOK, TypeOK', PublishInv, NEW p \in Publishers, Publish(p)
  PROVE  PublishInv'
<1> DEFINE k == threads[p].batch
           m == [by |-> p, batch |-> k]
<1>1. /\ DOMAIN Sent = 1 .. Len(Sent) /\ Len(Sent) \in Nat
      /\ \A i \in 1 .. Len(Sent) : Sent[i].by \in Publishers /\ Sent[i].batch \in Nat
  BY SentType
<1>2. /\ threads'[p].pc = "sent" /\ threads'[p].batch = k
      /\ \A x \in Publishers : x # p => threads'[x] = threads[x]
  BY PublishLocals DEF Threads
<1>3. \A x \in Publishers : threads'[x].batch = threads[x].batch
  BY <1>2
<1>4. \A x \in Publishers : WithBroker(x) => WithBroker(x)'
  BY <1>2 DEF Publish, At, WithBroker
<1>5. successes' = successes /\ stored' = stored
  BY DEF Publish, go, broker
<1>6. CASE wire' = wire
  <2>1. Sent' = Sent
    BY <1>5, <1>6 DEF Sent
  <2> QED  BY <1>1, <1>3, <1>4, <1>5, <2>1, PublishFrame
<1>7. CASE wire' # wire
  <2>1. threads'[p].err = "none"
    BY <1>7, PublishLocals
  <2>2. wire' = Append(wire, m) /\ m \in Publication
    BY <1>7, PublishLocals DEF Publish, TypeOK, Threads, Locals, Publication
  <2>3. Sent' = Append(Sent, m)
    <3>1. stored \in Seq(Publication) /\ wire \in Seq(Publication)
      BY DEF TypeOK
    <3> QED  BY <1>5, <2>2, <3>1, AppendToConcat DEF Sent
  <2> HIDE DEF m
  <2>4. /\ DOMAIN Sent' = 1 .. Len(Sent) + 1
        /\ \A i \in 1 .. Len(Sent) : Sent'[i] = Sent[i]
        /\ Sent'[Len(Sent) + 1] = m
    BY <2>2, <2>3, SentType, AppendProperties, LenProperties
  <2>5. m.by = p /\ m.batch = k /\ k \in Nat
    BY BatchType DEF m
  <2>6. \A i \in 1 .. Len(Sent) : Sent[i].by = p => Sent[i].batch < k
    BY <1>1 DEF PublishInv, SentIsCurrent, WithBroker, Publish, At
  <2>7. SentInOrder'
    <3> SUFFICES ASSUME NEW i \in DOMAIN Sent', NEW j \in DOMAIN Sent', i < j,
                        Sent'[i].by = Sent'[j].by
                 PROVE  Sent'[i].batch < Sent'[j].batch
      BY DEF SentInOrder
    <3>1. i \in 1 .. Len(Sent) /\ Sent'[i] = Sent[i]
      BY <1>1, <2>4
    <3>2. CASE j \in 1 .. Len(Sent)
      BY <1>1, <2>4, <3>1, <3>2 DEF PublishInv, SentInOrder
    <3>3. CASE j = Len(Sent) + 1
      BY <2>4, <2>5, <2>6, <3>1, <3>3
    <3> QED  BY <1>1, <2>4, <3>2, <3>3
  <2>8. SentIsCurrent'
    <3> SUFFICES ASSUME NEW i \in DOMAIN Sent', NEW q, q = Sent'[i].by
                 PROVE  \/ Sent'[i].batch < threads'[q].batch
                        \/ Sent'[i].batch = threads'[q].batch /\ WithBroker(q)'
      BY DEF SentIsCurrent, WithBroker
    <3>1. CASE i \in 1 .. Len(Sent)
      <4>1. Sent'[i] = Sent[i] /\ q \in Publishers
        BY <1>1, <2>4, <3>1
      <4>2. \/ Sent[i].batch < threads[q].batch
            \/ Sent[i].batch = threads[q].batch /\ WithBroker(q)
        BY <1>1, <3>1, <4>1 DEF PublishInv, SentIsCurrent
      <4> QED  BY <1>3, <1>4, <4>1, <4>2
    <3>2. CASE i = Len(Sent) + 1
      <4>1. q = p /\ Sent'[i].batch = k
        BY <2>4, <2>5, <3>2
      <4>2. WithBroker(p)'
        BY <1>2, <2>1 DEF WithBroker
      <4> QED  BY <1>2, <4>1, <4>2
    <3> QED  BY <1>1, <2>4, <3>1, <3>2
  <2>9. SuccessesBefore'
    BY <1>3, <1>5 DEF PublishInv, SuccessesBefore
  <2> QED  BY <2>7, <2>8, <2>9 DEF PublishInv
<1> QED  BY <1>6, <1>7

LEMMA AfterPublishOrder ==
  ASSUME TypeOK, TypeOK', PublishInv, NEW p \in Publishers, AfterPublish(p)
  PROVE  PublishInv'
<1>1. /\ DOMAIN Sent = 1 .. Len(Sent) /\ Len(Sent) \in Nat
      /\ \A i \in 1 .. Len(Sent) : Sent[i].by \in Publishers /\ Sent[i].batch \in Nat
      /\ \A x \in Publishers : threads[x].batch \in Nat
  BY SentType, BatchType
<1>2. Sent' = Sent
  BY DEF AfterPublish, broker, Sent
<1>3. \A x \in Publishers : x # p => threads'[x] = threads[x]
  BY AfterPublishLocals DEF Threads
<1>4. threads[p].pc = "sent" /\ Succeeds(p) /\ successes \subseteq successes'
  BY DEF AfterPublish, At, Succeeds
<1>5. CASE threads'[p].batch = threads[p].batch
  <2>1. \A x \in Publishers : WithBroker(x) => WithBroker(x)'
    BY <1>3, <1>4, <1>5, <1>1, AfterPublishLocals DEF WithBroker
  <2> QED  BY <1>1, <1>2, <1>3, <1>4, <1>5, <2>1, PublishFrame
<1>6. CASE threads'[p].batch = threads[p].batch + 1 /\ threads[p].err = "none"
  <2>2. SentIsCurrent'
    <3> SUFFICES ASSUME NEW i \in DOMAIN Sent, NEW q \in Publishers, q = Sent[i].by
                 PROVE  \/ Sent[i].batch < threads'[q].batch
                        \/ Sent[i].batch = threads'[q].batch /\ WithBroker(q)'
      BY <1>1, <1>2 DEF SentIsCurrent, WithBroker
    <3>1. \/ Sent[i].batch < threads[q].batch
          \/ Sent[i].batch = threads[q].batch /\ WithBroker(q)
      BY DEF PublishInv, SentIsCurrent
    <3>2. CASE q = p
      BY <1>1, <1>6, <3>1, <3>2
    <3>3. CASE q # p
      <4>1. threads'[q] = threads[q]
        BY <1>3, <3>3
      <4> QED  BY <3>1, <4>1 DEF WithBroker
    <3> QED  BY <3>2, <3>3
  <2>3. SuccessesBefore'
    <3> SUFFICES ASSUME NEW x \in Publishers, NEW b \in 1 .. threads'[x].batch - 1
                 PROVE  [by |-> x, batch |-> b] \in successes'
      BY DEF SuccessesBefore
    <3>1. CASE x # p \/ b # threads[p].batch
      <4>1. b \in 1 .. threads[x].batch - 1
        BY <1>1, <1>3, <1>6, <3>1
      <4> QED  BY <1>4, <4>1 DEF PublishInv, SuccessesBefore
    <3>2. CASE x = p /\ b = threads[p].batch
      BY <1>4, <1>6, <3>2 DEF Succeeds
    <3> QED  BY <3>1, <3>2
  <2>4. SentInOrder'
    BY <1>2 DEF PublishInv, SentInOrder
  <2> QED  BY <2>2, <2>3, <2>4 DEF PublishInv
<1> QED  BY <1>5, <1>6, AfterPublishLocals

LEMMA EnsureLocals ==
  ASSUME TypeOK, NEW t \in Threads, EnsureChannel(t)
  PROVE  /\ threads[t].pc \in {"ensure", "loop", "dial", "open"}
         /\ threads'[t].pc \in {"loop", "dial", "open", "use"}
         /\ \A x \in Threads : x # t => threads'[x] = threads[x]
         /\ threads'[t].batch = threads[t].batch /\ threads'[t].err = threads[t].err
         /\ threads'[t].chan = threads[t].chan
<1>1. /\ threads[t].pc \in {"ensure", "loop", "dial", "open"}
      /\ \E pc \in {"loop", "dial", "open", "use"} : Goto(t, pc)
  BY DEF EnsureChannel, Lock, CheckChannel, Connect, OpenChannel, At
<1> QED  BY <1>1, GotoPc

LEMMA NextPublish == TypeOK /\ TypeOK' /\ PublishInv /\ [Next]_vars => PublishInv'
<1> SUFFICES ASSUME TypeOK, TypeOK', PublishInv, [Next]_vars PROVE PublishInv'
  OBVIOUS
<1>0. Publishers \subseteq Threads /\ Consumer \in Threads /\ Consumer \notin Publishers
  BY DEF Threads
<1>1. ASSUME NEW t \in Threads, EnsureChannel(t) PROVE PublishInv'
  <2>1. stored' = stored /\ wire' \in {wire, <<>>} /\ successes' = successes
    BY <1>1 DEF EnsureChannel, Lock, CheckChannel, Connect, OpenChannel, broker, go
  <2>2. \A p \in Publishers : /\ threads'[p].batch = threads[p].batch
                              /\ WithBroker(p) => WithBroker(p)'
    BY <1>0, <1>1, EnsureLocals DEF WithBroker
  <2> QED  BY <2>1, <2>2, SentPrefix, PublishFrame
<1>2. ASSUME NEW p \in Publishers, PublishStep(p) PROVE PublishInv'
  BY <1>0, <1>1, <1>2, PublishOrder, AfterPublishOrder DEF PublishStep
<1>3. CASE Consume
  <2>1. stored' = stored /\ wire' = wire /\ successes' = successes
    BY <1>3 DEF Consume, Subscribe, DeliveriesEnd, Handle, Ack, broker, go
  <2>2. \A p \in Publishers : threads'[p] = threads[p]
    BY <1>0, <1>3, ConsumeLocals
  <2> QED  BY <2>1, <2>2, SentPrefix, PublishFrame DEF WithBroker
<1>4. CASE Environment
  <2>1. threads' = threads /\ successes' = successes
    BY <1>4 DEF Environment, Receive, Deliver, ConnectionBreaks, ConnectionCloses,
       ChannelCloses, broker, go
  <2>2. CASE Receive
    <3>1. Sent' = Sent
      <4>1. wire # <<>> /\ stored' = Append(stored, Head(wire)) /\ wire' = Tail(wire)
        BY <2>2 DEF Receive
      <4>2. PICK S : stored \in Seq(S) /\ wire \in Seq(S)
        BY DEF TypeOK
      <4>3. Append(stored, Head(wire)) \o Tail(wire) = stored \o wire
        BY <4>1, <4>2, MoveHead
      <4> QED  BY <4>1, <4>3 DEF Sent
    <3> QED  BY <2>1, <3>1, SentType, PublishFrame DEF WithBroker
  <2>3. CASE Deliver \/ ConnectionBreaks \/ ConnectionCloses \/ ChannelCloses
    <3>1. stored' = stored /\ wire' \in {wire, <<>>}
      BY <2>3 DEF Deliver, ConnectionBreaks, ConnectionCloses, ChannelCloses, broker
    <3> QED  BY <2>1, <3>1, SentPrefix, PublishFrame DEF WithBroker
  <2> QED  BY <1>4, <2>2, <2>3 DEF Environment
<1>5. CASE UNCHANGED vars
  <2>1. /\ stored' = stored /\ wire' = wire /\ successes' = successes /\ threads' = threads
    BY <1>5 DEF vars, broker, go
  <2> QED  BY <2>1, SentPrefix, PublishFrame DEF WithBroker
<1> QED  BY <1>0, <1>1, <1>2, <1>3, <1>4, <1>5 DEF Next, ConsumeStep

\* StoredOnceInOrder, for any number of goroutines and batches: a batch that is
\* with the broker or on the wire is behind its goroutine's list, or is the
\* current one and its publication returned without an error, so that a retry
\* never repeats it and a list never passes over a failed one.
THEOREM OnceInOrder == Spec => []StoredOnceInOrder
<1>1. Init => PublishInv
  <2> SUFFICES ASSUME Init PROVE PublishInv
    OBVIOUS
  <2>1. Sent = <<>>
    BY DEF Init, Sent
  <2>2. \A p \in Publishers : threads[p].batch = 1
    BY DEF Init, Threads
  <2> QED  BY <2>1, <2>2 DEF PublishInv, SentInOrder, SentIsCurrent, SuccessesBefore
<1>2. TypeOK /\ PublishInv => StoredOnceInOrder
  <2> SUFFICES ASSUME TypeOK, PublishInv PROVE StoredOnceInOrder
    OBVIOUS
  <2>1. /\ \A i \in DOMAIN Sent : Sent[i].by \in Publishers /\ Sent[i].batch \in Nat
        /\ \A p \in Publishers : threads[p].batch \in Nat
    BY SentType, BatchType
  <2>2. /\ DOMAIN stored \subseteq DOMAIN Sent
        /\ \A i \in DOMAIN stored : Sent[i] = stored[i]
    <3>1. stored \in Seq(Publication) /\ wire \in Seq(Publication)
      BY DEF TypeOK
    <3>2. /\ DOMAIN stored = 1 .. Len(stored) /\ Len(stored) \in Nat /\ Len(wire) \in Nat
          /\ DOMAIN Sent = 1 .. Len(Sent)
      BY <3>1, LenProperties, SentType
    <3>3. /\ Len(Sent) = Len(stored) + Len(wire)
          /\ \A i \in 1 .. Len(stored) + Len(wire) :
               Sent[i] = IF i <= Len(stored) THEN stored[i] ELSE wire[i - Len(stored)]
      BY <3>1, ConcatProperties DEF Sent
    <3> QED  BY <3>2, <3>3
  <2>3. \A i, j \in DOMAIN stored :
          i < j /\ stored[i].by = stored[j].by => stored[i].batch < stored[j].batch
    BY <2>2 DEF PublishInv, SentInOrder
  <2>4. ASSUME NEW m \in ToSet(Sent), NEW b \in 1 .. m.batch - 1
        PROVE  [by |-> m.by, batch |-> b] \in successes
    <3>1. PICK i \in DOMAIN Sent : m = Sent[i]
      BY DEF ToSet
    <3>2. m.batch <= threads[m.by].batch /\ m.by \in Publishers
      BY <2>1, <3>1 DEF PublishInv, SentIsCurrent
    <3>3. b \in 1 .. threads[m.by].batch - 1
      BY <2>1, <3>1, <3>2
    <3> QED  BY <3>2, <3>3 DEF PublishInv, SuccessesBefore
  <2> QED  BY <2>3, <2>4 DEF StoredOnceInOrder, Sent
<1> QED  BY <1>1, <1>2, NextPublish, TypeCorrect, PTL DEF Spec

-----------------------------------------------------------------------------
(* What the consumer acknowledges *)

LEMMA SingletonToSet == \A x : ToSet(<<x>>) = {x}
  BY DEF ToSet

\* A step that leaves the consumer's deliveries alone.
LEMMA ConsumerFrame ==
  ASSUME TypeOK, ConsumerInv, ChannelsNumbered',
         threads'[Consumer].chan = threads[Consumer].chan,
         \/ threads'[Consumer].pc = threads[Consumer].pc
         \/ Unsubscribed /\ Unsubscribed',
         ~IsClosed(threads[Consumer].chan)' => ~IsClosed(threads[Consumer].chan),
         UNCHANGED <<queue, unacked, acked, inbox, handled>>
  PROVE  ConsumerInv'
<1>1. OneDelivery'
  BY DEF ConsumerInv, OneDelivery, ChannelsNumbered, IsClosed, Unsubscribed, DeliveryOut,
     ConsumerPCs
<1>2. UpdatesKeptUntilHandled'
  BY DEF ConsumerInv, UpdatesKeptUntilHandled
<1> QED  BY <1>1, <1>2 DEF ConsumerInv

LEMMA EnsureChannelConsumer ==
  ASSUME TypeOK, ConsumerInv, NEW t \in Threads, EnsureChannel(t)
  PROVE  ConsumerInv'
<1>0. Consumer \in Threads /\ used.channels \in Nat
  BY DEF Threads, TypeOK, Counters
<1>1. UNCHANGED <<queue, unacked, acked, inbox, handled>>
  BY DEF EnsureChannel, Lock, CheckChannel, Connect, OpenChannel, broker, go
<1>2. /\ threads'[Consumer].chan = threads[Consumer].chan
      /\ threads'[Consumer].pc = threads[Consumer].pc \/ (Unsubscribed /\ Unsubscribed')
  BY <1>0, EnsureLocals DEF Unsubscribed
<1>3. CASE OpenChannel(t) /\ conn = "open"
  <2>1. /\ used'.channels = used.channels + 1 /\ channel' = used.channels + 1
        /\ openChans' = openChans \cup {used.channels + 1}
    BY <1>3 DEF OpenChannel, TypeOK, Counters
  <2>2. /\ channel \in Nat /\ threads[Consumer].chan \in Nat /\ openChans \subseteq Nat
    BY <1>0 DEF TypeOK, Locals
  <2>3. ChannelsNumbered'
    BY <1>0, <1>2, <2>1, <2>2 DEF ConsumerInv, ChannelsNumbered
  <2>4. threads[Consumer].chan # used.channels + 1
    BY <1>0, <2>2 DEF ConsumerInv, ChannelsNumbered
  <2> QED  BY <1>1, <1>2, <2>1, <2>3, <2>4, ConsumerFrame DEF IsClosed
<1>4. CASE ~(OpenChannel(t) /\ conn = "open")
  <2>1. openChans' = openChans /\ channel' = channel
    BY <1>4 DEF EnsureChannel, Lock, CheckChannel, Connect, OpenChannel
  <2>2. used'.channels = used.channels
    BY <1>4 DEF EnsureChannel, Lock, CheckChannel, Connect, OpenChannel, TypeOK, Counters
  <2>3. ChannelsNumbered'
    BY <1>2, <2>1, <2>2 DEF ConsumerInv, ChannelsNumbered
  <2> QED  BY <1>1, <1>2, <2>1, <2>3, ConsumerFrame DEF IsClosed
<1> QED  BY <1>3, <1>4

LEMMA ConsumeConsumer == TypeOK /\ ConsumerInv /\ Consume => ConsumerInv'
<1> SUFFICES ASSUME TypeOK, ConsumerInv, Consume PROVE ConsumerInv'
  OBVIOUS
<1> USE DEF broker, go, At, IsClosed, Exit
<1>0. /\ Consumer \in Threads /\ threads[Consumer] \in Locals
      /\ unacked \in Seq(Nat) /\ inbox \in Seq(Nat) /\ handled \in Seq(Nat)
      /\ openChans' = openChans /\ channel' = channel /\ used' = used /\ queue' = queue
  BY DEF Threads, TypeOK, Consume, Subscribe, DeliveriesEnd, Handle, Ack
<1>1. CASE Subscribe
  <2>1. UNCHANGED <<unacked, acked, inbox, handled>> /\ Unsubscribed
    BY <1>1 DEF Subscribe, Unsubscribed
  <2>2. UpdatesKeptUntilHandled'
    BY <1>0, <2>1 DEF ConsumerInv, UpdatesKeptUntilHandled
  <2>3. CASE Goto(Consumer, "exited")
    <3>1. /\ threads'[Consumer].pc = "exited"
          /\ threads'[Consumer].chan = threads[Consumer].chan
      BY <1>0, <2>3, GotoPc
    <3> QED  BY <1>0, <2>1, <2>2, <3>1 DEF ConsumerInv, ChannelsNumbered, OneDelivery,
                Unsubscribed, DeliveryOut, ConsumerPCs
  <2>4. CASE threads' = [threads EXCEPT ![Consumer].pc = "receive", ![Consumer].chan = channel]
    <3>1. threads'[Consumer].pc = "receive" /\ threads'[Consumer].chan = channel
      BY <1>0, <2>4 DEF TypeOK, Locals
    <3> QED  BY <1>0, <2>1, <2>2, <3>1 DEF ConsumerInv, ChannelsNumbered, OneDelivery,
                Unsubscribed, DeliveryOut, ConsumerPCs
  <2> QED  BY <1>1, <2>3, <2>4 DEF Subscribe
<1>2. CASE DeliveriesEnd
  <2>1. /\ threads'[Consumer].pc = "exited"
        /\ threads'[Consumer].chan = threads[Consumer].chan
    BY <1>0, <1>2, GotoPc DEF DeliveriesEnd
  <2>2. UNCHANGED <<unacked, acked, inbox, handled>>
    BY <1>2 DEF DeliveriesEnd
  <2> QED  BY <1>0, <2>1, <2>2 DEF ConsumerInv, ChannelsNumbered, OneDelivery, Unsubscribed,
              DeliveryOut, ConsumerPCs, UpdatesKeptUntilHandled
<1>3. CASE Handle
  <2>0. threads[Consumer].pc = "receive" /\ inbox # <<>> /\ Head(inbox) \in Nat
    BY <1>0, <1>3, HeadTailProperties DEF Handle
  <2>1. UNCHANGED <<unacked, acked>> /\ inbox' = Tail(inbox)
    BY <1>3 DEF Handle
  <2>2. CASE Head(inbox) \in Poison
    <3>1. /\ threads'[Consumer].pc = "exited" /\ handled' = handled
          /\ threads'[Consumer].chan = threads[Consumer].chan
      BY <1>0, <1>3, <2>2, GotoPc DEF Handle
    <3> QED  BY <1>0, <2>1, <3>1 DEF ConsumerInv, ChannelsNumbered, OneDelivery, Unsubscribed,
                DeliveryOut, ConsumerPCs, UpdatesKeptUntilHandled
  <2>3. CASE Head(inbox) \notin Poison
    <3>1. /\ threads'[Consumer].pc = "ack" /\ handled' = Append(handled, Head(inbox))
          /\ threads'[Consumer].chan = threads[Consumer].chan
      BY <1>0, <1>3, <2>3, GotoPc DEF Handle
    <3>2. ToSet(handled') = ToSet(handled) \cup {Head(inbox)}
      BY <1>0, <2>0, <3>1, AppendToSet
    <3>3. ASSUME threads[Consumer].chan \in openChans PROVE DeliveryOut'
      <4>1. inbox = unacked
        BY <2>0, <3>3 DEF ConsumerInv, OneDelivery, DeliveryOut
      <4>2. Len(inbox) \in Nat \ {0} /\ Len(inbox) <= 1
        BY <1>0, <2>0, <4>1, EmptySeq DEF ConsumerInv, OneDelivery
      <4>3. Tail(inbox) = <<>>
        <5>1. Tail(inbox) \in Seq(Nat) /\ Len(Tail(inbox)) = Len(inbox) - 1
          BY <1>0, <2>0, HeadTailProperties
        <5>2. Len(Tail(inbox)) = 0
          BY <4>2, <5>1
        <5> QED  BY <5>1, <5>2, EmptySeq
      <4>4. ToSet(unacked) = {Head(inbox)}
        BY <1>0, <2>0, <4>1, <4>3, HeadTailToSet, EmptyToSet
      <4> QED  BY <2>0, <2>1, <3>1, <3>2, <4>1, <4>3, <4>4 DEF DeliveryOut
    <3>4. OneDelivery'
      BY <1>0, <2>1, <3>1, <3>3 DEF ConsumerInv, OneDelivery, Unsubscribed, ConsumerPCs
    <3> QED  BY <1>0, <2>1, <3>1, <3>2, <3>4 DEF ConsumerInv, ChannelsNumbered,
                UpdatesKeptUntilHandled
  <2> QED  BY <2>2, <2>3
<1>4. CASE Ack
  <2>0. threads[Consumer].pc = "ack" /\ UNCHANGED <<inbox, handled>>
    BY <1>4 DEF Ack
  <2>1. CASE Goto(Consumer, "exited") /\ UNCHANGED <<acked, unacked>>
    <3>1. /\ threads'[Consumer].pc = "exited"
          /\ threads'[Consumer].chan = threads[Consumer].chan
      BY <1>0, <2>1, GotoPc
    <3> QED  BY <1>0, <2>0, <2>1, <3>1 DEF ConsumerInv, ChannelsNumbered, OneDelivery,
                Unsubscribed, DeliveryOut, ConsumerPCs, UpdatesKeptUntilHandled
  <2>2. CASE /\ threads[Consumer].chan \in openChans /\ Goto(Consumer, "receive")
             /\ UNCHANGED <<acked, unacked>>
    <3>1. /\ threads'[Consumer].pc = "receive"
          /\ threads'[Consumer].chan = threads[Consumer].chan
      BY <1>0, <2>2, GotoPc
    <3> QED  BY <1>0, <2>0, <2>2, <3>1 DEF ConsumerInv, ChannelsNumbered, OneDelivery,
                Unsubscribed, DeliveryOut, ConsumerPCs, UpdatesKeptUntilHandled
  <2>3. CASE /\ threads[Consumer].chan \in openChans /\ Goto(Consumer, "receive")
             /\ acked' = acked \cup ToSet(unacked) /\ unacked' = <<>>
    <3>1. /\ threads'[Consumer].pc = "receive"
          /\ threads'[Consumer].chan = threads[Consumer].chan
      BY <1>0, <2>3, GotoPc
    <3>2. inbox = <<>> /\ ToSet(unacked) \subseteq ToSet(handled)
      BY <2>0, <2>3 DEF ConsumerInv, OneDelivery, DeliveryOut
    <3>3. OneDelivery'
      BY <1>0, <2>0, <2>3, <3>1, <3>2, EmptySeq DEF ConsumerInv, OneDelivery, Unsubscribed,
         DeliveryOut, ConsumerPCs
    <3>4. UpdatesKeptUntilHandled'
      BY <1>0, <2>0, <2>3, <3>2, EmptyToSet DEF ConsumerInv, UpdatesKeptUntilHandled
    <3> QED  BY <1>0, <3>1, <3>3, <3>4 DEF ConsumerInv, ChannelsNumbered
  <2> QED  BY <1>4, <2>1, <2>2, <2>3 DEF Ack
<1> QED  BY <1>1, <1>2, <1>3, <1>4 DEF Consume

\* The channel of the consumer closes: what it has not acknowledged is queued again.
LEMMA RequeueConsumer ==
  ASSUME TypeOK, ConsumerInv, Requeue, UNCHANGED <<threads, channel, inbox, handled, acked>>,
         used'.channels = used.channels, openChans' \subseteq openChans,
         threads[Consumer].chan \notin openChans'
  PROVE  ConsumerInv'
<1>1. ToSet(queue') = ToSet(unacked) \cup ToSet(queue) /\ ToSet(unacked') = {}
  BY ConcatToSet, EmptyToSet DEF Requeue, TypeOK
<1>2. UpdatesKeptUntilHandled'
  BY <1>1 DEF ConsumerInv, UpdatesKeptUntilHandled
<1>3. OneDelivery'
  BY EmptySeq DEF ConsumerInv, OneDelivery, Requeue, Unsubscribed, IsClosed
<1>4. ChannelsNumbered'
  BY DEF ConsumerInv, ChannelsNumbered
<1> QED  BY <1>2, <1>3, <1>4 DEF ConsumerInv

LEMMA EnvironmentConsumer ==
  ASSUME TypeOK, LockInv, ConsumerInv, Environment
  PROVE  ConsumerInv'
<1> USE DEF broker, go, IsClosed
<1>1. CASE Receive \/ ConnectionBreaks
  <2>1. UNCHANGED <<queue, unacked, acked, inbox, handled, channel, openChans, threads>>
    BY <1>1 DEF Receive, ConnectionBreaks
  <2>2. used'.channels = used.channels
    BY <1>1 DEF Receive, ConnectionBreaks, Breaks, TypeOK, Counters
  <2> QED  BY <2>1, <2>2, ConsumerFrame DEF ConsumerInv, ChannelsNumbered
<1>2. CASE Deliver
  <2>0. /\ threads[Consumer].chan \in openChans /\ unacked = <<>> /\ queue # <<>>
        /\ UNCHANGED <<threads, channel, openChans, used, acked, handled>>
        /\ queue \in Seq(Nat) /\ Head(queue) \in Nat
        /\ unacked' = <<Head(queue)>> /\ inbox' = Append(inbox, Head(queue))
        /\ queue' = Tail(queue)
    BY <1>2, HeadTailProperties DEF Deliver, TypeOK
  <2>1. DeliveryOut'
    <3>1. \/ threads[Consumer].pc = "exited"
          \/ threads[Consumer].pc = "receive" /\ inbox = <<>>
      <4>1. DeliveryOut
        BY <2>0 DEF ConsumerInv, OneDelivery
      <4>2. unacked = <<>>
        BY <2>0
      <4> QED  BY <4>1, <4>2 DEF DeliveryOut
    <3>2. inbox = <<>> => inbox' = unacked'
      BY <2>0
    <3> QED  BY <2>0, <3>1, <3>2 DEF DeliveryOut
  <2>2. ~Unsubscribed
    BY <2>0 DEF ConsumerInv, OneDelivery, ChannelsNumbered
  <2>3. OneDelivery'
    BY <2>0, <2>1, <2>2 DEF ConsumerInv, OneDelivery, Unsubscribed
  <2>4. ToSet(queue) \cup ToSet(unacked) = ToSet(queue') \cup ToSet(unacked')
    BY <2>0, HeadTailToSet, SingletonToSet, EmptyToSet
  <2> QED  BY <2>0, <2>3, <2>4 DEF ConsumerInv, ChannelsNumbered, UpdatesKeptUntilHandled
<1>3. CASE ConnectionCloses
  BY <1>3, RequeueConsumer DEF ConnectionCloses
<1>4. CASE ChannelCloses
  <2>1. /\ UNCHANGED <<threads, channel, inbox, handled, acked>>
        /\ openChans' = openChans \ {channel} /\ used'.channels = used.channels
    BY <1>4 DEF ChannelCloses, Breaks, TypeOK, Counters
  <2>2. CASE threads[Consumer].chan = channel
    BY <1>4, <2>1, <2>2, RequeueConsumer DEF ChannelCloses
  <2>3. CASE threads[Consumer].chan # channel
    <3>1. UNCHANGED <<queue, unacked>>
      BY <1>4, <2>3 DEF ChannelCloses
    <3> QED  BY <2>1, <3>1, ConsumerFrame DEF ConsumerInv, ChannelsNumbered
  <2> QED  BY <2>2, <2>3
<1> QED  BY <1>1, <1>2, <1>3, <1>4 DEF Environment

LEMMA NextConsumer == TypeOK /\ LockInv /\ ConsumerInv /\ [Next]_vars => ConsumerInv'
<1> SUFFICES ASSUME TypeOK, LockInv, ConsumerInv, [Next]_vars PROVE ConsumerInv'
  OBVIOUS
<1>1. ASSUME NEW p \in Publishers, PublishStep(p) PROVE ConsumerInv'
  <2>1. CASE EnsureChannel(p)
    BY <2>1, EnsureChannelConsumer DEF Threads
  <2>2. CASE Publish(p) \/ AfterPublish(p)
    <3>1. /\ UNCHANGED <<queue, unacked, acked, inbox, handled, channel, openChans, used>>
          /\ threads'[Consumer] = threads[Consumer]
      BY <2>2, PublishLocals, AfterPublishLocals DEF Publish, AfterPublish, broker, go, Threads
    <3> QED  BY <3>1, ConsumerFrame DEF ConsumerInv, ChannelsNumbered, IsClosed
  <2> QED  BY <1>1, <2>1, <2>2 DEF PublishStep
<1>2. CASE ConsumeStep
  BY <1>2, EnsureChannelConsumer, ConsumeConsumer DEF ConsumeStep, Threads
<1>3. CASE Environment
  BY <1>3, EnvironmentConsumer
<1>4. CASE UNCHANGED vars
  BY <1>4, ConsumerFrame DEF vars, broker, go, ConsumerInv, ChannelsNumbered, IsClosed
<1> QED  BY <1>1, <1>2, <1>3, <1>4 DEF Next

\* UpdatesKeptUntilHandled, for any queue and any breaks: an acknowledgement
\* that reaches the broker is of the one delivery of the open channel, which the
\* handler has had; a channel that was closed gives its delivery back.
THEOREM KeptUntilHandled == Spec => []UpdatesKeptUntilHandled
<1>1. Init => LockInv /\ ConsumerInv
  <2> SUFFICES ASSUME Init PROVE LockInv /\ ConsumerInv
    OBVIOUS
  <2>1. LockInv
    BY DEF Init, LockInv, OneChannelOpen, Ensuring, Reopening, Threads
  <2>2. threads[Consumer].pc = "ensure" /\ threads[Consumer].chan = 0
    BY DEF Init, Threads
  <2>3. ChannelsNumbered /\ OneDelivery
    BY <2>2, EmptySeq DEF Init, ChannelsNumbered, OneDelivery, ConsumerPCs, IsClosed
  <2>4. UpdatesKeptUntilHandled
    BY EmptyToSet DEF Init, UpdatesKeptUntilHandled
  <2> QED  BY <2>1, <2>3, <2>4 DEF ConsumerInv
<1>2. LockInv /\ ConsumerInv => UpdatesKeptUntilHandled
  BY DEF ConsumerInv
<1> QED  BY <1>1, <1>2, NextLock, NextConsumer, TypeCorrect, PTL DEF Spec
=============================================================================
