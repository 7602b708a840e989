---------------------------- MODULE RabbitClient ----------------------------
(***************************************************************************)
(* One preprocessor's RabbitMQ client (commons/src/rabbitmq/client.go): a  *)
(* ClientImpl whose single channel is shared by the publishing goroutines  *)
(* and by the consumer of set-of-sd-instances-updates, and the connection  *)
(* manager behind it.  ensureChannel works under c.mu, everything else     *)
(* reads c.channel and the connection without it.  The broker, the wire    *)
(* and the amqp library are external: a publication is written to the wire *)
(* and received later, or lost with the connection; there are no confirms. *)
(***************************************************************************)
EXTENDS Integers, Sequences, FiniteSets, SequencesExt

CONSTANTS
  Publishers,    \* goroutines in PublishJSONBatches
  Batches,       \* bound: batches in the list of each
  Updates,       \* the messages of the queue, in order: their numbers
  Poison,        \* those with a wrong content type or JSON
  Nobody,        \* c.mu is free
  MaxBreaks,     \* bound: connections and channels that break
  MaxDialErrors  \* bound: dials that fail

Consumer == "consumer"

ASSUME ConstantsAssumption ==
  /\ Batches \in Nat \ {0}   \* nothing is sent for an empty list
  /\ {MaxBreaks, MaxDialErrors} \subseteq Nat
  /\ Updates \in Seq(Nat)
  /\ Poison \subseteq Nat
  /\ Nobody \notin Publishers \cup {Consumer}
  /\ Consumer \notin Publishers

VARIABLES
  conn,       \* cm.conn: "none", "open", "broken" (not noticed yet), "closed"
  channel,    \* c.channel: 0 for nil, or the number of an amqp.Channel
  openChans,  \* channels that are not IsClosed
  mu,         \* the holder of c.mu, or Nobody
  threads,    \* per goroutine: pc, batch, try, err and the channel it consumes
  wire,       \* publications written and not received yet
  stored,     \* publications the broker has, in order
  queue,      \* updates the broker has
  unacked,    \* updates sent to the consumer, not acked as the broker knows
  inbox,      \* the deliveries the library holds for the consumer
  handled,    \* updates handed to the handler with success, in order
  acked,      \* updates the broker dropped
  successes,  \* history: publications that returned without an error
  used        \* breaks, dial errors and channels opened so far

broker == <<stored, queue, unacked, acked>>
go == <<inbox, handled, successes>>
vars == <<conn, channel, openChans, mu, threads, wire, broker, go, used>>

-----------------------------------------------------------------------------
Threads == Publishers \cup {Consumer}
Publication == [by : Publishers, batch : 1 .. Batches]

IsClosed(ch) == ch \notin openChans
At(t, pc) == threads[t].pc = pc
Goto(t, pc) == threads' = [threads EXCEPT ![t].pc = pc]

Init ==
  /\ conn = "none"
  /\ channel = 0
  /\ openChans = {}
  /\ mu = Nobody
  /\ threads = [t \in Threads |-> [pc |-> "ensure", batch |-> 1, try |-> 1, err |-> "none",
                                   chan |-> 0]]
  /\ wire = <<>>
  /\ stored = <<>> /\ queue = Updates /\ unacked = <<>> /\ acked = {}
  /\ inbox = <<>> /\ handled = <<>> /\ successes = {}
  /\ used = [breaks |-> 0, dials |-> 0, channels |-> 0]

-----------------------------------------------------------------------------
(* ensureChannel, entered by every goroutine before it uses the channel *)

\* Mutant: the lock is forgotten.
LockForgotten(t) ==
  /\ At(t, "ensure")
  /\ Goto(t, "loop")
  /\ UNCHANGED <<conn, channel, openChans, mu, wire, broker, go, used>>

Lock(t) ==
  /\ At(t, "ensure")
  /\ mu = Nobody
  /\ mu' = t
  /\ Goto(t, "loop")
  /\ UNCHANGED <<conn, channel, openChans, wire, broker, go, used>>

\* Mutant: the loop is left without its deferred unlock.
UnlockForgotten(t) ==
  /\ At(t, "loop")
  /\ Goto(t, IF IsClosed(channel) THEN "dial" ELSE "use")
  /\ UNCHANGED <<conn, channel, openChans, mu, wire, broker, go, used>>

\* The condition of the loop: the channel is nil or closed, or c.mu is released.
CheckChannel(t) ==
  /\ At(t, "loop")
  /\ IF IsClosed(channel)
     THEN Goto(t, "dial") /\ UNCHANGED mu
     ELSE Goto(t, "use") /\ mu' = Nobody
  /\ UNCHANGED <<conn, channel, openChans, wire, broker, go, used>>

\* connectionManager.connect: a missing or closed connection is dialled; one
\* that is broken and not noticed yet passes for open.  After an error the
\* goroutine sleeps and tries again.
Connect(t) ==
  /\ At(t, "dial")
  /\ \/ conn \in {"open", "broken"} /\ Goto(t, "open") /\ UNCHANGED <<conn, wire, used>>
     \/ /\ conn \in {"none", "closed"}
        /\ conn' = "open" /\ wire' = <<>>
        /\ Goto(t, "open")
        /\ UNCHANGED used
     \/ /\ conn \in {"none", "closed"}
        /\ used.dials < MaxDialErrors
        /\ used' = [used EXCEPT !.dials = @ + 1]
        /\ Goto(t, "loop")
        /\ UNCHANGED <<conn, wire>>
  /\ UNCHANGED <<channel, openChans, mu, broker, go>>

\* openChannel after connect: cm.conn.Channel() outside of cm.mu.
OpenChannel(t) ==
  /\ At(t, "open")
  /\ IF conn = "open"
     THEN /\ channel' = used.channels + 1
          /\ openChans' = openChans \cup {channel'}
          /\ used' = [used EXCEPT !.channels = @ + 1]
     ELSE UNCHANGED <<channel, openChans, used>>
  /\ Goto(t, "loop")
  /\ UNCHANGED <<conn, mu, wire, broker, go>>

EnsureChannel(t) == Lock(t) \/ CheckChannel(t) \/ Connect(t) \/ OpenChannel(t)

-----------------------------------------------------------------------------
(* PublishJSONBatches and PublishJSONMessage *)

\* PublishWithContext on whatever c.channel is now: a closed channel is an
\* error; on a connection that is gone unnoticed the write fails or is lost.
Publish(p) ==
  /\ p # Consumer
  /\ At(p, "use")
  /\ \/ /\ ~IsClosed(channel) /\ conn = "open"
        /\ wire' = Append(wire, [by |-> p, batch |-> threads[p].batch])
        /\ threads' = [threads EXCEPT ![p].pc = "sent", ![p].err = "none"]
     \/ /\ ~IsClosed(channel) /\ conn = "broken"
        /\ \E e \in {"none", "write"} :
             threads' = [threads EXCEPT ![p].pc = "sent", ![p].err = e]
        /\ UNCHANGED wire
     \/ /\ IsClosed(channel)
        /\ threads' = [threads EXCEPT ![p].pc = "sent", ![p].err = "not open"]
        /\ UNCHANGED wire
  /\ UNCHANGED <<conn, channel, openChans, mu, broker, go, used>>

\* Mutant of retryAfterReconnect: without its nil check.
RetriesNil(p) == IsClosed(channel) \/ conn \in {"none", "closed"} \/ threads[p].err = "not open"
\* retryAfterReconnect: an error is retried when the channel or the connection
\* is closed by now, or when its text says that they were.
Retries(p) ==
  /\ threads[p].err # "none"
  /\ IsClosed(channel) \/ conn \in {"none", "closed"} \/ threads[p].err = "not open"

Succeeds(p) == successes' = IF threads[p].err = "none"
                            THEN successes \cup {[by |-> p, batch |-> threads[p].batch]}
                            ELSE successes

\* The rest of PublishJSONMessage: one more try, or the result; then the next
\* batch of PublishJSONBatches, or its error.
AfterPublish(p) ==
  /\ At(p, "sent")
  /\ LET last == threads[p].batch = Batches IN
     IF Retries(p) /\ threads[p].try = 1
     THEN threads' = [threads EXCEPT ![p].pc = "ensure", ![p].try = 2]
     ELSE IF threads[p].err # "none" THEN Goto(p, "failed")
     ELSE threads' = [threads EXCEPT ![p].pc = IF last THEN "done" ELSE "ensure",
                        ![p].try = 1, ![p].batch = IF last THEN @ ELSE @ + 1]
  /\ Succeeds(p)
  /\ UNCHANGED <<conn, channel, openChans, mu, wire, broker, inbox, handled, used>>

-----------------------------------------------------------------------------
(* SetupMessageConsumption *)

Exit == Goto(Consumer, "exited")

\* Qos and Consume on the channel; an error of either ends the goroutine.
Subscribe ==
  /\ At(Consumer, "use")
  /\ IF ~IsClosed(channel) /\ conn = "open"
     THEN threads' = [threads EXCEPT ![Consumer].pc = "receive", ![Consumer].chan = channel]
     ELSE Exit
  /\ UNCHANGED <<conn, channel, openChans, mu, wire, broker, go, used>>

\* The loop ends when the channel of deliveries was closed with its amqp
\* channel: nothing subscribes again.
DeliveriesEnd ==
  /\ At(Consumer, "receive")
  /\ IsClosed(threads[Consumer].chan)
  /\ Exit
  /\ UNCHANGED <<conn, channel, openChans, mu, wire, broker, go, used>>

\* Mutant: a message that cannot be used is acknowledged all the same.
HandleOrDrop ==
  /\ At(Consumer, "receive")
  /\ inbox # <<>>
  /\ inbox' = Tail(inbox)
  /\ Goto(Consumer, "ack")
  /\ handled' = IF Head(inbox) \in Poison THEN handled ELSE Append(handled, Head(inbox))
  /\ UNCHANGED <<conn, channel, openChans, mu, wire, broker, successes, used>>

\* ConsumeJSONMessages' function: a wrong content type or JSON is an error, and
\* the goroutine ends with the message unacknowledged.
Handle ==
  /\ At(Consumer, "receive")
  /\ inbox # <<>>
  /\ inbox' = Tail(inbox)
  /\ IF Head(inbox) \in Poison
     THEN Exit /\ UNCHANGED handled
     ELSE handled' = Append(handled, Head(inbox)) /\ Goto(Consumer, "ack")
  /\ UNCHANGED <<conn, channel, openChans, mu, wire, broker, successes, used>>

\* message.Ack on the channel that delivered it; on a connection that is gone
\* unnoticed the ack is lost, or its write fails.
Ack ==
  LET open == ~IsClosed(threads[Consumer].chan) IN
  /\ At(Consumer, "ack")
  /\ \/ /\ open /\ conn = "open"
        /\ acked' = acked \cup ToSet(unacked) /\ unacked' = <<>>
        /\ Goto(Consumer, "receive")
     \/ /\ open /\ conn = "broken"
        /\ Goto(Consumer, "receive")
        /\ UNCHANGED <<acked, unacked>>
     \/ /\ ~open \/ conn = "broken"
        /\ Exit
        /\ UNCHANGED <<acked, unacked>>
  /\ UNCHANGED <<conn, channel, openChans, mu, wire, stored, queue, go, used>>

Consume == Subscribe \/ DeliveriesEnd \/ Handle \/ Ack

-----------------------------------------------------------------------------
(* The broker and the connection (external) *)

Receive ==
  /\ conn = "open"
  /\ wire # <<>>
  /\ stored' = Append(stored, Head(wire))
  /\ wire' = Tail(wire)
  /\ UNCHANGED <<conn, channel, openChans, mu, threads, queue, unacked, acked, go, used>>

\* Qos(1): one unacknowledged delivery at a time.
Deliver ==
  /\ conn = "open"
  /\ ~IsClosed(threads[Consumer].chan)
  /\ unacked = <<>>
  /\ queue # <<>>
  /\ unacked' = <<Head(queue)>> /\ inbox' = Append(inbox, Head(queue))
  /\ queue' = Tail(queue)
  /\ UNCHANGED <<conn, channel, openChans, mu, threads, wire, stored, acked, handled,
                 successes, used>>

Breaks == /\ conn = "open"
          /\ used.breaks < MaxBreaks
          /\ used' = [used EXCEPT !.breaks = @ + 1]

Requeue == queue' = unacked \o queue /\ unacked' = <<>>

\* The connection is gone with what is on the wire; the library notices later.
ConnectionBreaks ==
  /\ Breaks
  /\ conn' = "broken" /\ wire' = <<>>
  /\ UNCHANGED <<channel, openChans, mu, threads, broker, go>>

ConnectionCloses ==
  /\ conn = "broken"
  /\ conn' = "closed" /\ openChans' = {}
  /\ Requeue
  /\ UNCHANGED <<channel, mu, threads, wire, stored, acked, go, used>>

\* A channel exception; the broker may ignore what it reads on the channel.
ChannelCloses ==
  /\ Breaks
  /\ ~IsClosed(channel)
  /\ openChans' = openChans \ {channel}
  /\ wire' \in {wire, <<>>}
  /\ IF threads[Consumer].chan = channel THEN Requeue ELSE UNCHANGED <<queue, unacked>>
  /\ UNCHANGED <<conn, channel, mu, threads, stored, acked, go>>

Environment == Receive \/ Deliver \/ ConnectionBreaks \/ ConnectionCloses \/ ChannelCloses

-----------------------------------------------------------------------------

PublishStep(p) == EnsureChannel(p) \/ Publish(p) \/ AfterPublish(p)
ConsumeStep == EnsureChannel(Consumer) \/ Consume

Next == (\E p \in Publishers : PublishStep(p)) \/ ConsumeStep \/ Environment

Spec == Init /\ [][Next]_vars

\* Goroutines run, a mutex asked for again and again is obtained, the library
\* notices a dead connection, and a live one carries what was written.  Breaks
\* and dial errors are finitely many.
FairSpec ==
  /\ Spec
  /\ \A p \in Publishers : WF_vars(PublishStep(p)) /\ SF_vars(Lock(p))
  /\ WF_vars(ConsumeStep) /\ SF_vars(Lock(Consumer))
  /\ WF_vars(ConnectionCloses) /\ WF_vars(Receive) /\ WF_vars(Deliver)
-----------------------------------------------------------------------------
(* Properties *)

\* The goroutines share one channel: while one reopens it the others wait, and
\* no channel is left open behind the one in use.
OneChannelOpen == openChans \subseteq {channel}

\* Although a failed publication is tried again after a reconnect, the broker
\* gets no batch twice and the batches of a list in order; and the list stops at
\* its first error, so whatever reached the broker or the wire has only
\* successful batches before it.
StoredOnceInOrder ==
  /\ \A i, j \in DOMAIN stored :
       i < j /\ stored[i].by = stored[j].by => stored[i].batch < stored[j].batch
  /\ \A m \in ToSet(stored \o wire) : \A b \in 1 .. m.batch - 1 :
       [by |-> m.by, batch |-> b] \in successes

\* The broker drops an update only after its handler succeeded: what is not
\* usable stays in the queue or with the consumer.
UpdatesKeptUntilHandled ==
  /\ ToSet(Updates) = ToSet(queue) \cup ToSet(unacked) \cup acked
  /\ acked \subseteq ToSet(handled)

\* Every publishing goroutine gets its list done or an error back: waiting for
\* c.mu or for the connection ends.
PublishersReturn == \A p \in Publishers : <>(threads[p].pc \in {"done", "failed"})
=============================================================================
