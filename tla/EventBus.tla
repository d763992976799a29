------------------------------ MODULE EventBus ------------------------------
(***************************************************************************)
(* The event bus (internal/events/bus.go): a ring of the most recent       *)
(* events, read by the dashboard, and one bounded channel per subscriber.  *)
(*                                                                         *)
(* Every operation holds b.mu from start to end, so each is one action.    *)
(* An event is identified by its place in the order of publication.  A     *)
(* send to a full channel takes the select's default branch: the event is  *)
(* dropped for that subscriber.                                            *)
(***************************************************************************)
EXTENDS Integers, Sequences, FiniteSets

CONSTANTS
  RingSize,      \* NewBus(ringSize): 200 in cmd/relay
  ChanSize,      \* capacity of a subscriber's channel: 64
  MaxPublished,  \* bound: events published
  MaxSubscribed  \* bound: calls of Subscribe

ASSUME BusAssumption == /\ RingSize \in Nat \ {0}
                        /\ ChanSize \in Nat \ {0}
                        /\ MaxPublished \in Nat
                        /\ MaxSubscribed \in Nat

VARIABLES
  ring,         \* the slots; a slot never written holds the zero Event, 0
  ringPos,      \* the slot the next event goes to
  ringCount,    \* slots in use
  subscribers,  \* the ids registered
  nextID,       \* the id of the next subscriber
  channel,      \* id -> events sent and not yet received
  reader,       \* id -> what the subscriber has: the snapshot, then what it received
  lagged,       \* the ids for which a send was dropped
  published     \* events published so far

ringVars == <<ring, ringPos, ringCount>>
subVars == <<subscribers, nextID, channel, reader, lagged>>
busVars == <<ring, ringPos, ringCount, subscribers, nextID, channel, reader, lagged,
             published>>

Slots == 0 .. RingSize - 1
Ids == 0 .. MaxSubscribed - 1

BusInit ==
  /\ ring = [i \in Slots |-> 0]
  /\ ringPos = 0
  /\ ringCount = 0
  /\ subscribers = {}
  /\ nextID = 0
  /\ channel = [i \in Ids |-> <<>>]
  /\ reader = [i \in Ids |-> <<>>]
  /\ lagged = {}
  /\ published = 0

\* A mutant of recentLocked: the oldest event is taken to be in the next slot.
recentLockedFromPos ==
  [i \in 1 .. ringCount |-> ring[(ringPos + i) % RingSize]]

\* The events of the ring, oldest first.
recentLocked ==
  LET start == (ringPos - ringCount + RingSize) % RingSize
  IN  [i \in 1 .. ringCount |-> ring[(start + i - 1) % RingSize]]

\* A mutant of Deliver: a full channel gives up its oldest event instead.
DeliverDropsOldest(e) ==
  /\ channel' = [i \in Ids |->
       IF i \notin subscribers THEN channel[i]
       ELSE IF Len(channel[i]) < ChanSize THEN Append(channel[i], e)
       ELSE Append(Tail(channel[i]), e)]
  /\ lagged' = lagged

\* The select with a default branch, for every registered channel.
Deliver(e) ==
  LET full == {i \in subscribers : Len(channel[i]) >= ChanSize}
  IN  /\ channel' = [i \in Ids |->
            IF i \in subscribers \ full THEN Append(channel[i], e) ELSE channel[i]]
      /\ lagged' = lagged \cup full

\* A mutant of Publish: the position is not wrapped.
PublishUnwrapped ==
  /\ published < MaxPublished
  /\ published' = published + 1
  /\ ring' = [ring EXCEPT ![ringPos] = published + 1]
  /\ ringPos' = ringPos + 1
  /\ ringCount' = IF ringCount < RingSize THEN ringCount + 1 ELSE ringCount
  /\ Deliver(published + 1)
  /\ UNCHANGED <<subscribers, nextID, reader>>

Publish ==
  /\ published < MaxPublished
  /\ published' = published + 1
  /\ ring' = [ring EXCEPT ![ringPos] = published + 1]
  /\ ringPos' = (ringPos + 1) % RingSize
  /\ ringCount' = IF ringCount < RingSize THEN ringCount + 1 ELSE ringCount
  /\ Deliver(published + 1)
  /\ UNCHANGED <<subscribers, nextID, reader>>

\* Registration and snapshot are one critical section.
Subscribe ==
  /\ nextID < MaxSubscribed
  /\ nextID' = nextID + 1
  /\ subscribers' = subscribers \cup {nextID}
  /\ reader' = [reader EXCEPT ![nextID] = recentLocked]
  /\ UNCHANGED <<ring, ringPos, ringCount, channel, lagged, published>>

\* The channel is closed: what it holds can still be received.
Unsubscribe(i) ==
  /\ i \in subscribers
  /\ subscribers' = subscribers \ {i}
  /\ UNCHANGED <<ring, ringPos, ringCount, nextID, channel, reader, lagged, published>>

\* The subscriber takes the next event from its channel.
Receive(i) ==
  /\ channel[i] # <<>>
  /\ reader' = [reader EXCEPT ![i] = Append(@, Head(channel[i]))]
  /\ channel' = [channel EXCEPT ![i] = Tail(@)]
  /\ UNCHANGED <<ring, ringPos, ringCount, subscribers, nextID, lagged, published>>

\* POST /admin/events/clear; the slots keep their contents.
Clear ==
  /\ ringPos' = 0
  /\ ringCount' = 0
  /\ UNCHANGED <<ring, subVars, published>>

BusNext ==
  \/ Publish \/ Subscribe \/ Clear
  \/ \E i \in Ids : Unsubscribe(i) \/ Receive(i)

BusSpec == BusInit /\ [][BusNext]_busVars

-----------------------------------------------------------------------------
BusTypeOK ==
  /\ ring \in [Slots -> 0 .. MaxPublished]
  /\ ringPos \in Slots
  /\ ringCount \in 0 .. RingSize
  /\ subscribers \subseteq Ids
  /\ nextID \in 0 .. MaxSubscribed
  /\ channel \in [Ids -> Seq(1 .. MaxPublished)]
  /\ reader \in [Ids -> Seq(1 .. MaxPublished)]
  /\ lagged \subseteq Ids
  /\ published \in 0 .. MaxPublished

Log == INSTANCE RecentLog
         WITH Event <- 1 .. MaxPublished, Size <- RingSize, log <- recentLocked

\* The ring with its wrapping position and its count (Publish, Clear, recentLocked)
\* implements the log of the last RingSize events: a wrap, a clear half way round
\* or a publication after a clear never shows an old slot again, hides a recent
\* event or changes their order.
RingImplementsLog == Log!LogSpec

\* A subscriber whose channel was never full when an event came sees one unbroken stream: the
\* snapshot Subscribe returned, then every later event exactly once and in order;
\* what a slow one misses are events published while its channel was full, and what
\* it gets is still in order and without duplicates.
StreamUnbroken ==
  \A i \in Ids :
    LET seen == reader[i] \o channel[i]
    IN  /\ \A k \in 1 .. Len(seen) - 1 : seen[k] < seen[k + 1]
        /\ i \notin lagged /\ seen # <<>> =>
             \A k \in 1 .. Len(seen) : seen[k] = seen[1] + k - 1
        /\ i \in subscribers /\ i \notin lagged /\ seen # <<>> =>
             seen[Len(seen)] = published
=============================================================================
