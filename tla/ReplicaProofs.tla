--------------------------- MODULE ReplicaProofs ---------------------------
(***************************************************************************)
(* Theorems about Replica, for every number of listings and users, every   *)
(* TTL and queue length, and every combination of the failures.            *)
(***************************************************************************)
EXTENDS Replica, EtlProofs, SequenceTheorems, Extrema, TLAPS

-----------------------------------------------------------------------------
(* The passing of time.                                                    *)

LEMMA AgedPrice ==
    ASSUME NEW price \in Prices
    PROVE  /\ Aged(price) \in Prices
           /\ price.age > Ttl => Aged(price).age > Ttl
BY ReplicaAssumption DEF Aged, Ages

\* An event, some time later.
AgedOne(e) == [e EXCEPT !.price = Aged(@)]

LEMMA AgedEvent ==
    ASSUME NEW e \in Event
    PROVE  LET f == AgedOne(e)
           IN  /\ f \in Event
               /\ f.event = e.event /\ f.id = e.id /\ f.steamid = e.steamid
               /\ f.screened = e.screened /\ f.price = Aged(e.price)
<1>1. Aged(e.price) \in Prices
  BY AgedPrice DEF Event
<1> QED
  BY <1>1 DEF Event, AgedOne

\* What the filters look at does not change with time.
LEMMA AgedBatch ==
    ASSUME NEW b \in Seq(Event)
    PROVE  /\ AgedEvents(b) \in Seq(Event)
           /\ DOMAIN AgedEvents(b) = DOMAIN b
           /\ \A i \in DOMAIN b :
                 /\ AgedEvents(b)[i] = AgedOne(b[i])
                 /\ AgedEvents(b)[i].event = b[i].event
                 /\ AgedEvents(b)[i].id = b[i].id
                 /\ AgedEvents(b)[i].steamid = b[i].steamid
                 /\ AgedEvents(b)[i].screened = b[i].screened
<1>1. Len(b) \in Nat /\ DOMAIN b = 1 .. Len(b) /\ \A i \in DOMAIN b : b[i] \in Event
  BY LenProperties
<1>2. AgedEvents(b) \in [1 .. Len(b) -> Event]
  BY <1>1, AgedEvent DEF AgedEvents, AgedOne
<1>3. AgedEvents(b) \in Seq(Event)
  BY <1>1, <1>2, SeqDef
<1>4. \A i \in DOMAIN b : AgedEvents(b)[i] = AgedOne(b[i])
  BY DEF AgedEvents, AgedOne
<1> QED
  BY <1>1, <1>2, <1>3, <1>4, AgedEvent

LEMMA AgedFilters ==
    ASSUME NEW b \in Seq(Event)
    PROVE  /\ Updates(AgedEvents(b)) = Updates(b)
           /\ Deletes(AgedEvents(b)) = Deletes(b)
           /\ Ids(AgedEvents(b)) = Ids(b)
<1>1. UpdatesIn(AgedEvents(b), {}) = UpdatesIn(b, {})
  BY AgedBatch DEF UpdatesIn, Accepted
<1>2. UpdatesIn(b, {}) \subseteq DOMAIN b
  BY DEF UpdatesIn
<1>3. Updates(AgedEvents(b)) = Updates(b)
  BY <1>1, <1>2, AgedBatch DEF Updates, FilterUnique
<1>4. Deletes(AgedEvents(b)) = Deletes(b)
  BY AgedBatch DEF Deletes, DeletesIn, Accepted
<1>5. Ids(AgedEvents(b)) = Ids(b)
  <2>1. \A i \in DOMAIN b : AgedEvents(b)[i].id = b[i].id
    BY AgedBatch
  <2>2. DOMAIN AgedEvents(b) = DOMAIN b
    BY AgedBatch
  <2> QED
    BY <2>1, <2>2 DEF Ids, IdsOf
<1> QED
  BY <1>3, <1>4, <1>5

LEMMA AgedTable ==
    ASSUME NEW table \in Tables
    PROVE  AgedRows(table) \in Tables
<1> SUFFICES ASSUME NEW id \in ListingIds, table[id] # NoListing
             PROVE  [table[id] EXCEPT !.price = Aged(@)] \in Listing
  BY DEF AgedRows, Tables
<1>1. table[id] \in Listing
  BY DEF Tables
<1>2. Aged(table[id].price) \in Prices
  BY <1>1, AgedPrice DEF Listing
<1> QED
  BY <1>1, <1>2 DEF Listing

-----------------------------------------------------------------------------
(* Types.                                                                  *)

LEMMA IdsType ==
    ASSUME NEW b \in Seq(Event)
    PROVE  Ids(b) \subseteq ListingIds
<1>1. \A i \in DOMAIN b : b[i] \in Event
  BY LenProperties
<1> QED
  BY <1>1 DEF Ids, IdsOf, Event

LEMMA QueuedType ==
    ASSUME NEW queue \in Seq(Seq(Event))
    PROVE  QueuedIds(queue) \subseteq ListingIds
<1>1. \A i \in DOMAIN queue : queue[i] \in Seq(Event)
  BY LenProperties
<1> QED
  BY <1>1, IdsType DEF QueuedIds

LEMMA PositionsType ==
    ASSUME NEW b
    PROVE  Updates(b) \subseteq DOMAIN b /\ Deletes(b) \subseteq DOMAIN b
BY DEF Updates, Deletes, FilterUnique, UpdatesIn, DeletesIn

\* The last event about an id is one of the events about it.
LEMMA LastEventIsOne ==
    ASSUME NEW b \in Seq(Event), NEW id \in Ids(b)
    PROVE  \E i \in DOMAIN b : b[i].id = id /\ LastEvent(b, id) = b[i]
<1> DEFINE D == {i \in DOMAIN b : b[i].id = id}
<1>1. Len(b) \in Nat /\ DOMAIN b = 1 .. Len(b)
  BY LenProperties
<1>2. D \in SUBSET (0 .. Len(b)) /\ D # {}
  BY <1>1 DEF Ids, IdsOf
<1>3. \E i \in D : \A j \in D : j <= i
  <2> HIDE DEF D
  <2> QED
    BY <1>1, <1>2, GreatestNatural
<1>4. \E i \in DOMAIN b : b[i].id = id /\ \A j \in DOMAIN b : b[j].id = id => j <= i
  BY <1>3
<1> DEFINE i == CHOOSE i \in DOMAIN b :
                   b[i].id = id /\ \A j \in DOMAIN b : b[j].id = id => j <= i
<1>5. i \in DOMAIN b /\ b[i].id = id
  BY <1>4
<1>6. LastEvent(b, id) = b[i]
  BY DEF LastEvent
<1> QED
  BY <1>5, <1>6

LEMMA TypeInit == Init => TypeOK
<1> SUFFICES ASSUME Init PROVE TypeOK
  OBVIOUS
<1>1. <<>> \in Seq(Event) /\ <<>> \in Seq(Seq(Event)) /\ Len(<<>>) = 0
  BY EmptySeq
<1>2. site \in [ListingIds -> {e \in Event : e.event = "listing-update"}
                               \cup {NoListing}]
  BY DEF Init, EmptyTable
<1>3. trade_listings \in Tables
  BY DEF Init, EmptyTable, Tables
<1> QED
  BY <1>1, <1>2, <1>3, ReplicaAssumption DEF Init, TypeOK, InitialBackoff,
     MaxBackoff

\* What the site has after a message.
LEMMA PublishedType ==
    ASSUME TypeOK, NEW b \in Seq(Event), Publish(b)
    PROVE  site' \in [ListingIds -> {e \in Event : e.event = "listing-update"}
                                    \cup {NoListing}]
<1> SUFFICES ASSUME NEW id \in ListingIds, id \in Ids(b),
                    LastEvent(b, id).event = "listing-update"
             PROVE  LastEvent(b, id) \in Event
  BY DEF Publish, TypeOK
<1>1. \A i \in DOMAIN b : b[i] \in Event
  BY LenProperties
<1> QED
  BY <1>1, LastEventIsOne

LEMMA AgedChannel ==
    ASSUME NEW queue \in Seq(Seq(Event))
    PROVE  LET after == [i \in DOMAIN queue |-> AgedEvents(queue[i])]
           IN  /\ after \in Seq(Seq(Event))
               /\ Len(after) = Len(queue)
               /\ DOMAIN after = DOMAIN queue
               /\ QueuedIds(after) = QueuedIds(queue)
<1> DEFINE after == [i \in DOMAIN queue |-> AgedEvents(queue[i])]
<1>1. /\ Len(queue) \in Nat /\ DOMAIN queue = 1 .. Len(queue)
      /\ \A i \in DOMAIN queue : queue[i] \in Seq(Event)
  BY LenProperties
<1>2. after \in [1 .. Len(queue) -> Seq(Event)]
  BY <1>1, AgedBatch
<1>3. after \in Seq(Seq(Event))
  BY <1>1, <1>2, SeqDef
<1>4. DOMAIN after = DOMAIN queue /\ Len(after) = Len(queue)
  <2>1. DOMAIN after = DOMAIN queue
    OBVIOUS
  <2>2. Len(after) \in Nat /\ DOMAIN after = 1 .. Len(after)
    BY <1>3, LenProperties
  <2> QED
    BY <1>1, <2>1, <2>2
<1>5. \A i \in DOMAIN queue : Ids(after[i]) = Ids(queue[i])
  BY <1>1, AgedFilters
<1>6. QueuedIds(after) = QueuedIds(queue)
  BY <1>4, <1>5 DEF QueuedIds
<1> QED
  BY <1>3, <1>4, <1>6

\* A part of the queue.
LEMMA Prefix ==
    ASSUME NEW queue \in Seq(Seq(Event)), NEW n \in 0 .. Len(queue)
    PROVE  LET front == SubSeq(queue, 1, n)
               back == SubSeq(queue, n + 1, Len(queue))
           IN  /\ front \in Seq(Seq(Event)) /\ Len(front) = n
               /\ \A i \in 1 .. n : front[i] = queue[i]
               /\ back \in Seq(Seq(Event)) /\ Len(back) = Len(queue) - n
               /\ \A i \in 1 .. Len(queue) - n : back[i] = queue[n + i]
               /\ QueuedIds(front) \cup QueuedIds(back) = QueuedIds(queue)
<1> DEFINE front == SubSeq(queue, 1, n)
           back == SubSeq(queue, n + 1, Len(queue))
<1>1. /\ Len(queue) \in Nat /\ DOMAIN queue = 1 .. Len(queue)
      /\ \A i \in DOMAIN queue : queue[i] \in Seq(Event)
  BY LenProperties
<1>2. front \in Seq(Seq(Event)) /\ Len(front) = n /\ \A i \in 1 .. n : front[i] = queue[i]
  BY <1>1, SubSeqProperties
<1>3. /\ back \in Seq(Seq(Event)) /\ Len(back) = Len(queue) - n
      /\ \A i \in 1 .. Len(queue) - n : back[i] = queue[n + i]
  <2>1. /\ back \in Seq(Seq(Event))
        /\ Len(back) = IF n + 1 <= Len(queue) THEN Len(queue) - (n + 1) + 1 ELSE 0
        /\ \A i \in 1 .. Len(queue) - (n + 1) + 1 : back[i] = queue[n + 1 + i - 1]
    BY <1>1, SubSeqProperties
  <2>2. /\ Len(queue) - (n + 1) + 1 = Len(queue) - n
        /\ n + 1 <= Len(queue) \/ Len(queue) - n = 0
    <3>1. \A l \in Nat : \A m \in 0 .. l :
             /\ l - (m + 1) + 1 = l - m
             /\ m + 1 <= l \/ l - m = 0
      OBVIOUS
    <3>2. Len(queue) \in Nat
      BY <1>1
    <3> QED
      BY <3>1, <3>2
  <2>3. ASSUME NEW i \in 1 .. Len(queue) - n
        PROVE  back[i] = queue[n + i]
    <3> HIDE DEF back
    <3>1. n + 1 + i - 1 = n + i
      BY <1>1
    <3>2. back[i] = queue[n + 1 + i - 1]
      BY <2>1, <2>2
    <3> QED
      BY <3>1, <3>2
  <2> HIDE DEF back
  <2>4. Len(back) = Len(queue) - n
    BY <1>1, <2>1, <2>2
  <2> QED
    BY <2>1, <2>3, <2>4
<1>4. DOMAIN front = 1 .. n /\ DOMAIN back = 1 .. Len(queue) - n
  BY <1>2, <1>3, LenProperties
<1>5. ASSUME NEW id
      PROVE  id \in QueuedIds(queue) <=> id \in QueuedIds(front) \cup QueuedIds(back)
  <2> HIDE DEF front, back
  <2>1. ASSUME NEW i \in DOMAIN queue, id \in Ids(queue[i])
        PROVE  id \in QueuedIds(front) \cup QueuedIds(back)
    <3>1. CASE i <= n
      BY <1>1, <1>2, <1>4, <2>1, <3>1 DEF QueuedIds
    <3>2. CASE i > n
      <4>1. i - n \in DOMAIN back /\ back[i - n] = queue[i]
        BY <1>1, <1>3, <1>4, <3>2
      <4> QED
        BY <2>1, <4>1 DEF QueuedIds
    <3> QED
      BY <1>1, <3>1, <3>2
  <2>2. ASSUME NEW i \in DOMAIN front, id \in Ids(front[i])
        PROVE  id \in QueuedIds(queue)
    BY <1>1, <1>2, <1>4, <2>2 DEF QueuedIds
  <2>3. ASSUME NEW i \in DOMAIN back, id \in Ids(back[i])
        PROVE  id \in QueuedIds(queue)
    <3>1. i \in 1 .. Len(queue) - n
      BY <1>4
    <3>2. n + i \in DOMAIN queue
      BY <1>1, <3>1
    <3>3. back[i] = queue[n + i]
      BY <1>3, <3>1
    <3> QED
      BY <2>3, <3>2, <3>3 DEF QueuedIds
  <2> QED
    BY <2>1, <2>2, <2>3 DEF QueuedIds
<1>6. QueuedIds(front) \cup QueuedIds(back) = QueuedIds(queue)
  BY <1>5
<1> QED
  BY <1>2, <1>3, <1>6

LEMMA HeadAndTail ==
    ASSUME NEW queue \in Seq(Seq(Event)), queue # <<>>
    PROVE  /\ Head(queue) = queue[1] /\ Head(queue) \in Seq(Event)
           /\ Tail(queue) \in Seq(Seq(Event))
           /\ Len(queue) \in Nat \ {0} /\ Len(Tail(queue)) = Len(queue) - 1
           /\ \A i \in 1 .. Len(queue) - 1 : Tail(queue)[i] = queue[i + 1]
           /\ QueuedIds(queue) = Ids(Head(queue)) \cup QueuedIds(Tail(queue))
<1>1. /\ Len(queue) \in Nat \ {0} /\ DOMAIN queue = 1 .. Len(queue)
      /\ \A i \in DOMAIN queue : queue[i] \in Seq(Event)
  BY LenProperties, EmptySeq
<1>2. /\ Head(queue) \in Seq(Event) /\ Tail(queue) \in Seq(Seq(Event))
      /\ Len(Tail(queue)) = Len(queue) - 1
      /\ \A i \in 1 .. Len(Tail(queue)) : Tail(queue)[i] = queue[i + 1]
  BY HeadTailProperties
<1>3. Head(queue) = queue[1]
  OBVIOUS
<1>4. DOMAIN Tail(queue) = 1 .. Len(queue) - 1
  BY <1>2, LenProperties
<1>5. ASSUME NEW id
      PROVE  id \in QueuedIds(queue) <=>
               id \in Ids(Head(queue)) \cup QueuedIds(Tail(queue))
  <2>1. ASSUME NEW i \in DOMAIN queue, id \in Ids(queue[i])
        PROVE  id \in Ids(Head(queue)) \cup QueuedIds(Tail(queue))
    <3>1. CASE i = 1
      BY <1>3, <2>1, <3>1
    <3>2. CASE i # 1
      <4>1. i - 1 \in DOMAIN Tail(queue) /\ (i - 1) + 1 = i
        BY <1>1, <1>4, <3>2
      <4>2. Tail(queue)[i - 1] = queue[i]
        BY <1>2, <1>4, <4>1
      <4> QED
        BY <2>1, <4>1, <4>2 DEF QueuedIds
    <3> QED
      BY <3>1, <3>2
  <2>2. id \in Ids(Head(queue)) => id \in QueuedIds(queue)
    <3>1. 1 \in DOMAIN queue
      BY <1>1
    <3> QED
      BY <1>3, <3>1 DEF QueuedIds
  <2>3. ASSUME NEW i \in DOMAIN Tail(queue), id \in Ids(Tail(queue)[i])
        PROVE  id \in QueuedIds(queue)
    <3>1. i + 1 \in DOMAIN queue
      BY <1>1, <1>4
    <3>2. Tail(queue)[i] = queue[i + 1]
      BY <1>2, <1>4
    <3> QED
      BY <2>3, <3>1, <3>2 DEF QueuedIds
  <2> QED
    BY <2>1, <2>2, <2>3 DEF QueuedIds
<1>6. QueuedIds(queue) = Ids(Head(queue)) \cup QueuedIds(Tail(queue))
  BY <1>5
<1> QED
  BY <1>1, <1>2, <1>3, <1>6

LEMMA Appended ==
    ASSUME NEW queue \in Seq(Seq(Event)), NEW b \in Seq(Event)
    PROVE  LET after == Append(queue, b)
           IN  /\ after \in Seq(Seq(Event))
               /\ Len(queue) \in Nat /\ Len(after) = Len(queue) + 1
               /\ after[Len(queue) + 1] = b
               /\ \A i \in 1 .. Len(queue) : after[i] = queue[i]
               /\ QueuedIds(after) = QueuedIds(queue) \cup Ids(b)
<1> DEFINE after == Append(queue, b)
<1>1. Len(queue) \in Nat /\ DOMAIN queue = 1 .. Len(queue)
  BY LenProperties
<1>2. /\ after \in Seq(Seq(Event)) /\ Len(after) = Len(queue) + 1
      /\ after[Len(queue) + 1] = b
      /\ \A i \in 1 .. Len(queue) : after[i] = queue[i]
  BY AppendProperties
<1>3. DOMAIN after = 1 .. Len(queue) + 1
  BY <1>2, LenProperties
<1>4. ASSUME NEW id
      PROVE  id \in QueuedIds(after) <=> id \in QueuedIds(queue) \cup Ids(b)
  <2> HIDE DEF after
  <2>1. ASSUME NEW i \in DOMAIN after, id \in Ids(after[i])
        PROVE  id \in QueuedIds(queue) \cup Ids(b)
    <3>1. i \in DOMAIN queue \/ i = Len(queue) + 1
      BY <1>1, <1>3
    <3> QED
      BY <1>1, <1>2, <2>1, <3>1 DEF QueuedIds
  <2>2. ASSUME NEW i \in DOMAIN queue, id \in Ids(queue[i])
        PROVE  id \in QueuedIds(after)
    <3>1. i \in DOMAIN after /\ after[i] = queue[i]
      BY <1>1, <1>2, <1>3
    <3> QED
      BY <2>2, <3>1 DEF QueuedIds
  <2>3. id \in Ids(b) => id \in QueuedIds(after)
    <3>1. Len(queue) + 1 \in DOMAIN after
      BY <1>1, <1>3
    <3> QED
      BY <1>2, <3>1 DEF QueuedIds
  <2> QED
    BY <2>1, <2>2, <2>3 DEF QueuedIds
<1>5. QueuedIds(after) = QueuedIds(queue) \cup Ids(b)
  BY <1>4
<1> QED
  BY <1>1, <1>2, <1>5

LEMMA TypeStep == TypeOK /\ [Next]_vars => TypeOK'
<1> SUFFICES ASSUME TypeOK, [Next]_vars PROVE TypeOK'
  OBVIOUS
<1> USE DEF siteVars, linkVars, tableVars
<1>0. /\ batch \in Seq(Event) /\ channel \in Seq(Seq(Event))
      /\ trade_listings \in Tables
      /\ <<>> \in Seq(Event) /\ <<>> \in Seq(Seq(Event)) /\ Len(<<>>) = 0
      /\ MaxQueue \in Nat
  BY EmptySeq, ReplicaAssumption DEF TypeOK
<1>1. ASSUME NEW b \in Messages, Publish(b)
      PROVE  TypeOK'
  <2>1. b \in Seq(Event)
    BY ReplicaAssumption
  <2>2. Ids(b) \subseteq ListingIds
    BY <2>1, IdsType
  <2>3. channel' \in Seq(Seq(Event)) /\ Len(channel') <= MaxQueue
    <3>1. CASE UNCHANGED channel
      BY <3>1 DEF TypeOK
    <3>2. CASE Len(channel) < MaxQueue /\ channel' = Append(channel, b)
      <4>1. /\ Append(channel, b) \in Seq(Seq(Event)) /\ Len(channel) \in Nat
            /\ Len(Append(channel, b)) = Len(channel) + 1
        BY <1>0, <2>1, Appended
      <4> QED
        BY <1>0, <3>2, <4>1
    <3> QED
      BY <1>1, <3>1, <3>2 DEF Publish
  <2>4. lost' \subseteq ListingIds
    BY <1>1, <2>2 DEF Publish, TypeOK
  <2> QED
    BY <1>1, <2>1, <2>3, <2>4, PublishedType DEF Publish, TypeOK
<1>2. CASE Tick
  <2>1. site' \in [ListingIds -> {e \in Event : e.event = "listing-update"}
                                 \cup {NoListing}]
    <3> SUFFICES ASSUME NEW id \in ListingIds, site[id] # NoListing
                 PROVE  [site[id] EXCEPT !.price = Aged(@)]
                          \in {e \in Event : e.event = "listing-update"}
      BY <1>2 DEF Tick, AgedRows
    <3>1. site[id] \in Event /\ site[id].event = "listing-update"
      BY DEF TypeOK
    <3> QED
      BY <3>1, AgedEvent DEF AgedOne
  <2>2. channel' \in Seq(Seq(Event)) /\ Len(channel') <= MaxQueue
    BY <1>0, <1>2, AgedChannel DEF Tick, TypeOK
  <2>3. /\ batch' \in Seq(Event)
        /\ Updates(batch') = Updates(batch) /\ Deletes(batch') = Deletes(batch)
    BY <1>0, <1>2, AgedBatch, AgedFilters DEF Tick
  <2>4. trade_listings' \in Tables
    BY <1>0, <1>2, AgedTable DEF Tick
  <2> QED
    BY <1>2, <2>1, <2>2, <2>3, <2>4 DEF Tick, TypeOK
<1>3. CASE Connected \/ ConnectFails \/ Disconnect
  <2>1. CASE Connected
    <3>1. missed' \subseteq ListingIds /\ lost' \subseteq ListingIds
      BY <2>1 DEF Connected, TypeOK
    <3>2. backoff' \in InitialBackoff .. MaxBackoff
      BY <2>1 DEF Connected, InitialBackoff, MaxBackoff
    <3> QED
      BY <2>1, <3>1, <3>2 DEF Connected, TypeOK
  <2>2. CASE ConnectFails \/ Disconnect
    BY <2>2 DEF ConnectFails, Disconnect, TypeOK
  <2> QED
    BY <1>3, <2>1, <2>2
<1>4. CASE Wake
  BY <1>4 DEF Wake, TypeOK, InitialBackoff, MaxBackoff
<1>5. CASE Break
  <2>1. PICK n \in 0 .. Len(channel) :
          /\ channel' = SubSeq(channel, 1, n)
          /\ lost' = QueuedIds(SubSeq(channel, n + 1, Len(channel)))
    BY <1>5 DEF Break
  <2>2. channel' \in Seq(Seq(Event)) /\ Len(channel') = n
    BY <1>0, <2>1, Prefix
  <2>3. SubSeq(channel, n + 1, Len(channel)) \in Seq(Seq(Event))
    BY <1>0, Prefix
  <2>4. lost' \subseteq ListingIds
    BY <2>1, <2>3, QueuedType
  <2>5. n <= MaxQueue
    <3>1. Len(channel) \in Nat /\ Len(channel) <= MaxQueue
      BY <1>0, LenProperties DEF TypeOK
    <3> QED
      BY <1>0, <3>1
  <2> QED
    BY <1>5, <2>2, <2>4, <2>5 DEF Break, TypeOK
<1>6. CASE Read
  <2>1. /\ Head(channel) \in Seq(Event) /\ Tail(channel) \in Seq(Seq(Event))
        /\ Len(channel) \in Nat \ {0} /\ Len(Tail(channel)) = Len(channel) - 1
    BY <1>0, <1>6, HeadAndTail DEF Read
  <2>2. Len(Tail(channel)) <= MaxQueue
    BY <1>0, <2>1 DEF TypeOK
  <2>3. Ids(Head(channel)) \subseteq ListingIds
    BY <2>1, IdsType
  <2>4. /\ batch' \in Seq(Event)
        /\ stage' \in {"reading", "upserting", "deleting"}
        /\ stage' = "upserting" => Updates(batch') # {}
        /\ stage' = "deleting" => Deletes(batch') # {}
    BY <1>0, <1>6, <2>1 DEF Read, FirstStage, TypeOK
  <2>5. backoff' \in InitialBackoff .. MaxBackoff
    BY <1>6 DEF Read, InitialBackoff, MaxBackoff
  <2> QED
    BY <1>6, <2>1, <2>2, <2>3, <2>4, <2>5 DEF Read, TypeOK
<1>7. CASE Upsert
  <2>1. trade_listings' \in Tables
    BY <1>0, <1>7, UpsertType, PositionsType DEF Upsert
  <2> QED
    BY <1>0, <1>7, <2>1 DEF Upsert, TypeOK
<1>8. CASE Delete
  <2>1. trade_listings' \in Tables
    BY <1>0, <1>8, DeleteType DEF Delete
  <2> QED
    BY <1>0, <1>8, <2>1 DEF Delete, TypeOK
<1>9. CASE Skip
  BY <1>0, <1>9 DEF Skip, TypeOK
<1>10. CASE Restart
  <2>1. QueuedIds(channel) \subseteq ListingIds
    BY <1>0, QueuedType
  <2>2. InitialBackoff \in InitialBackoff .. MaxBackoff /\ 0 <= MaxQueue
    BY <1>0 DEF InitialBackoff, MaxBackoff
  <2> QED
    BY <1>0, <1>10, <2>1, <2>2 DEF Restart, TypeOK
<1>11. CASE DeleteExpired
  BY <1>0, <1>11, DeleteType DEF DeleteExpired, TypeOK
<1>12. CASE UNCHANGED vars
  BY <1>12 DEF vars, TypeOK
<1> QED
  BY <1>1, <1>2, <1>3, <1>4, <1>5, <1>6, <1>7, <1>8, <1>9, <1>10, <1>11,
     <1>12 DEF Next, Process

(***************************************************************************)
(* Every variable keeps its type, whatever the site sends and whatever     *)
(* fails: the backoff stays between its initial value and its limit, and   *)
(* the task never sends a statement without rows.                          *)
(***************************************************************************)
THEOREM TypeCorrect == Spec => []TypeOK
<1> QED
  BY TypeInit, TypeStep, PTL DEF Spec

-----------------------------------------------------------------------------
(***************************************************************************)
(* The inductive invariant for HeardIsApplied.  It needs two things of the *)
(* messages: that none is about a listing twice (of two updates the code   *)
(* applies the first, and it deletes after it upserts: see                 *)
(* MCReplica_recreated.cfg), and that a listing keeps its user             *)
(* (an upsert does not change the steamid of a row).  owner gives the user *)
(* of every listing.                                                       *)
(***************************************************************************)
OneEach(b) == \A i, j \in DOMAIN b : b[i].id = b[j].id => i = j
OwnedBy(b, owner) == \A i \in DOMAIN b : b[i].steamid = owner[b[i].id]

Sober(b, owner) == OneEach(b) /\ OwnedBy(b, owner)

\* What an event makes of its listing on the site.
Effect(e) == IF e.event = "listing-update" THEN e ELSE NoListing

AllSober(owner) ==
    /\ Sober(batch, owner)
    /\ \A k \in DOMAIN channel : Sober(channel[k], owner)

RowsOwned(owner) ==
    \A id \in ListingIds :
        trade_listings[id] # NoListing => trade_listings[id].steamid = owner[id]

\* Only between two connections are there events that nobody will hear, and
\* while there is no connection nothing is in hand.
LinkStages ==
    /\ link = "open" => lost = {}
    /\ link \in {"waiting", "connecting"} => channel = <<>> /\ stage = "reading"

\* The last event about a listing that is under way, if none was lost since,
\* is what the site has: in the queue and, with nothing queued, in hand.
QueueIsCurrent ==
    \A k \in DOMAIN channel : \A i \in DOMAIN channel[k] :
        /\ channel[k][i].id \notin lost
        /\ \A m \in DOMAIN channel : m > k => channel[k][i].id \notin Ids(channel[m])
        => site[channel[k][i].id] = Effect(channel[k][i])

BatchIsCurrent ==
    stage # "reading" =>
        \A i \in DOMAIN batch :
            batch[i].id \notin lost \cup QueuedIds(channel) =>
                site[batch[i].id] = Effect(batch[i])

HInv(owner) ==
    /\ AllSober(owner)
    /\ RowsOwned(owner)
    /\ LinkStages
    /\ QueueIsCurrent
    /\ BatchIsCurrent
    /\ HeardIsApplied

-----------------------------------------------------------------------------
(* What the actions do, as far as the invariant is concerned.              *)

\* After a message the site has what the message says.
LEMMA PublishedSite ==
    ASSUME NEW b \in Seq(Event), OneEach(b), Publish(b)
    PROVE  /\ \A i \in DOMAIN b : site'[b[i].id] = Effect(b[i])
           /\ \A id \in ListingIds \ Ids(b) : site'[id] = site[id]
<1>1. ASSUME NEW i \in DOMAIN b
      PROVE  site'[b[i].id] = Effect(b[i])
  <2>1. b[i].id \in Ids(b) /\ b[i].id \in ListingIds
    BY IdsType DEF Ids, IdsOf
  <2>2. LastEvent(b, b[i].id) = b[i]
    BY <2>1, LastEventIsOne DEF OneEach
  <2> QED
    BY <2>1, <2>2 DEF Publish, Effect
<1> QED
  BY <1>1 DEF Publish

\* Events, rows of the site and rows of the table age alike.
LEMMA AgedEffect ==
    ASSUME NEW e \in Event, NEW id \in ListingIds, site[id] = Effect(e)
    PROVE  AgedRows(site)[id] = Effect(AgedOne(e))
<1>1. e # NoListing
  BY ReplicaAssumption
<1>2. AgedOne(e).event = e.event
  BY AgedEvent
<1>3. CASE e.event = "listing-update"
  <2>1. AgedRows(site)[id] = AgedOne(e)
    BY <1>1, <1>3 DEF AgedRows, Effect, AgedOne
  <2> QED
    BY <1>2, <1>3, <2>1 DEF Effect
<1>4. CASE e.event # "listing-update"
  <2>1. AgedRows(site)[id] = NoListing
    BY <1>4 DEF AgedRows, Effect
  <2> QED
    BY <1>2, <1>4, <2>1 DEF Effect
<1> QED
  BY <1>3, <1>4

\* An upsert makes the row of an event what the event says.
LEMMA UpsertApplies ==
    ASSUME NEW table \in Tables, NEW b \in Seq(Event), NEW owner, Sober(b, owner),
           NEW i \in Updates(b),
           table[b[i].id] # NoListing => table[b[i].id].steamid = owner[b[i].id]
    PROVE  UpsertListings(table, b, Updates(b))[b[i].id] = NewListing(b[i])
<1> DEFINE id == b[i].id
<1>1. i \in DOMAIN b /\ b[i] \in Event
  BY PositionsType, LenProperties
<1>2. id \in ListingIds
  BY <1>1 DEF Event
<1>3. (CHOOSE j \in Updates(b) : b[j].id = id) = i
  BY <1>1, PositionsType DEF Sober, OneEach
<1>4. CASE table[id] = NoListing
  BY <1>2, <1>3, <1>4 DEF UpsertListings
<1>5. CASE table[id] # NoListing
  <2>1. table[id] \in Listing /\ table[id].steamid = b[i].steamid
    BY <1>1, <1>2, <1>5 DEF Tables, Sober, OwnedBy
  <2>2. UpsertListings(table, b, Updates(b))[id]
          = [table[id] EXCEPT !.price = b[i].price]
    BY <1>2, <1>3, <1>5 DEF UpsertListings
  <2> QED
    BY <2>1, <2>2 DEF Listing, NewListing
<1> QED
  BY <1>4, <1>5

\* Rows no event is about stay as they are.
LEMMA UpsertLeaves ==
    ASSUME NEW table \in Tables, NEW b, NEW events,
           NEW id \in ListingIds, id \notin IdsOf(b, events)
    PROVE  UpsertListings(table, b, events)[id] = table[id]
BY DEF UpsertListings, IdsOf

-----------------------------------------------------------------------------
(* Each part of the invariant is preserved.                                *)

LEMMA Empty == DOMAIN <<>> = {} /\ QueuedIds(<<>>) = {}
BY DEF QueuedIds

LEMMA TypeFacts ==
    ASSUME TypeOK
    PROVE  /\ batch \in Seq(Event) /\ channel \in Seq(Seq(Event))
           /\ trade_listings \in Tables
           /\ DOMAIN channel = 1 .. Len(channel) /\ Len(channel) \in Nat
           /\ \A k \in DOMAIN channel :
                 /\ channel[k] \in Seq(Event)
                 /\ \A i \in DOMAIN channel[k] :
                       /\ channel[k][i] \in Event
                       /\ channel[k][i].id \in ListingIds
           /\ \A i \in DOMAIN batch :
                 batch[i] \in Event /\ batch[i].id \in ListingIds
<1>1. /\ batch \in Seq(Event) /\ channel \in Seq(Seq(Event))
      /\ trade_listings \in Tables
  BY DEF TypeOK
<1>2. /\ DOMAIN channel = 1 .. Len(channel) /\ Len(channel) \in Nat
      /\ \A k \in DOMAIN channel : channel[k] \in Seq(Event)
  BY <1>1, LenProperties
<1>3. \A b \in Seq(Event) : \A i \in DOMAIN b : b[i] \in Event
  BY LenProperties
<1>4. \A e \in Event : e.id \in ListingIds
  BY DEF Event
<1> QED
  BY <1>1, <1>2, <1>3, <1>4

LEMMA AgedSober ==
    ASSUME NEW b \in Seq(Event), NEW owner, Sober(b, owner)
    PROVE  Sober(AgedEvents(b), owner)
<1> DEFINE a == AgedEvents(b)
<1>1. /\ DOMAIN a = DOMAIN b
      /\ \A i \in DOMAIN b : a[i].id = b[i].id /\ a[i].steamid = b[i].steamid
  BY AgedBatch
<1> HIDE DEF a
<1>2. OneEach(a)
  BY <1>1 DEF Sober, OneEach
<1>3. OwnedBy(a, owner)
  BY <1>1 DEF Sober, OwnedBy
<1> QED
  BY <1>2, <1>3 DEF Sober, a

LEMMA SoberStep ==
    ASSUME NEW owner, \A b \in Messages : Sober(b, owner),
           TypeOK, AllSober(owner), [Next]_vars
    PROVE  AllSober(owner)'
<1> USE DEF siteVars, linkVars, tableVars
<1>0. Sober(<<>>, owner)
  BY Empty DEF Sober, OneEach, OwnedBy
<1>1. ASSUME Sober(batch', owner),
             \A k \in DOMAIN channel' : Sober(channel'[k], owner)
      PROVE  AllSober(owner)'
  BY <1>1 DEF AllSober, Sober, OneEach, OwnedBy
<1>2. Sober(batch, owner) /\ \A k \in DOMAIN channel : Sober(channel[k], owner)
  BY DEF AllSober
<1>3. CASE UNCHANGED channel /\ batch' \in {batch, <<>>}
  BY <1>0, <1>1, <1>2, <1>3
<1>4. ASSUME NEW b \in Messages, Publish(b)
      PROVE  AllSober(owner)'
  <2>1. b \in Seq(Event)
    BY ReplicaAssumption
  <2>2. CASE channel' = Append(channel, b)
    <3>1. DOMAIN channel' = 1 .. Len(channel) + 1
      BY <2>1, <2>2, TypeFacts, Appended, LenProperties
    <3>2. \A k \in DOMAIN channel' : Sober(channel'[k], owner)
      <4> TAKE k \in DOMAIN channel'
      <4>1. CASE k = Len(channel) + 1
        BY <2>1, <2>2, <4>1, TypeFacts, Appended
      <4>2. CASE k # Len(channel) + 1
        <5>1. k \in 1 .. Len(channel)
          BY <3>1, <4>2, TypeFacts
        <5>2. channel'[k] = channel[k]
          BY <2>1, <2>2, <5>1, TypeFacts, Appended
        <5> QED
          BY <1>2, <5>1, <5>2, TypeFacts
      <4> QED
        BY <4>1, <4>2
    <3> QED
      BY <1>1, <1>2, <1>4, <3>2 DEF Publish
  <2> QED
    BY <1>3, <1>4, <2>2 DEF Publish
<1>5. CASE Tick
  <2>1. \A k \in DOMAIN channel' : k \in DOMAIN channel /\ channel'[k] = AgedEvents(channel[k])
    BY <1>5 DEF Tick
  <2> QED
    BY <1>1, <1>2, <1>5, <2>1, AgedSober, TypeFacts DEF Tick
<1>6. CASE Break
  <2>1. PICK n \in 0 .. Len(channel) : channel' = SubSeq(channel, 1, n)
    BY <1>6 DEF Break
  <2>2. DOMAIN channel' = 1 .. n /\ \A k \in 1 .. n : channel'[k] = channel[k]
    BY <2>1, TypeFacts, Prefix, LenProperties
  <2>3. \A k \in 1 .. n : k \in DOMAIN channel
    BY TypeFacts
  <2> QED
    BY <1>1, <1>2, <1>6, <2>2, <2>3 DEF Break
<1>7. CASE Read
  <2>1. /\ channel # <<>> /\ channel' = Tail(channel)
        /\ batch' \in {batch, Head(channel)}
    BY <1>7 DEF Read
  <2>2. DOMAIN channel' = 1 .. Len(channel) - 1 /\ Len(channel) \in Nat \ {0}
    BY <2>1, TypeFacts, HeadAndTail, LenProperties
  <2>3. Sober(Head(channel), owner)
    <3>1. 1 \in DOMAIN channel
      BY <2>2, TypeFacts
    <3> QED
      BY <1>2, <2>1, <3>1, TypeFacts, HeadAndTail
  <2>4. ASSUME NEW k \in DOMAIN channel'
        PROVE  Sober(channel'[k], owner)
    <3>1. k + 1 \in DOMAIN channel
      BY <2>2, TypeFacts
    <3>2. channel'[k] = channel[k + 1]
      BY <2>1, <2>2, TypeFacts, HeadAndTail
    <3> QED
      BY <1>2, <3>1, <3>2
  <2> QED
    BY <1>1, <1>2, <2>1, <2>3, <2>4
<1>8. CASE Restart
  BY <1>0, <1>1, <1>8, Empty DEF Restart
<1> QED
  BY <1>3, <1>4, <1>5, <1>6, <1>7, <1>8 DEF Next, Process, vars, Connected,
     ConnectFails, Wake, Disconnect, Upsert, Delete, Skip, DeleteExpired

LEMMA RowsOwnedStep ==
    ASSUME NEW owner, TypeOK, AllSober(owner), RowsOwned(owner), [Next]_vars
    PROVE  RowsOwned(owner)'
<1> USE DEF siteVars, linkVars, tableVars
<1>1. CASE UNCHANGED trade_listings
  BY <1>1 DEF RowsOwned
<1>2. ASSUME NEW ids, trade_listings' = DeleteListings(trade_listings, ids)
      PROVE  RowsOwned(owner)'
  BY <1>2 DEF DeleteListings, RowsOwned
<1>3. CASE Tick
  <2> SUFFICES ASSUME NEW id \in ListingIds, trade_listings'[id] # NoListing
               PROVE  trade_listings'[id].steamid = owner[id]
    BY DEF RowsOwned
  <2>1. /\ trade_listings[id] # NoListing
        /\ trade_listings'[id] = [trade_listings[id] EXCEPT !.price = Aged(@)]
    BY <1>3 DEF Tick, AgedRows
  <2>2. trade_listings[id] \in Listing
    BY <2>1 DEF TypeOK, Tables
  <2>3. trade_listings'[id].steamid = trade_listings[id].steamid
    BY <2>1, <2>2 DEF Listing
  <2> QED
    BY <2>1, <2>3 DEF RowsOwned
<1>4. CASE Upsert
  <2> SUFFICES ASSUME NEW id \in ListingIds, trade_listings'[id] # NoListing
               PROVE  trade_listings'[id].steamid = owner[id]
    BY DEF RowsOwned
  <2>1. trade_listings' = UpsertListings(trade_listings, batch, Updates(batch))
    BY <1>4 DEF Upsert
  <2>2. ASSUME NEW i \in Updates(batch), batch[i].id = id
        PROVE  trade_listings'[id].steamid = owner[id]
    <3>1. trade_listings'[id] = NewListing(batch[i])
      BY <2>1, <2>2, UpsertApplies, TypeFacts DEF AllSober, RowsOwned
    <3>2. batch[i].steamid = owner[id]
      BY <2>2, PositionsType DEF AllSober, Sober, OwnedBy
    <3> QED
      BY <3>1, <3>2 DEF NewListing
  <2>3. CASE id \notin IdsOf(batch, Updates(batch))
    BY <2>1, <2>3, UpsertLeaves, TypeFacts DEF RowsOwned
  <2> QED
    BY <2>2, <2>3 DEF IdsOf
<1> QED
  BY <1>1, <1>2, <1>3, <1>4 DEF Next, Process, vars, Publish, Connected,
     ConnectFails, Wake, Break, Disconnect, Read, Delete, Skip, Restart,
     DeleteExpired

LEMMA LinkStagesStep ==
    ASSUME TypeOK, LinkStages, [Next]_vars
    PROVE  LinkStages'
<1> USE DEF siteVars, linkVars, tableVars
<1>1. CASE Tick
  <2>1. channel = <<>> => channel' = <<>>
    <3> SUFFICES ASSUME channel = <<>>
                 PROVE  channel' = <<>>
      OBVIOUS
    <3>1. channel' \in Seq(Seq(Event)) /\ Len(channel') = 0
      BY <1>1, TypeFacts, AgedChannel, EmptySeq DEF Tick
    <3> QED
      BY <3>1, EmptySeq
  <2> QED
    BY <1>1, <2>1 DEF Tick, LinkStages
<1>2. ASSUME NEW b \in Messages, Publish(b)
      PROVE  LinkStages'
  BY <1>2 DEF Publish, LinkStages
<1>3. CASE Read
  BY <1>3 DEF Read, LinkStages
<1>4. CASE Connected \/ ConnectFails \/ Wake \/ Break \/ Disconnect
  BY <1>4 DEF Connected, ConnectFails, Wake, Break, Disconnect, LinkStages
<1>5. CASE Upsert \/ Delete \/ Skip \/ Restart
  BY <1>5 DEF Upsert, Delete, Skip, Restart, LinkStages
<1>6. CASE DeleteExpired \/ UNCHANGED vars
  BY <1>6 DEF DeleteExpired, vars, LinkStages
<1> QED
  BY <1>1, <1>2, <1>3, <1>4, <1>5, <1>6 DEF Next, Process

LEMMA QueueStep ==
    ASSUME NEW owner, \A b \in Messages : Sober(b, owner),
           TypeOK, LinkStages, QueueIsCurrent, [Next]_vars
    PROVE  QueueIsCurrent'
<1> USE DEF siteVars, linkVars, tableVars
<1>0. /\ DOMAIN channel = 1 .. Len(channel) /\ Len(channel) \in Nat
      /\ \A k \in DOMAIN channel :
            /\ channel[k] \in Seq(Event)
            /\ \A i \in DOMAIN channel[k] : channel[k][i].id \in ListingIds
  BY TypeFacts
\* It is enough to look at the last event about a listing in the new queue.
<1>1. ASSUME \A k \in DOMAIN channel' : \A i \in DOMAIN channel'[k] :
                /\ channel'[k][i].id \notin lost'
                /\ \A m \in DOMAIN channel' :
                      m > k => channel'[k][i].id \notin Ids(channel'[m])
                => site'[channel'[k][i].id] = Effect(channel'[k][i])
      PROVE  QueueIsCurrent'
  BY <1>1 DEF QueueIsCurrent, Ids, IdsOf, Effect
<1>2. CASE UNCHANGED <<site, channel, lost>>
  BY <1>2 DEF QueueIsCurrent, Ids, IdsOf, Effect
<1>3. CASE channel' = <<>>
  BY <1>1, <1>3, Empty
<1>4. ASSUME NEW b \in Messages, Publish(b)
      PROVE  QueueIsCurrent'
  <2>1. b \in Seq(Event) /\ OneEach(b)
    BY ReplicaAssumption DEF Sober
  <2>2. CASE /\ channel' = Append(channel, b)
             /\ UNCHANGED lost
    <3>1. DOMAIN channel' = 1 .. Len(channel) + 1
      BY <2>1, <2>2, TypeFacts, Appended, LenProperties
    <3>2. /\ channel'[Len(channel) + 1] = b
          /\ \A k \in 1 .. Len(channel) : channel'[k] = channel[k]
      BY <2>1, <2>2, TypeFacts, Appended
    <3>3. SUFFICES ASSUME NEW k \in DOMAIN channel', NEW i \in DOMAIN channel'[k],
                          channel'[k][i].id \notin lost',
                          \A m \in DOMAIN channel' :
                             m > k => channel'[k][i].id \notin Ids(channel'[m])
                   PROVE  site'[channel'[k][i].id] = Effect(channel'[k][i])
      BY <1>1
    <3>4. CASE k = Len(channel) + 1
      BY <1>4, <2>1, <3>2, <3>4, PublishedSite
    <3>5. CASE k # Len(channel) + 1
      <4>1. k \in DOMAIN channel /\ channel'[k] = channel[k]
        BY <1>0, <3>1, <3>2, <3>5
      <4>2. Len(channel) + 1 \in DOMAIN channel' /\ Len(channel) + 1 > k
        BY <1>0, <3>1, <4>1
      <4>3. channel[k][i].id \notin Ids(b)
        BY <3>2, <3>3, <4>1, <4>2
      <4>4. channel[k][i].id \in ListingIds
        BY <1>0, <3>3, <4>1
      <4>5. site'[channel[k][i].id] = site[channel[k][i].id]
        BY <1>4, <2>1, <4>3, <4>4, PublishedSite
      <4>6. \A m \in DOMAIN channel : m > k => channel[k][i].id \notin Ids(channel[m])
        <5> SUFFICES ASSUME NEW m \in DOMAIN channel, m > k
                     PROVE  channel[k][i].id \notin Ids(channel[m])
          OBVIOUS
        <5>1. m \in DOMAIN channel' /\ channel'[m] = channel[m]
          BY <1>0, <3>1, <3>2
        <5> QED
          BY <3>3, <4>1, <5>1
      <4> QED
        BY <2>2, <3>3, <4>1, <4>5, <4>6 DEF QueueIsCurrent
    <3> QED
      BY <3>4, <3>5
  <2>3. CASE UNCHANGED channel /\ lost' = lost \cup Ids(b)
    <3>1. SUFFICES ASSUME NEW k \in DOMAIN channel, NEW i \in DOMAIN channel[k],
                          channel[k][i].id \notin lost \cup Ids(b),
                          \A m \in DOMAIN channel :
                             m > k => channel[k][i].id \notin Ids(channel[m])
                   PROVE  site'[channel[k][i].id] = Effect(channel[k][i])
      BY <1>1, <2>3
    <3>2. site'[channel[k][i].id] = site[channel[k][i].id]
      BY <1>0, <1>4, <2>1, <3>1, PublishedSite
    <3> QED
      BY <3>1, <3>2 DEF QueueIsCurrent
  <2> QED
    BY <1>4, <2>2, <2>3 DEF Publish
<1>5. CASE Tick
  <2>1. /\ DOMAIN channel' = DOMAIN channel
        /\ \A k \in DOMAIN channel : channel'[k] = AgedEvents(channel[k])
    BY <1>5 DEF Tick
  <2>2. SUFFICES ASSUME NEW k \in DOMAIN channel, NEW i \in DOMAIN channel'[k],
                        channel'[k][i].id \notin lost',
                        \A m \in DOMAIN channel :
                           m > k => channel'[k][i].id \notin Ids(channel'[m])
                 PROVE  site'[channel'[k][i].id] = Effect(channel'[k][i])
    BY <1>1, <2>1
  <2>3. /\ i \in DOMAIN channel[k] /\ channel'[k][i].id = channel[k][i].id
        /\ channel'[k][i] = AgedOne(channel[k][i])
    <3>1. channel[k] \in Seq(Event) /\ channel'[k] = AgedEvents(channel[k])
      BY <1>0, <2>1
    <3>2. i \in DOMAIN channel[k]
      BY <2>2, <3>1, AgedBatch
    <3> QED
      BY <3>1, <3>2, AgedBatch
  <2>4. \A m \in DOMAIN channel : m > k => channel[k][i].id \notin Ids(channel[m])
    BY <1>0, <2>1, <2>2, <2>3, AgedFilters
  <2>5. site[channel[k][i].id] = Effect(channel[k][i])
    BY <1>5, <2>2, <2>3, <2>4 DEF Tick, QueueIsCurrent
  <2>6. channel[k][i] \in Event /\ channel[k][i].id \in ListingIds
    BY <2>3, TypeFacts
  <2>7. AgedRows(site)[channel[k][i].id]
          = Effect(AgedOne(channel[k][i]))
    BY <2>5, <2>6, AgedEffect
  <2> QED
    BY <1>5, <2>3, <2>7 DEF Tick
<1>6. CASE Break
  <2>1. PICK n \in 0 .. Len(channel) :
          /\ channel' = SubSeq(channel, 1, n)
          /\ lost' = QueuedIds(SubSeq(channel, n + 1, Len(channel)))
    BY <1>6 DEF Break
  <2> DEFINE back == SubSeq(channel, n + 1, Len(channel))
  <2>2. DOMAIN channel' = 1 .. n /\ \A k \in 1 .. n : channel'[k] = channel[k]
    BY <2>1, TypeFacts, Prefix, LenProperties
  <2>3. /\ DOMAIN back = 1 .. Len(channel) - n
        /\ \A m \in 1 .. Len(channel) - n : back[m] = channel[n + m]
    BY TypeFacts, Prefix, LenProperties
  <2>4. SUFFICES ASSUME NEW k \in DOMAIN channel', NEW i \in DOMAIN channel'[k],
                        channel'[k][i].id \notin lost',
                        \A m \in DOMAIN channel' :
                           m > k => channel'[k][i].id \notin Ids(channel'[m])
                 PROVE  site'[channel'[k][i].id] = Effect(channel'[k][i])
    BY <1>1
  <2>5. k \in DOMAIN channel /\ channel'[k] = channel[k]
    BY <1>0, <2>2
  <2>6. ASSUME NEW m \in DOMAIN channel, m > k
        PROVE  channel[k][i].id \notin Ids(channel[m])
    <3>1. CASE m <= n
      <4>1. m \in DOMAIN channel'
        BY <1>0, <2>2, <3>1
      <4> QED
        BY <2>2, <2>4, <2>5, <2>6, <4>1
    <3>2. CASE m > n
      <4>1. m - n \in 1 .. Len(channel) - n /\ n + (m - n) = m
        BY <1>0, <3>2
      <4>2. back[m - n] = channel[m] /\ m - n \in DOMAIN back
        BY <2>3, <4>1
      <4>3. Ids(channel[m]) \subseteq QueuedIds(back)
        <5> HIDE DEF back
        <5> QED
          BY <4>2 DEF QueuedIds
      <4> QED
        BY <2>1, <2>4, <2>5, <4>3
    <3> QED
      BY <1>0, <3>1, <3>2
  <2>7. lost = {} /\ UNCHANGED site
    BY <1>6 DEF Break, LinkStages
  <2> QED
    BY <2>4, <2>5, <2>6, <2>7 DEF QueueIsCurrent
<1>7. CASE Read
  <2>1. channel # <<>> /\ channel' = Tail(channel) /\ UNCHANGED <<site, lost>>
    BY <1>7 DEF Read
  <2>2. /\ DOMAIN channel' = 1 .. Len(channel) - 1 /\ Len(channel) \in Nat \ {0}
        /\ \A k \in DOMAIN channel' : channel'[k] = channel[k + 1]
    BY <2>1, TypeFacts, HeadAndTail, LenProperties
  <2>3. SUFFICES ASSUME NEW k \in DOMAIN channel', NEW i \in DOMAIN channel'[k],
                        channel'[k][i].id \notin lost',
                        \A m \in DOMAIN channel' :
                           m > k => channel'[k][i].id \notin Ids(channel'[m])
                 PROVE  site'[channel'[k][i].id] = Effect(channel'[k][i])
    BY <1>1
  <2>4. k + 1 \in DOMAIN channel /\ channel'[k] = channel[k + 1]
    BY <1>0, <2>2
  <2>5. ASSUME NEW m \in DOMAIN channel, m > k + 1
        PROVE  channel[k + 1][i].id \notin Ids(channel[m])
    <3>1. m - 1 \in DOMAIN channel' /\ m - 1 > k /\ (m - 1) + 1 = m
      BY <1>0, <2>2, <2>5
    <3>2. channel'[m - 1] = channel[m]
      BY <2>2, <3>1
    <3> QED
      BY <2>3, <2>4, <3>1, <3>2
  <2> QED
    BY <2>1, <2>3, <2>4, <2>5 DEF QueueIsCurrent
<1>8. CASE Connected
  BY <1>3, <1>8 DEF Connected, LinkStages
<1> QED
  BY <1>2, <1>3, <1>4, <1>5, <1>6, <1>7, <1>8 DEF Next, Process, vars,
     ConnectFails, Wake, Disconnect, Upsert, Delete, Skip, Restart,
     DeleteExpired

\* A message is heard or lost.
LEMMA PublishedIds ==
    ASSUME TypeOK, NEW b \in Seq(Event), Publish(b)
    PROVE  lost' \cup QueuedIds(channel') = lost \cup QueuedIds(channel) \cup Ids(b)
<1>1. CASE channel' = Append(channel, b) /\ lost' = lost
  <2>1. QueuedIds(channel') = QueuedIds(channel) \cup Ids(b)
    BY <1>1, TypeFacts, Appended
  <2> QED
    BY <1>1, <2>1
<1>2. CASE channel' = channel /\ lost' = lost \cup Ids(b)
  BY <1>2
<1> QED
  BY <1>1, <1>2 DEF Publish

LEMMA BatchStep ==
    ASSUME NEW owner, \A b \in Messages : Sober(b, owner),
           TypeOK, LinkStages, QueueIsCurrent, BatchIsCurrent, [Next]_vars
    PROVE  BatchIsCurrent'
<1> USE DEF siteVars, linkVars, tableVars
<1>1. CASE stage' = "reading"
  BY <1>1 DEF BatchIsCurrent
<1>2. CASE UNCHANGED <<site, channel, lost, batch, stage>>
  BY <1>2 DEF BatchIsCurrent, QueuedIds, Ids, IdsOf, Effect
<1>3. CASE Upsert
  BY <1>1, <1>3 DEF Upsert, BatchIsCurrent, QueuedIds, Ids, IdsOf, Effect
<1>4. ASSUME stage' # "reading" =>
                \A i \in DOMAIN batch' :
                    batch'[i].id \notin lost' \cup QueuedIds(channel') =>
                        site'[batch'[i].id] = Effect(batch'[i])
      PROVE  BatchIsCurrent'
  BY <1>4 DEF BatchIsCurrent, QueuedIds, Ids, IdsOf, Effect
<1>5. ASSUME NEW b \in Messages, Publish(b)
      PROVE  BatchIsCurrent'
  <2>1. b \in Seq(Event) /\ OneEach(b)
    BY ReplicaAssumption DEF Sober
  <2>2. lost' \cup QueuedIds(channel') = lost \cup QueuedIds(channel) \cup Ids(b)
    BY <1>5, <2>1, PublishedIds
  <2>3. SUFFICES ASSUME stage # "reading", NEW i \in DOMAIN batch,
                        batch[i].id \notin lost \cup QueuedIds(channel) \cup Ids(b)
                 PROVE  site'[batch[i].id] = Effect(batch[i])
    BY <1>4, <1>5, <2>2 DEF Publish
  <2>4. site'[batch[i].id] = site[batch[i].id]
    BY <1>5, <2>1, <2>3, TypeFacts, PublishedSite
  <2> QED
    BY <2>3, <2>4 DEF BatchIsCurrent
<1>6. CASE Tick
  <2>1. QueuedIds(channel') = QueuedIds(channel)
    BY <1>6, TypeFacts, AgedChannel DEF Tick
  <2>2. /\ batch \in Seq(Event) /\ batch' = AgedEvents(batch)
        /\ UNCHANGED <<stage, lost>> /\ site' = AgedRows(site)
    BY <1>6, TypeFacts DEF Tick
  <2>3. /\ DOMAIN batch' = DOMAIN batch
        /\ \A i \in DOMAIN batch :
              batch'[i] = AgedOne(batch[i]) /\ batch'[i].id = batch[i].id
    BY <2>2, AgedBatch
  <2>4. SUFFICES ASSUME stage # "reading", NEW i \in DOMAIN batch,
                        batch[i].id \notin lost \cup QueuedIds(channel)
                 PROVE  site'[batch[i].id] = Effect(AgedOne(batch[i]))
    BY <1>4, <2>1, <2>2, <2>3
  <2>5. site[batch[i].id] = Effect(batch[i])
    BY <2>4 DEF BatchIsCurrent
  <2>6. batch[i] \in Event /\ batch[i].id \in ListingIds
    BY TypeFacts
  <2> QED
    BY <2>2, <2>5, <2>6, AgedEffect
<1>7. CASE Break
  <2>1. QueuedIds(channel') \cup lost' = QueuedIds(channel)
    BY <1>7, TypeFacts, Prefix DEF Break
  <2>2. lost = {} /\ UNCHANGED <<site, stage, batch>>
    BY <1>7 DEF Break, LinkStages
  <2> QED
    BY <1>4, <2>1, <2>2 DEF BatchIsCurrent
<1>8. CASE Read
  <2>1. CASE UNCHANGED stage
    BY <1>1, <1>8, <2>1 DEF Read
  <2>2. CASE batch' = Head(channel)
    <3>1. /\ channel # <<>> /\ channel' = Tail(channel)
          /\ UNCHANGED <<site, lost>>
      BY <1>8 DEF Read
    <3>2. /\ Head(channel) = channel[1] /\ 1 \in DOMAIN channel
          /\ DOMAIN Tail(channel) = 1 .. Len(channel) - 1
          /\ \A m \in 1 .. Len(channel) - 1 : Tail(channel)[m] = channel[m + 1]
      BY <3>1, TypeFacts, HeadAndTail, LenProperties
    <3>3. SUFFICES ASSUME NEW i \in DOMAIN channel[1],
                          channel[1][i].id \notin lost \cup QueuedIds(Tail(channel))
                   PROVE  site[channel[1][i].id] = Effect(channel[1][i])
      BY <1>4, <2>2, <3>1, <3>2
    <3>4. ASSUME NEW m \in DOMAIN channel, m > 1
          PROVE  channel[1][i].id \notin Ids(channel[m])
      <4>1. m - 1 \in DOMAIN Tail(channel) /\ (m - 1) + 1 = m
        BY <3>2, <3>4, TypeFacts
      <4>2. Tail(channel)[m - 1] = channel[m]
        BY <3>2, <4>1
      <4> QED
        BY <3>3, <4>1, <4>2 DEF QueuedIds
    <3> QED
      BY <3>2, <3>3, <3>4 DEF QueueIsCurrent
  <2> QED
    BY <1>8, <2>1, <2>2 DEF Read
<1>9. CASE Connected \/ Disconnect
  BY <1>1, <1>9 DEF Connected, Disconnect, LinkStages
<1>10. CASE Delete \/ Skip \/ Restart
  BY <1>1, <1>10 DEF Delete, Skip, Restart
<1> QED
  BY <1>2, <1>3, <1>5, <1>6, <1>7, <1>8, <1>9, <1>10 DEF Next, Process, vars,
     ConnectFails, Wake, DeleteExpired

\* A row that is in step with the site stays so as both grow older.
LEMMA AgedInSync ==
    ASSUME TypeOK, NEW id \in ListingIds, InSync(id), Tick
    PROVE  InSync(id)'
<1>1. /\ site' = AgedRows(site) /\ trade_listings' = AgedRows(trade_listings)
      /\ NoListing \notin Event /\ NoListing \notin Listing
  BY ReplicaAssumption, EtlAssumption DEF Tick, Listing
<1>2. CASE site[id] = NoListing
  <2>1. trade_listings[id] = NoListing
    BY <1>2 DEF InSync
  <2> QED
    BY <1>1, <1>2, <2>1 DEF AgedRows, InSync
<1>3. CASE site[id] # NoListing
  <2> DEFINE e == site[id]
  <2>1. e \in Event
    BY <1>3 DEF TypeOK
  <2>2. site'[id] = AgedOne(e)
    BY <1>1, <1>3 DEF AgedRows, AgedOne
  <2>3. /\ AgedOne(e) \in Event /\ AgedOne(e).steamid = e.steamid
        /\ AgedOne(e).price = Aged(e.price) /\ e.price \in Prices
    BY <2>1, AgedEvent DEF Event
  <2>4. site'[id] # NoListing
    BY <1>1, <2>2, <2>3
  <2>5. CASE trade_listings[id] = NewListing(e)
    <3>1. NewListing(e) # NoListing
      BY <1>1, <2>1 DEF NewListing, Listing, Event
    <3>2. trade_listings'[id] = [NewListing(e) EXCEPT !.price = Aged(@)]
      BY <1>1, <2>5, <3>1 DEF AgedRows
    <3>3. trade_listings'[id] = NewListing(AgedOne(e))
      BY <2>3, <3>2 DEF NewListing
    <3> QED
      BY <2>2, <2>4, <3>3 DEF InSync
  <2>6. CASE trade_listings[id] = NoListing /\ Expired(e)
    <3>1. trade_listings'[id] = NoListing
      BY <1>1, <2>6 DEF AgedRows
    <3>2. site'[id].price.age > Ttl
      BY <2>2, <2>3, <2>6, AgedPrice DEF Expired
    <3> QED
      BY <2>4, <3>1, <3>2 DEF InSync, Expired
  <2> QED
    BY <1>3, <2>5, <2>6 DEF InSync
<1> QED
  BY <1>2, <1>3

LEMMA HeardStep ==
    ASSUME NEW owner, \A b \in Messages : Sober(b, owner),
           TypeOK, HInv(owner), [Next]_vars
    PROVE  HeardIsApplied'
<1> USE DEF siteVars, linkVars, tableVars
<1>0. /\ AllSober(owner) /\ RowsOwned(owner) /\ LinkStages /\ BatchIsCurrent
      /\ HeardIsApplied
  BY DEF HInv
<1> DEFINE Pending == missed \cup lost \cup QueuedIds(channel)
           PendingAfter == missed' \cup lost' \cup QueuedIds(channel')
<1>1. ASSUME \A id \in ListingIds : id \notin PendingAfter => InSync(id)'
      PROVE  HeardIsApplied'
  BY <1>1 DEF HeardIsApplied, QueuedIds, Ids, IdsOf, InSync, NewListing, Expired
\* Nothing that was pending was dealt with, and the rows are still in step.
<1>2. ASSUME Pending \subseteq PendingAfter,
             \A id \in ListingIds \ PendingAfter : InSync(id) => InSync(id)'
      PROVE  HeardIsApplied'
  BY <1>0, <1>1, <1>2 DEF HeardIsApplied
<1>3. CASE UNCHANGED <<site, trade_listings>> /\ Pending \subseteq PendingAfter
  <2>1. \A id \in ListingIds : InSync(id) => InSync(id)'
    BY <1>3 DEF InSync, NewListing, Expired
  <2> QED
    BY <1>2, <1>3, <2>1
<1>4. CASE UNCHANGED <<site, trade_listings, channel, lost, missed>>
  BY <1>3, <1>4 DEF QueuedIds, Ids, IdsOf
<1>5. ASSUME NEW b \in Messages, Publish(b)
      PROVE  HeardIsApplied'
  <2>1. b \in Seq(Event) /\ OneEach(b)
    BY ReplicaAssumption DEF Sober
  <2>2. PendingAfter = Pending \cup Ids(b)
    BY <1>5, <2>1, PublishedIds DEF Publish
  <2>3. ASSUME NEW id \in ListingIds \ PendingAfter, InSync(id)
        PROVE  InSync(id)'
    <3>1. site'[id] = site[id] /\ UNCHANGED trade_listings
      BY <1>5, <2>1, <2>2, <2>3, PublishedSite DEF Publish
    <3> QED
      BY <2>3, <3>1 DEF InSync, NewListing, Expired
  <2> QED
    BY <1>2, <2>2, <2>3
<1>6. CASE Tick
  <2>1. PendingAfter = Pending
    BY <1>6, TypeFacts, AgedChannel DEF Tick
  <2> QED
    BY <1>2, <1>6, <2>1, AgedInSync
<1>7. CASE Connected
  BY <1>3, <1>7 DEF Connected
<1>8. CASE Break
  <2>1. QueuedIds(channel') \cup lost' = QueuedIds(channel)
    BY <1>8, TypeFacts, Prefix DEF Break
  <2>2. lost = {} /\ UNCHANGED <<site, trade_listings, missed>>
    BY <1>0, <1>8 DEF Break, LinkStages
  <2> QED
    BY <1>3, <2>1, <2>2
<1>9. CASE Read
  <2>1. QueuedIds(channel) = Ids(Head(channel)) \cup QueuedIds(channel')
    BY <1>9, TypeFacts, HeadAndTail DEF Read
  <2> QED
    BY <1>3, <1>9, <2>1 DEF Read
<1>10. CASE Restart
  <2>1. Pending \subseteq PendingAfter
    BY <1>10 DEF Restart
  <2> QED
    BY <1>3, <1>10, <2>1 DEF Restart
\* What a statement writes for an event is what the site has.
<1>11. ASSUME NEW events \in SUBSET DOMAIN batch,
              UNCHANGED <<site, channel, lost>>, stage # "reading",
              missed' = missed \ IdsOf(batch, events),
              \A i \in events, id \in ListingIds :
                 batch[i].id = id /\ site[id] = Effect(batch[i]) => InSync(id)',
              \A id \in ListingIds \ IdsOf(batch, events) :
                 trade_listings'[id] = trade_listings[id]
       PROVE  HeardIsApplied'
  <2> SUFFICES ASSUME NEW id \in ListingIds, id \notin PendingAfter
               PROVE  InSync(id)'
    BY <1>1
  <2>1. id \notin lost \cup QueuedIds(channel)
    BY <1>11
  <2>2. CASE id \in IdsOf(batch, events)
    <3>1. PICK i \in events : batch[i].id = id
      BY <2>2 DEF IdsOf
    <3>2. site[id] = Effect(batch[i])
      BY <1>0, <1>11, <2>1, <3>1 DEF BatchIsCurrent
    <3> QED
      BY <1>11, <3>1, <3>2
  <2>3. CASE id \notin IdsOf(batch, events)
    <3>1. InSync(id)
      BY <1>0, <1>11, <2>1, <2>3 DEF HeardIsApplied
    <3>2. trade_listings'[id] = trade_listings[id] /\ site'[id] = site[id]
      BY <1>11, <2>3
    <3> QED
      BY <3>1, <3>2 DEF InSync, NewListing, Expired
  <2> QED
    BY <2>2, <2>3
<1>12. CASE Upsert
  <2> DEFINE events == Updates(batch)
  <2>1. /\ trade_listings' = UpsertListings(trade_listings, batch, events)
        /\ UNCHANGED <<site, channel, lost>> /\ stage # "reading"
        /\ missed' = missed \ IdsOf(batch, events)
    BY <1>12 DEF Upsert
  <2>2. events \in SUBSET DOMAIN batch
    BY PositionsType
  <2>3. ASSUME NEW i \in events, NEW id \in ListingIds, batch[i].id = id,
               site[id] = Effect(batch[i])
        PROVE  InSync(id)'
    <3>1. batch[i].event = "listing-update"
      BY DEF Updates, FilterUnique, UpdatesIn
    <3>2. batch[i] # NoListing
      BY <2>2, TypeFacts, ReplicaAssumption
    <3>3. trade_listings'[id] = NewListing(batch[i])
      BY <1>0, <2>1, <2>2, <2>3, TypeFacts, UpsertApplies DEF AllSober, RowsOwned
    <3>4. site'[id] = batch[i]
      BY <2>1, <2>3, <3>1 DEF Effect
    <3> QED
      BY <3>2, <3>3, <3>4 DEF InSync
  <2>4. \A id \in ListingIds \ IdsOf(batch, events) :
           trade_listings'[id] = trade_listings[id]
    BY <2>1, TypeFacts, UpsertLeaves
  <2> QED
    BY <1>11, <2>1, <2>2, <2>3, <2>4
<1>13. CASE Delete
  <2> DEFINE events == Deletes(batch)
  <2>1. /\ trade_listings' = DeleteListings(trade_listings, IdsOf(batch, events))
        /\ UNCHANGED <<site, channel, lost>> /\ stage # "reading"
        /\ missed' = missed \ IdsOf(batch, events)
    BY <1>13 DEF Delete
  <2>2. events \in SUBSET DOMAIN batch
    BY PositionsType
  <2>3. ASSUME NEW i \in events, NEW id \in ListingIds, batch[i].id = id,
               site[id] = Effect(batch[i])
        PROVE  InSync(id)'
    <3>1. batch[i].event # "listing-update"
      BY DEF Deletes, DeletesIn
    <3>2. id \in IdsOf(batch, events)
      BY <2>3 DEF IdsOf
    <3>3. trade_listings'[id] = NoListing
      BY <2>1, <3>2 DEF DeleteListings
    <3>4. site'[id] = NoListing
      BY <2>1, <2>3, <3>1 DEF Effect
    <3> QED
      BY <3>3, <3>4 DEF InSync
  <2>4. \A id \in ListingIds \ IdsOf(batch, events) :
           trade_listings'[id] = trade_listings[id]
    BY <2>1 DEF DeleteListings
  <2> QED
    BY <1>11, <2>1, <2>2, <2>3, <2>4
<1>14. CASE DeleteExpired
  <2>1. PendingAfter = Pending
    BY <1>14 DEF DeleteExpired, QueuedIds, Ids, IdsOf
  <2>2. ASSUME NEW id \in ListingIds, InSync(id)
        PROVE  InSync(id)'
    <3>1. UNCHANGED site
      BY <1>14 DEF DeleteExpired
    <3>2. CASE Expired(trade_listings[id])
      <4>1. trade_listings'[id] = NoListing
        BY <1>14, <3>2 DEF DeleteExpired, DeleteListings
      <4>2. site[id] # NoListing /\ trade_listings[id] = NewListing(site[id])
        BY <2>2, <3>2 DEF InSync, Expired
      <4>3. Expired(site[id])
        BY <3>2, <4>2 DEF NewListing, Expired
      <4> QED
        BY <3>1, <4>1, <4>3 DEF InSync, Expired
    <3>3. CASE ~Expired(trade_listings[id])
      <4>1. trade_listings'[id] = trade_listings[id]
        BY <1>14, <3>3 DEF DeleteExpired, DeleteListings
      <4> QED
        BY <2>2, <3>1, <4>1 DEF InSync, NewListing, Expired
    <3> QED
      BY <3>2, <3>3
  <2> QED
    BY <1>2, <2>1, <2>2
<1> QED
  BY <1>4, <1>5, <1>6, <1>7, <1>8, <1>9, <1>10, <1>12, <1>13, <1>14 DEF Next,
     Process, vars, ConnectFails, Wake, Disconnect, Skip

LEMMA HeardInit ==
    ASSUME NEW owner
    PROVE  Init => HInv(owner)
<1> SUFFICES ASSUME Init PROVE HInv(owner)
  OBVIOUS
<1>1. AllSober(owner)
  BY Empty DEF Init, AllSober, Sober, OneEach, OwnedBy
<1>2. RowsOwned(owner)
  BY DEF Init, EmptyTable, RowsOwned
<1>3. LinkStages /\ QueueIsCurrent /\ BatchIsCurrent
  BY Empty DEF Init, LinkStages, QueueIsCurrent, BatchIsCurrent
<1>4. HeardIsApplied
  BY DEF Init, EmptyTable, HeardIsApplied, InSync
<1> QED
  BY <1>1, <1>2, <1>3, <1>4 DEF HInv

(***************************************************************************)
(* The table is a copy of the site up to the events that are under way,    *)
(* lost, skipped or filtered out, and up to the TTL: through lost          *)
(* connections, failed statements, garbage, crashes and restarts, for any  *)
(* messages that name a listing once and users who keep their listings.    *)
(***************************************************************************)
THEOREM HeardEventsAreApplied ==
    ASSUME NEW CONSTANT owner,
           \A b \in Messages : OneEach(b) /\ OwnedBy(b, owner)
    PROVE  Spec => []HeardIsApplied
<1>1. \A b \in Messages : Sober(b, owner)
  BY DEF Sober
<1>2. TypeOK /\ HInv(owner) /\ [Next]_vars => HInv(owner)'
  <2> SUFFICES ASSUME TypeOK, HInv(owner), [Next]_vars PROVE HInv(owner)'
    OBVIOUS
  <2>1. AllSober(owner)' /\ RowsOwned(owner)'
    BY <1>1, SoberStep, RowsOwnedStep DEF HInv
  <2>2. LinkStages' /\ QueueIsCurrent' /\ BatchIsCurrent'
    BY <1>1, LinkStagesStep, QueueStep, BatchStep DEF HInv
  <2>3. HeardIsApplied'
    BY <1>1, HeardStep
  <2> QED
    BY <2>1, <2>2, <2>3 DEF HInv
<1>3. Init => HInv(owner)
  BY HeardInit
<1>4. HInv(owner) => HeardIsApplied
  BY DEF HInv
<1> QED
  BY <1>2, <1>3, <1>4, TypeCorrect, PTL DEF Spec
=============================================================================
