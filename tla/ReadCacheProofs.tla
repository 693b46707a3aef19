---------------------------- MODULE ReadCacheProofs ----------------------------
(***************************************************************************)
(* Proofs about ReadCache, for any reads, entities, routes, readers and    *)
(* writers, and a cache of any size: what a usable entry may be too old    *)
(* for, that "not found" is never answered from what was cached, and that  *)
(* the eviction order lists each cached key once, within the limit.        *)
(***************************************************************************)
EXTENDS ReadCache, FiniteSetTheorems, SequenceTheorems, TLAPS

ReadState == [pc : {"idle", "waiting", "done"}, key : Key \cup {AnyKey}, v : Version, sure : BOOLEAN]
WriteState == [pc : {"idle", "sent", "applied"}, route : Route \cup {AnyRoute}, made : [Key -> Version]]

\* TypeOK without what it says of the order.
Types ==
  /\ truth \in [Key -> Version] /\ acked \in [Key -> Version]
  /\ cache \in [Key -> Entry] /\ flight \in [Key -> Flight]
  /\ reader \in [Reader -> ReadState] /\ writer \in [Writer -> WriteState]

\* Nothing is acknowledged, or about to be, that Autotask has not applied; a write
\* makes versions only of what it affects.
Applied ==
  /\ \A k \in Key : acked[k] <= truth[k]
  /\ \A x \in Writer : writer[x].pc # "idle" => writer[x].route \in Route
  /\ \A x \in Writer, k \in Key : writer[x].pc = "applied" =>
       /\ writer[x].made[k] <= truth[k]
       /\ writer[x].made[k] > 0 => k \in Affected(writer[x].route)

\* An answer that is on its way, and found something, was no older than any
\* acknowledged write, unless one has been acknowledged since.
AnswerFresh ==
  \A k \in Key : flight[k].pc = "looked" /\ flight[k].v > 0 /\ ~flight[k].crossed =>
    flight[k].v >= acked[k]

\* Only what was found is kept.
EntryFound == \A k \in Key : cache[k].fresh => cache[k].v > 0

\* A reader that is sure waits for a read that began after the record was there.
WaitsWell ==
  \A r \in Reader : reader[r].pc = "waiting" /\ reader[r].sure =>
    LET k == reader[r].key IN
    /\ k \in Key /\ truth[k] > 0 /\ k \notin lagging /\ flight[k].pc # "none"
    /\ flight[k].pc = "looked" => flight[k].v > 0

FreshInv == Types /\ Applied /\ AnswerFresh /\ EntryFound /\ StaleOnlyIfCrossed
FoundInv == Types /\ EntryFound /\ WaitsWell /\ FoundWhenThere
-----------------------------------------------------------------------------
(* Types.                                                                  *)

LEMMA VersionType == Version \subseteq Nat /\ 0 \in Version
BY CacheAssumption DEF Version

LEMMA InitType == Init => Types
BY VersionType DEF Init, Types, NoEntry, Entry, NoFlight, Flight, NoRead, ReadState, NoWrite, WriteState

LEMMA ReadType ==
  ASSUME Types, NEW r \in Reader, NEW k \in Key, Hit(r, k) \/ Miss(r, k)
  PROVE  Types'
<1> USE VersionType
<1>1. Starts(r, k) \in ReadState  BY DEF Starts, ReadState
<1>2. cache[k].v \in Version  BY DEF Types, Entry
<1>3. CASE Hit(r, k)
  <2>1. [Starts(r, k) EXCEPT !.pc = "done", !.v = cache[k].v] \in ReadState
    BY <1>1, <1>2 DEF ReadState
  <2> QED  BY <1>3, <2>1 DEF Hit, Types
<1>4. CASE Miss(r, k)
  <2>1. flight' \in [Key -> Flight]  BY <1>4 DEF Miss, Types, Flight
  <2>2. cache' \in [Key -> Entry]  BY <1>4 DEF Miss, Types, NoEntry, Entry
  <2> QED  BY <1>1, <1>4, <2>1, <2>2 DEF Miss, Types
<1> QED  BY <1>3, <1>4

LEMMA FlightType ==
  ASSUME Types, NEW k \in Key, Look(k) \/ Return(k) \/ ReadFails(k) \/ Age(k) \/ Settle(k)
  PROVE  Types'
<1> USE VersionType
<1>1. flight[k] \in Flight /\ flight[k].v \in Version /\ flight[k].crossed \in BOOLEAN
  BY DEF Types, Flight
<1>2. NoFlight \in Flight /\ NoEntry \in Entry /\ NoRead \in ReadState
  BY DEF NoFlight, Flight, NoEntry, Entry, NoRead, ReadState
<1>3. CASE Look(k)
  <2>1. PICK v \in {truth[k]} \cup (IF k \in lagging THEN {0} ELSE {}) :
          flight' = [flight EXCEPT ![k].pc = "looked", ![k].v = v]
    BY <1>3 DEF Look
  <2>2. v \in Version  BY <2>1 DEF Types
  <2>3. flight' \in [Key -> Flight]  BY <2>1, <2>2 DEF Types, Flight
  <2> QED  BY <1>3, <2>3 DEF Look, Types
<1>4. CASE Return(k)
  <2>1. [v |-> flight[k].v, fresh |-> TRUE, crossed |-> flight[k].crossed] \in Entry
    BY <1>1 DEF Entry
  <2>2. cache' \in [Key -> Entry]
    <3> DEFINE kept == Trim(IF Cached(k) THEN order ELSE Append(order, k))
    <3>1. \/ UNCHANGED cache
          \/ cache' = [j \in Key |->
                 IF \A i \in 1..Len(kept) : kept[i] # j THEN NoEntry
                 ELSE IF j = k THEN [v |-> flight[k].v, fresh |-> TRUE, crossed |-> flight[k].crossed]
                 ELSE cache[j]]
      BY <1>4 DEF Return
    <3> HIDE DEF kept
    <3> QED  BY <1>2, <2>1, <3>1 DEF Types
  <2>3. flight' \in [Key -> Flight]  BY <1>2, <1>4 DEF Return, Types
  <2>4. reader' \in [Reader -> ReadState]
    <3>1. ASSUME NEW r \in Reader PROVE [reader[r] EXCEPT !.pc = "done", !.v = flight[k].v] \in ReadState
      BY <1>1, <3>1 DEF Types, ReadState
    <3> QED  BY <1>4, <3>1 DEF Return, Types
  <2> QED  BY <1>4, <2>2, <2>3, <2>4 DEF Return, Types
<1>5. CASE ReadFails(k)
  BY <1>2, <1>5 DEF ReadFails, Types
<1>6. CASE Age(k)
  <2>1. cache' \in [Key -> Entry]  BY <1>6 DEF Age, Types, Entry
  <2> QED  BY <1>6, <2>1 DEF Age, Types
<1>7. CASE Settle(k)
  BY <1>7 DEF Settle, Types
<1> QED  BY <1>3, <1>4, <1>5, <1>6, <1>7

LEMMA WriteType ==
  ASSUME Types, NEW x \in Writer,
         Apply(x) \/ Acknowledge(x) \/ WriteFails(x) \/ \E w \in Route : SendWrite(x, w)
  PROVE  Types'
<1> USE VersionType
<1>1. writer[x] \in WriteState /\ NoWrite \in WriteState /\ NoEntry \in Entry
  BY DEF Types, NoWrite, WriteState, NoEntry, Entry
<1>2. CASE Apply(x)
  <2>1. \A k \in Affected(writer[x].route) : k \in Key /\ truth[k] + 1 \in Version
    BY <1>2, CacheAssumption DEF Apply, Affected, Types, Version
  <2>2. truth' \in [Key -> Version]  BY <1>2, <2>1 DEF Apply, Types
  <2>3. [k \in Key |-> IF k \in Affected(writer[x].route) THEN truth[k] + 1 ELSE 0] \in [Key -> Version]
    BY <2>1
  <2>4. writer' \in [Writer -> WriteState]  BY <1>1, <1>2, <2>3 DEF Apply, Types, WriteState
  <2> QED  BY <1>2, <2>2, <2>4 DEF Apply, Types
<1>3. CASE Acknowledge(x)
  <2>1. acked' \in [Key -> Version]  BY <1>1, <1>3 DEF Acknowledge, Types, WriteState
  <2>2. flight' \in [Key -> Flight]
    <3>1. ASSUME NEW k \in Key PROVE [flight[k] EXCEPT !.crossed = TRUE] \in Flight
      BY <3>1 DEF Types, Flight
    <3> QED  BY <1>3, <3>1 DEF Acknowledge, Types
  <2>3. cache' \in [Key -> Entry] /\ writer' \in [Writer -> WriteState]
    BY <1>1, <1>3 DEF Acknowledge, Types
  <2> QED  BY <1>3, <2>1, <2>2, <2>3 DEF Acknowledge, Types
<1>4. CASE WriteFails(x)  BY <1>1, <1>4 DEF WriteFails, Types
<1>5. ASSUME NEW w \in Route, SendWrite(x, w) PROVE Types'
  <2>1. [NoWrite EXCEPT !.pc = "sent", !.route = w] \in WriteState  BY <1>1 DEF WriteState
  <2> QED  BY <1>5, <2>1 DEF SendWrite, Types
<1> QED  BY <1>2, <1>3, <1>4, <1>5

LEMMA NextType == Types /\ [Next]_vars => Types'
<1> SUFFICES ASSUME Types, [Next]_vars PROVE Types'
  OBVIOUS
<1>1. CASE UNCHANGED vars  BY <1>1 DEF vars, Types
<1>2. CASE Switch  BY <1>2 DEF Switch, Types
<1>3. ASSUME NEW r \in Reader, Done(r) PROVE Types'
  <2>1. NoRead \in ReadState  BY VersionType DEF NoRead, ReadState
  <2> QED  BY <1>3, <2>1 DEF Done, Types
<1> QED  BY <1>1, <1>2, <1>3, ReadType, FlightType, WriteType DEF Next
-----------------------------------------------------------------------------
(* The answers.                                                            *)

\* What a stored answer leaves in the cache: nothing, what was there, or the answer,
\* which has then found something.
LEMMA Stored ==
  ASSUME Types, NEW k \in Key, Return(k), NEW j \in Key
  PROVE  \/ cache'[j] = NoEntry
         \/ cache'[j] = cache[j]
         \/ /\ j = k /\ flight[k].pc = "looked" /\ flight[k].v > 0
            /\ cache'[j].v = flight[k].v /\ cache'[j].crossed = flight[k].crossed
<1> DEFINE kept == Trim(IF Cached(k) THEN order ELSE Append(order, k))
<1>1. \/ UNCHANGED cache
      \/ /\ cache' = [i \in Key |->
              IF \A n \in 1..Len(kept) : kept[n] # i THEN NoEntry
              ELSE IF i = k THEN [v |-> flight[k].v, fresh |-> TRUE, crossed |-> flight[k].crossed]
              ELSE cache[i]]
         /\ flight[k].v > 0 /\ flight[k].pc = "looked"
  BY DEF Return, Cacheable
<1> HIDE DEF kept
<1> QED  BY <1>1

\* A read of Autotask finds what is there or, for a while, nothing.
LEMMA Looked ==
  ASSUME Types, NEW k \in Key, Look(k)
  PROVE  /\ flight'[k].pc = "looked" /\ flight'[k].crossed = flight[k].crossed
         /\ flight'[k].v = truth[k] \/ (k \in lagging /\ flight'[k].v = 0)
         /\ \A j \in Key : j # k => flight'[j] = flight[j]
<1>1. PICK v \in {truth[k]} \cup (IF k \in lagging THEN {0} ELSE {}) :
        flight' = [flight EXCEPT ![k].pc = "looked", ![k].v = v]
  BY DEF Look
<1> QED  BY <1>1 DEF Types, Flight

LEMMA TypeFacts ==
  ASSUME Types
  PROVE  /\ \A k \in Key : truth[k] \in Nat /\ acked[k] \in Nat /\ cache[k].v \in Nat /\ flight[k].v \in Nat
         /\ \A x \in Writer, k \in Key : writer[x].made[k] \in Nat
BY VersionType DEF Types, Entry, Flight, WriteState

LEMMA InitFresh == Init => FreshInv
<1> SUFFICES ASSUME Init PROVE FreshInv
  OBVIOUS
<1>1. Types  BY InitType
<1> QED  BY <1>1 DEF Init, NoEntry, NoFlight, NoWrite, FreshInv, Applied, AnswerFresh, EntryFound, StaleOnlyIfCrossed

LEMMA EntryStep ==
  ASSUME Types, EntryFound, [Next]_vars
  PROVE  EntryFound'
<1>1. CASE UNCHANGED cache  BY <1>1 DEF EntryFound
<1>2. ASSUME NEW r \in Reader, NEW k \in Key, Miss(r, k) PROVE EntryFound'
  BY <1>2 DEF Miss, EntryFound, NoEntry
<1>3. ASSUME NEW k \in Key, Return(k) PROVE EntryFound'
  <2> SUFFICES ASSUME NEW j \in Key, cache'[j].fresh PROVE cache'[j].v > 0
    BY DEF EntryFound
  <2>1. \/ cache'[j] = NoEntry \/ cache'[j] = cache[j]
        \/ cache'[j].v = flight[k].v /\ flight[k].v > 0
    BY <1>3, Stored
  <2> QED  BY <2>1 DEF EntryFound, NoEntry
<1>4. ASSUME NEW k \in Key, Age(k) PROVE EntryFound'
  BY <1>4 DEF Age, EntryFound, Types, Entry
<1>5. ASSUME NEW x \in Writer, Acknowledge(x) PROVE EntryFound'
  BY <1>5 DEF Acknowledge, EntryFound, NoEntry
<1> QED
  BY <1>1, <1>2, <1>3, <1>4, <1>5
  DEF Next, Hit, Done, Look, ReadFails, Settle, Apply, WriteFails, SendWrite, Switch, vars

LEMMA NextFresh ==
  ASSUME FreshInv, [Next]_vars
  PROVE  FreshInv'
<1> USE TypeFacts DEF FreshInv
<1>1. Types' /\ EntryFound'  BY NextType, EntryStep
<1>2. CASE UNCHANGED <<truth, acked, writer, flight, cache>>
  BY <1>1, <1>2 DEF Applied, AnswerFresh, StaleOnlyIfCrossed
<1>3. ASSUME NEW r \in Reader, NEW k \in Key, Miss(r, k) PROVE FreshInv'
  <2>1. UNCHANGED <<truth, acked, writer>>  BY <1>3 DEF Miss
  <2>2. Applied'  BY <2>1 DEF Applied
  <2>3. AnswerFresh'  BY <1>3, <2>1 DEF Miss, AnswerFresh, Types, Flight
  <2>4. StaleOnlyIfCrossed'  BY <1>3, <2>1 DEF Miss, StaleOnlyIfCrossed, NoEntry
  <2> QED  BY <1>1, <2>2, <2>3, <2>4
<1>4. ASSUME NEW k \in Key, Look(k) PROVE FreshInv'
  <2>1. UNCHANGED <<truth, acked, writer, cache>>  BY <1>4 DEF Look
  <2>2. Applied' /\ StaleOnlyIfCrossed'  BY <2>1 DEF Applied, StaleOnlyIfCrossed
  <2>3. AnswerFresh'  BY <1>4, <2>1, Looked DEF AnswerFresh, Applied
  <2> QED  BY <1>1, <2>2, <2>3
<1>5. ASSUME NEW k \in Key, Return(k) PROVE FreshInv'
  <2>1. UNCHANGED <<truth, acked, writer>> /\ flight' = [flight EXCEPT ![k] = NoFlight]
    BY <1>5 DEF Return
  <2>2. Applied'  BY <2>1 DEF Applied
  <2>3. AnswerFresh'  BY <2>1 DEF AnswerFresh, Types, NoFlight
  <2>4. StaleOnlyIfCrossed'
    <3> SUFFICES ASSUME NEW j \in Key, NamedFirst(j), cache'[j].fresh, ~cache'[j].crossed PROVE cache'[j].v >= acked[j]
      BY <2>1 DEF StaleOnlyIfCrossed
    <3>1. CASE cache'[j] = cache[j]  BY <3>1 DEF StaleOnlyIfCrossed
    <3>2. CASE cache'[j] # cache[j]
      <4>1. /\ j = k /\ flight[k].pc = "looked" /\ flight[k].v > 0
            /\ cache'[j].v = flight[k].v /\ cache'[j].crossed = flight[k].crossed
        <5>1. cache'[j] # NoEntry  BY DEF NoEntry
        <5> QED  BY <1>5, <3>2, <5>1, Stored
      <4> QED  BY <4>1 DEF AnswerFresh
    <3> QED  BY <3>1, <3>2
  <2> QED  BY <1>1, <2>2, <2>3, <2>4
<1>6. ASSUME NEW k \in Key, ReadFails(k) PROVE FreshInv'
  BY <1>1, <1>6 DEF ReadFails, Applied, AnswerFresh, StaleOnlyIfCrossed, Types, NoFlight
<1>7. ASSUME NEW k \in Key, Age(k) PROVE FreshInv'
  BY <1>1, <1>7 DEF Age, Applied, AnswerFresh, StaleOnlyIfCrossed, Types, Entry
<1>8. ASSUME NEW x \in Writer, Apply(x) PROVE FreshInv'
  <2>1. UNCHANGED <<acked, flight, cache>>  BY <1>8 DEF Apply
  <2>2. AnswerFresh' /\ StaleOnlyIfCrossed'  BY <2>1 DEF AnswerFresh, StaleOnlyIfCrossed
  <2>3. \A k \in Key : truth[k] <= truth'[k]  BY <1>8 DEF Apply
  <2>4. Applied'
    <3>0. \A k \in Key : truth'[k] \in Nat  BY <1>1, VersionType DEF Types
    <3>1. \A k \in Key : acked'[k] <= truth'[k]  BY <2>1, <2>3, <3>0 DEF Applied
    <3>2. /\ writer[x].pc = "sent" /\ writer'[x].route = writer[x].route
          /\ \A k \in Key : writer'[x].made[k] =
               IF k \in Affected(writer[x].route) THEN truth'[k] ELSE 0
          /\ \A y \in Writer : y # x => writer'[y] = writer[y]
      BY <1>8 DEF Apply, Types, WriteState
    <3>3. \A y \in Writer : writer'[y].pc # "idle" => writer'[y].route \in Route
      BY <3>2 DEF Applied
    <3>4. ASSUME NEW y \in Writer, NEW k \in Key, writer'[y].pc = "applied"
          PROVE  writer'[y].made[k] <= truth'[k] /\ (writer'[y].made[k] > 0 => k \in Affected(writer'[y].route))
      <4>1. CASE y = x  BY <3>0, <3>2, <4>1
      <4>2. CASE y # x
        <5>1. writer'[y] = writer[y]  BY <3>2, <4>2
        <5> QED  BY <2>3, <3>0, <3>4, <5>1 DEF Applied
      <4> QED  BY <4>1, <4>2
    <3> QED  BY <3>1, <3>3, <3>4 DEF Applied, Affected
  <2> QED  BY <1>1, <2>2, <2>4
\* What is acknowledged drops the entries it makes old, and crosses the reads.
<1>9. ASSUME NEW x \in Writer, Acknowledge(x) PROVE FreshInv'
  <2> DEFINE made == writer[x].made
  <2>1. /\ writer[x].pc = "applied" /\ truth' = truth
        /\ \A k \in Key : acked'[k] = IF made[k] > acked[k] THEN made[k] ELSE acked[k]
        /\ \A k \in Key : made[k] > 0 => flight'[k].pc = "none" \/ flight'[k].crossed
        /\ \A k \in Key : ~(made[k] > 0) => flight'[k] = flight[k]
        /\ \A k \in Key : cache'[k] = IF k \in Invalidated(writer[x].route) THEN NoEntry ELSE cache[k]
    BY <1>9 DEF Acknowledge, Types, Flight
  <2>2. \A k \in Key : ~(made[k] > 0) => acked'[k] = acked[k]  BY <2>1
  <2>3. Applied'
    BY <1>9, <2>1 DEF Acknowledge, Applied, Types, NoWrite
  <2>4. AnswerFresh'  BY <2>1, <2>2 DEF AnswerFresh
  <2>5. \A k \in Key : NamedFirst(k) /\ made[k] > 0 => k \in Invalidated(writer[x].route)
    <3>1. writer[x].route \in Route  BY <2>1 DEF Applied
    <3> QED  BY <2>1, <3>1 DEF Applied, Invalidated, NamedFirst
  <2>6. StaleOnlyIfCrossed'  BY <2>1, <2>2, <2>5 DEF StaleOnlyIfCrossed, NoEntry
  <2> QED  BY <1>1, <2>3, <2>4, <2>6
<1>10. ASSUME NEW x \in Writer, WriteFails(x) \/ \E w \in Route : SendWrite(x, w) PROVE FreshInv'
  <2>1. UNCHANGED <<truth, acked, flight, cache>>  BY <1>10 DEF WriteFails, SendWrite
  <2>2. AnswerFresh' /\ StaleOnlyIfCrossed'  BY <2>1 DEF AnswerFresh, StaleOnlyIfCrossed
  <2>3. /\ writer'[x].pc \in {"idle", "sent"}
        /\ writer'[x].pc = "sent" => writer'[x].route \in Route
        /\ \A y \in Writer : y # x => writer'[y] = writer[y]
    <3>1. CASE WriteFails(x)  BY <3>1 DEF WriteFails, NoWrite, Types
    <3>2. ASSUME NEW w \in Route, SendWrite(x, w)
          PROVE  /\ writer'[x].pc = "sent" /\ writer'[x].route = w
                 /\ \A y \in Writer : y # x => writer'[y] = writer[y]
      BY <3>2 DEF SendWrite, NoWrite, Types
    <3> QED  BY <1>10, <3>1, <3>2 DEF NoWrite
  <2>4. Applied'  BY <2>1, <2>3 DEF Applied
  <2> QED  BY <1>1, <2>2, <2>4
<1> QED
  BY <1>2, <1>3, <1>4, <1>5, <1>6, <1>7, <1>8, <1>9, <1>10 DEF Next, Hit, Done, Settle, Switch, vars

\* A usable entry that is older than an acknowledged write can only come from a read
\* that was out when the write was acknowledged (cachedRead, invalidateAfterWrite), for
\* any reads and writes in flight and a cache of any size.  It holds of each key that all
\* its writes name first, or whose reads are volatile, whatever else is written.
THEOREM OldOnlyFromCrossing == Spec => []StaleOnlyIfCrossed
<1>1. FreshInv /\ [Next]_vars => FreshInv'  BY NextFresh
<1>2. FreshInv => StaleOnlyIfCrossed  BY DEF FreshInv
<1> QED  BY InitFresh, <1>1, <1>2, PTL DEF Spec
-----------------------------------------------------------------------------
(* What is there is found.                                                 *)

LEMMA InitFound == Init => FoundInv
<1> SUFFICES ASSUME Init PROVE FoundInv
  OBVIOUS
<1>1. Types  BY InitType
<1> QED  BY <1>1 DEF Init, NoEntry, NoRead, FoundInv, EntryFound, WaitsWell, FoundWhenThere

\* A step in which a key's record stays there, and its read out and right, if a sure
\* reader waits for it, and no reader begins or ends to wait.
LEMMA WaitStep ==
  ASSUME FoundInv, Types', EntryFound', UNCHANGED reader,
         \A k \in Key : truth[k] > 0 => truth'[k] > 0 /\ (k \in lagging' => k \in lagging),
         \A k \in Key : flight[k].pc # "none" /\ truth[k] > 0 /\ k \notin lagging =>
           /\ flight'[k].pc # "none"
           /\ (flight[k].pc = "looked" => flight[k].v > 0) => (flight'[k].pc = "looked" => flight'[k].v > 0)
  PROVE  FoundInv'
<1> USE DEF FoundInv
<1>1. WaitsWell'  BY DEF WaitsWell
<1>2. FoundWhenThere'  BY DEF FoundWhenThere
<1> QED  BY <1>1, <1>2

LEMMA NextFound ==
  ASSUME FoundInv, [Next]_vars
  PROVE  FoundInv'
<1> USE TypeFacts DEF FoundInv
<1>1. Types' /\ EntryFound'  BY NextType, EntryStep
<1>2. CASE UNCHANGED <<truth, lagging, flight, reader>>
  BY <1>1, <1>2, WaitStep
<1>3. ASSUME NEW r \in Reader, Done(r) PROVE FoundInv'
  BY <1>1, <1>3 DEF Done, NoRead, WaitsWell, FoundWhenThere, Types
<1>4. ASSUME NEW r \in Reader, NEW k \in Key, Hit(r, k) PROVE FoundInv'
  <2>1. UNCHANGED <<truth, lagging, flight>>  BY <1>4 DEF Hit
  <2>2. /\ reader'[r].pc = "done" /\ reader'[r].v > 0
        /\ \A q \in Reader : q # r => reader'[q] = reader[q]
    BY <1>4 DEF Hit, Starts, Types, EntryFound
  <2> QED  BY <1>1, <2>1, <2>2 DEF WaitsWell, FoundWhenThere
<1>5. ASSUME NEW r \in Reader, NEW k \in Key, Miss(r, k) PROVE FoundInv'
  <2>1. UNCHANGED <<truth, lagging>>  BY <1>5 DEF Miss
  <2>2. /\ reader'[r] = Starts(r, k)
        /\ \A q \in Reader : q # r => reader'[q] = reader[q]
    BY <1>5 DEF Miss, Types
  <2>3. /\ flight'[k].pc # "none"
        /\ flight[k].pc = "none" => flight'[k].pc = "sent"
        /\ flight[k].pc # "none" => flight'[k] = flight[k]
        /\ \A j \in Key : j # k => flight'[j] = flight[j]
    BY <1>5 DEF Miss, Types, Flight
  <2>4. FoundWhenThere'  BY <2>2 DEF FoundWhenThere, Starts
  <2>5. WaitsWell'
    <3> SUFFICES ASSUME NEW q \in Reader, reader'[q].pc = "waiting", reader'[q].sure
                 PROVE  LET j == reader'[q].key IN
                        /\ j \in Key /\ truth[j] > 0 /\ j \notin lagging /\ flight'[j].pc # "none"
                        /\ flight'[j].pc = "looked" => flight'[j].v > 0
      BY <2>1 DEF WaitsWell
    <3>1. CASE q = r
      <4>1. reader'[q] = Starts(r, k)  BY <2>2, <3>1
      <4>2. reader'[q].key = k  BY <4>1 DEF Starts
      <4>3. Starts(r, k).sure => truth[k] > 0 /\ k \notin lagging /\ flight[k].pc = "none"
        BY Zenon DEF Starts
      <4>4. truth[k] > 0 /\ k \notin lagging /\ flight[k].pc = "none"  BY <4>1, <4>3
      <4> QED  BY <2>3, <4>2, <4>4
    <3>2. CASE q # r  BY <2>2, <2>3, <3>2 DEF WaitsWell
    <3> QED  BY <3>1, <3>2
  <2> QED  BY <1>1, <2>4, <2>5
<1>6. ASSUME NEW k \in Key, Look(k) PROVE FoundInv'
  <2>1. UNCHANGED <<truth, lagging, reader>> /\ flight[k].pc = "sent"  BY <1>6 DEF Look
  <2> QED  BY <1>1, <1>6, <2>1, Looked, WaitStep
<1>7. ASSUME NEW k \in Key, Return(k) \/ ReadFails(k) PROVE FoundInv'
  <2>1. UNCHANGED <<truth, lagging>>  BY <1>7 DEF Return, ReadFails
  <2>2. \A j \in Key : j # k => flight'[j] = flight[j]
    BY <1>7 DEF Return, ReadFails, Types
  <2>3. \A q \in Reader : IF reader[q].pc = "waiting" /\ reader[q].key = k
          THEN \/ reader'[q].pc = "idle"
               \/ /\ reader'[q].pc = "done" /\ reader'[q].v = flight[k].v /\ flight[k].pc = "looked"
                  /\ reader'[q].sure = reader[q].sure
          ELSE reader'[q] = reader[q]
    <3>1. ASSUME NEW q \in Reader
          PROVE  LET d == [reader[q] EXCEPT !.pc = "done", !.v = flight[k].v] IN
                 d.pc = "done" /\ d.v = flight[k].v /\ d.sure = reader[q].sure
      BY <3>1 DEF Types, ReadState
    <3>2. CASE Return(k)  BY <3>1, <3>2 DEF Return
    <3>3. CASE ReadFails(k)  BY <3>3 DEF ReadFails, NoRead
    <3> QED  BY <1>7, <3>2, <3>3
  <2>4. WaitsWell'  BY <2>1, <2>2, <2>3 DEF WaitsWell
  <2>5. FoundWhenThere'  BY <2>3 DEF FoundWhenThere, WaitsWell
  <2> QED  BY <1>1, <2>4, <2>5
<1>8. ASSUME NEW k \in Key, Settle(k) PROVE FoundInv'
  BY <1>1, <1>8, WaitStep DEF Settle
<1>9. ASSUME NEW x \in Writer, Apply(x) PROVE FoundInv'
  <2>1. UNCHANGED <<flight, reader>>
        /\ \A k \in Key : truth[k] > 0 => truth'[k] > 0 /\ (k \in lagging' => k \in lagging)
    BY <1>9 DEF Apply
  <2> QED  BY <1>1, <2>1, WaitStep
<1>10. ASSUME NEW x \in Writer, Acknowledge(x) PROVE FoundInv'
  <2>1. UNCHANGED <<truth, lagging, reader>>
        /\ \A k \in Key : flight'[k].pc = flight[k].pc /\ flight'[k].v = flight[k].v
    BY <1>10 DEF Acknowledge, Types, Flight
  <2> QED  BY <1>1, <2>1, WaitStep
<1> QED
  BY <1>2, <1>3, <1>4, <1>5, <1>6, <1>7, <1>8, <1>9, <1>10
  DEF Next, Age, WriteFails, SendWrite, Switch, vars

\* A record that is certainly there when a read begins, with nobody reading it, is found
\* (isCacheableValue, inFlight): an earlier "not found" is neither cached nor shared, for
\* any reads and writes, whatever is written, lost, refused, dropped or switched off.
THEOREM ThereIsFound == Spec => []FoundWhenThere
<1>1. FoundInv => FoundWhenThere  BY DEF FoundInv
<1> QED  BY InitFound, NextFound, <1>1, PTL DEF Spec
-----------------------------------------------------------------------------
(* The order.  It lists the cached keys once each, so that its length is   *)
(* what MAX_ENTRIES has to bound, and dropping keys keeps the others.      *)

Distinct(s) == \A i, j \in 1..Len(s) : s[i] = s[j] => i = j
Lists(s, k) == \E i \in 1..Len(s) : s[i] = k

Ordered ==
  /\ lagging \subseteq Key /\ enabled \in BOOLEAN
  /\ order \in Seq(Key) /\ Distinct(order) /\ Len(order) <= MaxEntries
  /\ \A k \in Key : ~Cached(k) => cache[k] = NoEntry

\* How many of I are up to i: this numbers I.
Upto(I, i) == {j \in I : j <= i}
Nth(I, n) == CHOOSE i \in I : Cardinality(Upto(I, i)) = n

LEMMA Numbered ==
  ASSUME NEW m \in Nat, NEW I \in SUBSET (1..m)
  PROVE  /\ IsFiniteSet(I) /\ Cardinality(I) \in 0..m
         /\ I # 1..m => Cardinality(I) < m
         /\ \A i \in I : Cardinality(Upto(I, i)) \in 1..Cardinality(I)
         /\ \A i, j \in I : Cardinality(Upto(I, i)) = Cardinality(Upto(I, j)) => i = j
         /\ \A n \in 1..Cardinality(I) : Nth(I, n) \in I /\ Cardinality(Upto(I, Nth(I, n))) = n
<1>1. /\ IsFiniteSet(I) /\ Cardinality(I) \in 0..m
      /\ I # 1..m => Cardinality(I) < m
  <2>1. IsFiniteSet(1..m) /\ Cardinality(1..m) = m
    BY FS_Interval
  <2>2. IsFiniteSet(I) /\ Cardinality(I) <= m /\ (Cardinality(I) = m => I = 1..m)
    BY <2>1, FS_Subset
  <2>3. Cardinality(I) \in Nat  BY <2>2, FS_CardinalityType
  <2> QED  BY <2>2, <2>3
<1>2. ASSUME NEW i \in I
      PROVE  IsFiniteSet(Upto(I, i)) /\ Cardinality(Upto(I, i)) \in 1..Cardinality(I)
  <2>1. Upto(I, i) \in SUBSET I /\ i \in Upto(I, i)  BY DEF Upto
  <2>2. /\ IsFiniteSet(Upto(I, i)) /\ Cardinality(Upto(I, i)) \in Nat
        /\ Cardinality(Upto(I, i)) <= Cardinality(I)
    BY <1>1, <2>1, FS_Subset, FS_CardinalityType
  <2>3. Cardinality(Upto(I, i)) # 0  BY <2>1, <2>2, FS_EmptySet
  <2> QED  BY <1>1, <2>2, <2>3
<1>3. ASSUME NEW i \in I, NEW j \in I, i < j
      PROVE  Cardinality(Upto(I, i)) # Cardinality(Upto(I, j))
  <2>1. \A x \in I : x \in Int  OBVIOUS
  <2>2. j \in Upto(I, j) /\ j \notin Upto(I, i)  BY <1>3, <2>1 DEF Upto
  <2>3. \A x \in I : x <= i => x <= j  BY <1>3, <2>1
  <2>4. Upto(I, i) \in SUBSET Upto(I, j)  BY <2>3 DEF Upto
  <2> QED  BY <1>2, <2>2, <2>4, FS_Subset
<1>4. \A i, j \in I : Cardinality(Upto(I, i)) = Cardinality(Upto(I, j)) => i = j
  <2>1. \A i, j \in I : i < j \/ j < i \/ i = j  OBVIOUS
  <2> QED  BY <1>3, <2>1
<1>5. ASSUME NEW n \in 1..Cardinality(I)
      PROVE  \E i \in I : Cardinality(Upto(I, i)) = n
  <2> DEFINE f == [i \in I |-> Cardinality(Upto(I, i))]
             T == 1..Cardinality(I)
  <2>1. f \in Injection(I, T)
    <3>1. f \in [I -> T]  BY <1>2
    <3> QED  BY <1>4, <3>1 DEF Injection, IsInjective
  <2>2. IsFiniteSet(T) /\ Cardinality(T) = Cardinality(I)  BY <1>1, FS_Interval
  <2>3. f \in Surjection(I, T)
    <3> HIDE DEF f, T
    <3> QED  BY <2>1, <2>2, FS_Injection
  <2>4. \E i \in I : f[i] = n  BY <2>3 DEF Surjection
  <2> QED  BY <2>4
<1>6. \A n \in 1..Cardinality(I) : Nth(I, n) \in I /\ Cardinality(Upto(I, Nth(I, n))) = n
  BY <1>5 DEF Nth
<1> QED  BY <1>1, <1>2, <1>4, <1>6

\* Dropping keys from an order keeps the others, once each.
LEMMA WithoutKeeps ==
  ASSUME NEW s \in Seq(Key), Distinct(s), NEW K
  PROVE  /\ Without(s, K) \in Seq(Key) /\ Distinct(Without(s, K))
         /\ Len(Without(s, K)) <= Len(s)
         /\ (\E k \in K : Lists(s, k)) => Len(Without(s, K)) < Len(s)
         /\ \A k : Lists(Without(s, K), k) <=> Lists(s, k) /\ k \notin K
<1> DEFINE I == {i \in 1..Len(s) : s[i] \notin K}
           W == [n \in 1..Cardinality(I) |-> s[Nth(I, n)]]
<1>1. Without(s, K) = W  BY DEF Without, Nth, Upto
<1>2. Len(s) \in Nat /\ I \in SUBSET (1..Len(s)) /\ \A i \in 1..Len(s) : s[i] \in Key
  OBVIOUS
<1>3. /\ Cardinality(I) \in 0..Len(s)
      /\ I # 1..Len(s) => Cardinality(I) < Len(s)
      /\ \A i \in I : Cardinality(Upto(I, i)) \in 1..Cardinality(I)
      /\ \A i, j \in I : Cardinality(Upto(I, i)) = Cardinality(Upto(I, j)) => i = j
      /\ \A n \in 1..Cardinality(I) : Nth(I, n) \in I /\ Cardinality(Upto(I, Nth(I, n))) = n
  <2> HIDE DEF I
  <2> QED  BY <1>2, Numbered
<1>4. \A i : i \in I <=> i \in 1..Len(s) /\ s[i] \notin K  OBVIOUS
<1> HIDE DEF I
<1>5. W \in [1..Cardinality(I) -> Key]  BY <1>2, <1>3
<1>6. Cardinality(I) \in Nat /\ W \in Seq(Key) /\ Len(W) = Cardinality(I)
  <2>1. Cardinality(I) \in Nat  BY <1>2, <1>3
  <2>2. W \in Seq(Key)  BY <1>5, <2>1, IsASeq
  <2>3. DOMAIN W = 1..Cardinality(I)  OBVIOUS
  <2> QED  BY <2>1, <2>2, <2>3, LenProperties
<1>7. \A n \in 1..Cardinality(I) : W[n] = s[Nth(I, n)]  OBVIOUS
<1> HIDE DEF W
<1>8. Distinct(W)
  <2> SUFFICES ASSUME NEW m \in 1..Len(W), NEW n \in 1..Len(W), W[m] = W[n]
               PROVE  m = n
    BY DEF Distinct
  <2>1. m \in 1..Cardinality(I) /\ n \in 1..Cardinality(I)  BY <1>6
  <2>2. Nth(I, m) \in I /\ Nth(I, n) \in I /\ s[Nth(I, m)] = s[Nth(I, n)]  BY <1>3, <1>7, <2>1
  <2>3. Nth(I, m) = Nth(I, n)  BY <1>4, <2>2 DEF Distinct
  <2> QED  BY <1>3, <2>1, <2>3
<1>9. ASSUME NEW k, Lists(W, k) PROVE Lists(s, k) /\ k \notin K
  <2>1. PICK n \in 1..Cardinality(I) : W[n] = k  BY <1>6, <1>9 DEF Lists
  <2>2. Nth(I, n) \in I /\ s[Nth(I, n)] = k  BY <1>3, <1>7, <2>1
  <2> QED  BY <1>4, <2>2 DEF Lists
<1>10. ASSUME NEW k, Lists(s, k), k \notin K PROVE Lists(W, k)
  <2>1. PICK i \in 1..Len(s) : s[i] = k  BY <1>10 DEF Lists
  <2>2. i \in I  BY <1>4, <1>10, <2>1
  <2> DEFINE n == Cardinality(Upto(I, i))
  <2>3. n \in 1..Cardinality(I)  BY <1>3, <2>2
  <2>4. Nth(I, n) = i
    <3>1. Nth(I, n) \in I /\ Cardinality(Upto(I, Nth(I, n))) = n  BY <1>3, <2>3
    <3> QED  BY <1>3, <2>2, <3>1
  <2>5. W[n] = k  BY <1>7, <2>1, <2>3, <2>4
  <2> QED  BY <1>6, <2>3, <2>5 DEF Lists
<1>11. (\E k \in K : Lists(s, k)) => Len(W) < Len(s)
  <2>1. (\E k \in K : Lists(s, k)) => I # 1..Len(s)  BY <1>4 DEF Lists
  <2> QED  BY <1>3, <1>6, <2>1
<1>12. Len(W) <= Len(s)  BY <1>2, <1>3, <1>6
<1> QED  BY <1>1, <1>6, <1>8, <1>9, <1>10, <1>11, <1>12

\* A cached key is one that the order lists; of a list that names keys once each the
\* length is the number of these keys.
LEMMA CountedOnce ==
  ASSUME Ordered
  PROVE  Len(order) = Cardinality({k \in Key : Cached(k)})
<1> DEFINE S == {k \in Key : Cached(k)}
<1>1. order \in Seq(Key) /\ Len(order) \in Nat /\ \A i \in 1..Len(order) : order[i] \in Key
  BY DEF Ordered
<1> DEFINE f == [i \in 1..Len(order) |-> order[i]]
<1>2. f \in [1..Len(order) -> S]  BY <1>1 DEF Cached
<1>3. f \in Injection(1..Len(order), S)  BY <1>2 DEF Ordered, Distinct, Injection, IsInjective
<1>4. f \in Surjection(1..Len(order), S)  BY <1>2 DEF Surjection, Cached
<1>5. ExistsBijection(1..Len(order), S)  BY <1>3, <1>4 DEF ExistsBijection, Bijection
<1> QED  BY <1>1, <1>5, FS_CountingElements

\* Keys leave the order, and their entries with them (Miss, invalidateAfterWrite).
LEMMA DroppedOrdered ==
  ASSUME Types, Ordered, NEW K, order' = Without(order, K), UNCHANGED <<lagging, enabled>>,
         cache' = [k \in Key |-> IF k \in K THEN NoEntry ELSE cache[k]]
  PROVE  Ordered'
<1>1. /\ order' \in Seq(Key) /\ Distinct(order') /\ Len(order') <= Len(order)
      /\ \A k : Lists(order', k) <=> Lists(order, k) /\ k \notin K
  BY WithoutKeeps DEF Ordered
<1>2. \A k \in Key : Cached(k)' <=> Cached(k) /\ k \notin K
  BY <1>1 DEF Cached, Lists
<1>3. Len(order') <= MaxEntries
  <2>1. Len(order') \in Nat /\ Len(order) \in Nat /\ MaxEntries \in Nat
    BY <1>1, CacheAssumption DEF Ordered
  <2> QED  BY <1>1, <2>1 DEF Ordered
<1>4. (\A k \in Key : ~Cached(k) => cache[k] = NoEntry)'  BY <1>2 DEF Ordered, Types
<1> QED  BY <1>1, <1>3, <1>4 DEF Ordered

\* A key that is not listed goes to the end.
LEMMA AppendedOnce ==
  ASSUME NEW s \in Seq(Key), Distinct(s), NEW k \in Key, ~Lists(s, k)
  PROVE  /\ Append(s, k) \in Seq(Key) /\ Distinct(Append(s, k)) /\ Len(Append(s, k)) = Len(s) + 1
         /\ \A j : Lists(Append(s, k), j) <=> Lists(s, j) \/ j = k
<1>1. /\ Append(s, k) \in Seq(Key) /\ Len(Append(s, k)) = Len(s) + 1
      /\ \A i \in 1..Len(s) : Append(s, k)[i] = s[i]
      /\ Append(s, k)[Len(s) + 1] = k /\ Len(s) \in Nat
  BY AppendProperties
<1> DEFINE t == Append(s, k)
<1> HIDE DEF t
<1>2. \A i \in 1..(Len(s) + 1) : i \in 1..Len(s) \/ i = Len(s) + 1  BY <1>1
<1>3. Distinct(t)  BY <1>1, <1>2 DEF Distinct, Lists, t
<1>4. \A j : Lists(t, j) <=> Lists(s, j) \/ j = k  BY <1>1, <1>2 DEF Lists, t
<1> QED  BY <1>1, <1>3, <1>4 DEF t

\* A hit makes its key the youngest.
LEMMA HitOrdered ==
  ASSUME Types, Ordered, NEW r \in Reader, NEW k \in Key, Hit(r, k)
  PROVE  Ordered'
<1> DEFINE W == Without(order, {k})
<1>1. /\ order' = Append(W, k) /\ UNCHANGED <<lagging, enabled, cache>> /\ Lists(order, k)
  BY DEF Hit, Cached, Lists
<1>2. /\ W \in Seq(Key) /\ Distinct(W) /\ Len(W) < Len(order)
      /\ \A j : Lists(W, j) <=> Lists(order, j) /\ j # k
  <2>1. \E j \in {k} : Lists(order, j)  BY <1>1
  <2> QED  BY <2>1, WithoutKeeps DEF Ordered
<1> HIDE DEF W
<1>3. /\ order' \in Seq(Key) /\ Distinct(order') /\ Len(order') = Len(W) + 1
      /\ \A j : Lists(order', j) <=> Lists(order, j)
  BY <1>1, <1>2, AppendedOnce
<1>4. Len(order') <= MaxEntries
  <2>1. Len(W) \in Nat /\ Len(order) \in Nat /\ MaxEntries \in Nat
    BY <1>2, CacheAssumption DEF Ordered
  <2> QED  BY <1>2, <1>3, <2>1 DEF Ordered
<1>5. (\A j \in Key : ~Cached(j) => cache[j] = NoEntry)'
  BY <1>1, <1>3 DEF Ordered, Cached, Lists
<1> QED  BY <1>1, <1>3, <1>4, <1>5 DEF Ordered

\* An answer that is kept takes the place of its key, or a new one, for which the oldest
\* entry goes when the cache is full.
LEMMA ReturnOrdered ==
  ASSUME Types, Ordered, NEW k \in Key, Return(k)
  PROVE  Ordered'
<1> DEFINE long == IF Cached(k) THEN order ELSE Append(order, k)
           kept == Trim(long)
<1>1. UNCHANGED <<lagging, enabled>>  BY DEF Return
<1>2. CASE UNCHANGED <<order, cache>>  BY <1>1, <1>2 DEF Ordered, Cached
<1>3. CASE /\ order' = kept
           /\ cache' = [j \in Key |->
                IF \A i \in 1..Len(kept) : kept[i] # j THEN NoEntry
                ELSE IF j = k THEN [v |-> flight[k].v, fresh |-> TRUE, crossed |-> flight[k].crossed]
                ELSE cache[j]]
  <2>0. order \in Seq(Key) /\ Distinct(order) /\ Len(order) <= MaxEntries /\ Len(order) \in Nat
        /\ MaxEntries \in Nat /\ MaxEntries > 0
    BY CacheAssumption DEF Ordered
  <2>1. long \in Seq(Key) /\ Distinct(long) /\ Len(long) <= MaxEntries + 1
    <3>1. CASE Cached(k)  BY <2>0, <3>1
    <3>2. CASE ~Cached(k)
      <4>1. ~Lists(order, k)  BY <3>2 DEF Cached, Lists
      <4> QED  BY <2>0, <3>2, <4>1, AppendedOnce
    <3> QED  BY <3>1, <3>2
  <2> HIDE DEF long
  <2>2. kept \in Seq(Key) /\ Distinct(kept) /\ Len(kept) <= MaxEntries
    <3>0. Len(long) \in Nat  BY <2>1
    <3>1. CASE Len(long) <= MaxEntries  BY <2>0, <2>1, <3>0, <3>1 DEF Trim
    <3>2. CASE Len(long) > MaxEntries
      <4>1. kept = Tail(long) /\ long # <<>>  BY <2>0, <3>2 DEF Trim
      <4>2. /\ kept \in Seq(Key) /\ Len(kept) = Len(long) - 1
            /\ \A i \in 1..Len(kept) : kept[i] = long[i + 1]
        BY <2>1, <4>1, HeadTailProperties
      <4>3. Distinct(kept)
        <5> HIDE DEF kept
        <5>1. \A i \in 1..Len(kept) : i + 1 \in 1..Len(long)  BY <3>0, <4>2
        <5> QED  BY <2>1, <4>2, <5>1 DEF Distinct
      <4> QED  BY <2>0, <2>1, <3>0, <4>2, <4>3
    <3> QED  BY <2>0, <3>0, <3>1, <3>2
  <2> HIDE DEF kept
  <2>3. (\A j \in Key : ~Cached(j) => cache[j] = NoEntry)'  BY <1>3 DEF Cached
  <2> QED  BY <1>1, <1>3, <2>2, <2>3 DEF Ordered
<1> HIDE DEF kept
<1>4. \/ UNCHANGED <<order, cache>>
      \/ /\ order' = kept
         /\ cache' = [j \in Key |->
              IF \A i \in 1..Len(kept) : kept[i] # j THEN NoEntry
              ELSE IF j = k THEN [v |-> flight[k].v, fresh |-> TRUE, crossed |-> flight[k].crossed]
              ELSE cache[j]]
  BY DEF Return, kept
<1> QED  BY <1>2, <1>3, <1>4

LEMMA NextOrdered == Types /\ Ordered /\ [Next]_vars => Ordered'
<1> SUFFICES ASSUME Types, Ordered, [Next]_vars PROVE Ordered'
  OBVIOUS
<1>1. CASE UNCHANGED <<order, cache, lagging, enabled>>  BY <1>1 DEF Ordered, Cached
<1>2. ASSUME NEW r \in Reader, NEW k \in Key, Miss(r, k) PROVE Ordered'
  <2> DEFINE expired == IF Usable(k) THEN {k} ELSE {}
  <2>1. /\ order' = Without(order, expired) /\ UNCHANGED <<lagging, enabled>>
        /\ cache' = [j \in Key |-> IF j \in expired THEN NoEntry ELSE cache[j]]
    BY <1>2 DEF Miss
  <2> HIDE DEF expired
  <2> QED  BY <2>1, DroppedOrdered
<1>3. ASSUME NEW x \in Writer, Acknowledge(x) PROVE Ordered'
  <2> DEFINE K == Invalidated(writer[x].route)
  <2>1. /\ order' = Without(order, K) /\ UNCHANGED <<lagging, enabled>>
        /\ cache' = [j \in Key |-> IF j \in K THEN NoEntry ELSE cache[j]]
    BY <1>3 DEF Acknowledge
  <2> HIDE DEF K
  <2> QED  BY <2>1, DroppedOrdered
<1>4. ASSUME NEW k \in Key, Age(k) PROVE Ordered'
  <2>1. UNCHANGED <<order, lagging, enabled>> /\ cache[k].fresh
        /\ \A j \in Key : j # k => cache'[j] = cache[j]
    BY <1>4 DEF Age, Types
  <2>2. cache[k] # NoEntry  BY <2>1 DEF NoEntry
  <2> QED  BY <2>1, <2>2 DEF Ordered, Cached
<1>5. ASSUME NEW k \in Key, Settle(k) PROVE Ordered'
  BY <1>5 DEF Settle, Ordered, Cached
<1>6. ASSUME NEW x \in Writer, Apply(x) PROVE Ordered'
  BY <1>6, CacheAssumption DEF Apply, Affected, Ordered, Cached
<1>7. CASE Switch  BY <1>7 DEF Switch, Ordered, Cached
<1> QED
  BY <1>1, <1>2, <1>3, <1>4, <1>5, <1>6, <1>7, HitOrdered, ReturnOrdered
  DEF Next, Done, Look, ReadFails, WriteFails, SendWrite, vars

\* The cache and its order agree, and it never holds more than MAX_ENTRIES (the trim of
\* cachedRead), for any keys and any limit, whatever is read, shared, written and switched.
THEOREM KeptWithinLimit == Spec => []TypeOK
<1>1. Init => Types /\ Ordered
  <2> SUFFICES ASSUME Init PROVE Ordered  BY InitType
  <2>1. order = <<>> /\ Len(order) = 0  BY DEF Init
  <2> QED  BY <2>1, CacheAssumption, EmptySeq DEF Init, Ordered, Distinct
<1>2. Types /\ Ordered => TypeOK
  BY CountedOnce DEF Types, Ordered, TypeOK
<1> QED  BY <1>1, <1>2, NextType, NextOrdered, PTL DEF Spec
=============================================================================
