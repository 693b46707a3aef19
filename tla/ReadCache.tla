------------------------------ MODULE ReadCache ------------------------------
(***************************************************************************)
(* The read cache in front of Autotask: cachedRead and invalidateAfterWrite *)
(* of src/src/services/http-cache.ts, with the writes of request() in      *)
(* autotask-http.ts and Autotask as a store of versions.                   *)
(*                                                                         *)
(* A key stands for one read; what it reads is a version, 0 when Autotask  *)
(* answers "not found" or an empty list.  A read is out at Autotask        *)
(* between its start and its answer; Autotask looks at its data at some    *)
(* moment in between, and a new record may read as missing for a while.    *)
(* Times are abstracted: an entry is fresh until its TTL has run out (Age).*)
(***************************************************************************)
EXTENDS Naturals, Sequences, FiniteSets

CONSTANTS
  Key, Entity,  \* the reads, and the entities they are of
  KeyEntity,    \* entityOf of a read
  Volatile,     \* keys of class 'volatile'
  Never,        \* keys of class 'never'; the others are reference data
  Reader, Writer,
  Route,        \* the writes: [path, entity]: what the path names first, what is written
  MaxEntries,   \* MAX_ENTRIES
  MaxWrites     \* bound: writes that Autotask applies

ASSUME CacheAssumption ==
  /\ KeyEntity \in [Key -> Entity] /\ Volatile \subseteq Key /\ Never \subseteq Key
  /\ Route \subseteq [path : Entity, entity : Entity]
  /\ MaxEntries \in Nat \ {0} /\ MaxWrites \in Nat

VARIABLES
  truth,    \* Autotask: the version a read of the key would find
  lagging,  \* Autotask: keys whose new version may still read as missing
  cache,    \* the tenant's cache: the entry of each key
  order,    \* the cached keys in the Map's order (oldest use first)
  flight,   \* inFlight: the read that is out for each key
  reader,   \* callers of cachedRead
  writer,   \* writes in progress
  acked,    \* history: the newest version a write was acknowledged for
  enabled   \* cacheEnabled()

vars == <<truth, lagging, cache, order, flight, reader, writer, acked, enabled>>

Version == 0..MaxWrites
\* crossed (history): a write of the key was acknowledged while the read was out.
Entry == [v : Version, fresh : BOOLEAN, crossed : BOOLEAN]
NoEntry == [v |-> 0, fresh |-> FALSE, crossed |-> FALSE]
Flight == [pc : {"none", "sent", "looked"}, v : Version, crossed : BOOLEAN]
NoFlight == [pc |-> "none", v |-> 0, crossed |-> FALSE]
AnyKey == CHOOSE k \in Key : TRUE
AnyRoute == CHOOSE w \in Route : TRUE
\* sure (history): when the read began the record
\* was there for certain, and nobody was reading it.
NoRead == [pc |-> "idle", key |-> AnyKey, v |-> 0, sure |-> FALSE]
NoWrite == [pc |-> "idle", route |-> AnyRoute, made |-> [k \in Key |-> 0]]

Cached(k) == \E i \in 1..Len(order) : order[i] = k
\* The keys of s that are not in K, as they follow each other in s.
Without(s, K) ==
  LET kept == {i \in 1..Len(s) : s[i] \notin K} IN
  [n \in 1..Cardinality(kept) |-> s[CHOOSE i \in kept : Cardinality({j \in kept : j <= i}) = n]]
\* What a write changes: the reads of the entity, and whatever is volatile.
Affected(w) == {k \in Key : k \in Volatile \/ KeyEntity[k] = w.entity}

Init ==
  /\ truth = [k \in Key |-> 0] /\ lagging = {}
  /\ cache = [k \in Key |-> NoEntry] /\ order = <<>>
  /\ flight = [k \in Key |-> NoFlight]
  /\ reader = [r \in Reader |-> NoRead]
  /\ writer = [x \in Writer |-> NoWrite]
  /\ acked = [k \in Key |-> 0]
  /\ enabled = TRUE
-----------------------------------------------------------------------------
(* Reads.                                                                  *)

Usable(k) == k \notin Never /\ enabled
Starts(r, k) == [pc |-> "waiting", key |-> k, v |-> 0,
                 sure |-> truth[k] > 0 /\ k \notin lagging /\ flight[k].pc = "none"]

\* A fresh entry is returned at once and becomes the youngest.
Hit(r, k) ==
  /\ reader[r].pc = "idle" /\ Usable(k) /\ Cached(k) /\ cache[k].fresh
  /\ order' = Append(Without(order, {k}), k)
  /\ reader' = [reader EXCEPT ![r] = [Starts(r, k) EXCEPT !.pc = "done", !.v = cache[k].v]]
  /\ UNCHANGED <<truth, lagging, cache, flight, writer, acked, enabled>>

\* An entry that is too old is dropped; an identical read that is out is shared.
Miss(r, k) ==
  LET expired == IF Usable(k) THEN {k} ELSE {} IN
  /\ reader[r].pc = "idle" /\ ~(Usable(k) /\ Cached(k) /\ cache[k].fresh)
  /\ order' = Without(order, expired)
  /\ cache' = [j \in Key |-> IF j \in expired THEN NoEntry ELSE cache[j]]
  /\ flight' = IF flight[k].pc = "none" THEN [flight EXCEPT ![k].pc = "sent"] ELSE flight
  /\ reader' = [reader EXCEPT ![r] = Starts(r, k)]
  /\ UNCHANGED <<truth, lagging, writer, acked, enabled>>

\* Autotask looks at its data.
Look(k) ==
  /\ flight[k].pc = "sent"
  /\ \E v \in {truth[k]} \cup (IF k \in lagging THEN {0} ELSE {}) :
       flight' = [flight EXCEPT ![k].pc = "looked", ![k].v = v]
  /\ UNCHANGED <<truth, lagging, cache, order, reader, writer, acked, enabled>>

\* Mutant: a miss is cached like any answer.
CacheAll(v) == TRUE
\* isCacheableValue: not a miss, not empty.
Cacheable(v) == v > 0

\* Mutant: one entry too many is kept.
TrimLate(s) == IF Len(s) > MaxEntries + 1 THEN Tail(s) ELSE s
\* A full cache drops its oldest entry.
Trim(s) == IF Len(s) > MaxEntries THEN Tail(s) ELSE s

\* The answer is stored, unless it is too large (MAX_CACHEABLE_BYTES), and given
\* to everyone who waits for it.
Return(k) ==
  LET f == flight[k]
      kept == Trim(IF Cached(k) THEN order ELSE Append(order, k)) IN
  /\ f.pc = "looked"
  /\ \E small \in BOOLEAN :
       IF small /\ Usable(k) /\ Cacheable(f.v)
       THEN /\ order' = kept
            /\ cache' = [j \in Key |->
                 IF \A i \in 1..Len(kept) : kept[i] # j THEN NoEntry
                 ELSE IF j = k THEN [v |-> f.v, fresh |-> TRUE, crossed |-> f.crossed] ELSE cache[j]]
       ELSE UNCHANGED <<order, cache>>
  /\ flight' = [flight EXCEPT ![k] = NoFlight]
  /\ reader' = [r \in Reader |-> IF reader[r].pc = "waiting" /\ reader[r].key = k
                                 THEN [reader[r] EXCEPT !.pc = "done", !.v = f.v] ELSE reader[r]]
  /\ UNCHANGED <<truth, lagging, writer, acked, enabled>>

\* The read fails: its callers get the error, and nothing is stored.
ReadFails(k) ==
  /\ flight[k].pc # "none"
  /\ flight' = [flight EXCEPT ![k] = NoFlight]
  /\ reader' = [r \in Reader |-> IF reader[r].pc = "waiting" /\ reader[r].key = k
                                 THEN NoRead ELSE reader[r]]
  /\ UNCHANGED <<truth, lagging, cache, order, writer, acked, enabled>>

Done(r) ==
  /\ reader[r].pc = "done"
  /\ reader' = [reader EXCEPT ![r] = NoRead]
  /\ UNCHANGED <<truth, lagging, cache, order, flight, writer, acked, enabled>>
-----------------------------------------------------------------------------
(* Writes: request() with another method.                                  *)

SendWrite(x, w) ==
  /\ writer[x].pc = "idle"
  /\ writer' = [writer EXCEPT ![x] = [NoWrite EXCEPT !.pc = "sent", !.route = w]]
  /\ UNCHANGED <<truth, lagging, cache, order, flight, reader, acked, enabled>>

Apply(x) ==
  LET K == Affected(writer[x].route) IN
  /\ writer[x].pc = "sent" /\ \A k \in K : truth[k] < MaxWrites
  /\ truth' = [k \in Key |-> IF k \in K THEN truth[k] + 1 ELSE truth[k]]
  /\ lagging' = lagging \cup {k \in K : truth[k] = 0}
  /\ writer' = [writer EXCEPT ![x].pc = "applied",
                  ![x].made = [k \in Key |-> IF k \in K THEN truth[k] + 1 ELSE 0]]
  /\ UNCHANGED <<cache, order, flight, reader, acked, enabled>>

\* Mutant: only the written entity's own reads are dropped.
OwnOnly(w) == {k \in Key : KeyEntity[k] = w.path}
\* invalidateAfterWrite: what is volatile, and what the path names first.
Invalidated(w) == {k \in Key : k \in Volatile \/ KeyEntity[k] = w.path}

\* The write is acknowledged and the cache invalidated.
Acknowledge(x) ==
  LET K == Invalidated(writer[x].route)  made == writer[x].made IN
  /\ writer[x].pc = "applied"
  /\ order' = Without(order, K)
  /\ cache' = [k \in Key |-> IF k \in K THEN NoEntry ELSE cache[k]]
  /\ acked' = [k \in Key |-> IF made[k] > acked[k] THEN made[k] ELSE acked[k]]
  /\ flight' = [k \in Key |-> IF made[k] > 0 /\ flight[k].pc # "none"
                              THEN [flight[k] EXCEPT !.crossed = TRUE] ELSE flight[k]]
  /\ writer' = [writer EXCEPT ![x] = NoWrite]
  /\ UNCHANGED <<truth, lagging, reader, enabled>>

\* The write is refused, or its answer is lost: nothing is invalidated.
WriteFails(x) ==
  /\ writer[x].pc # "idle"
  /\ writer' = [writer EXCEPT ![x] = NoWrite]
  /\ UNCHANGED <<truth, lagging, cache, order, flight, reader, acked, enabled>>
-----------------------------------------------------------------------------
\* Time: a TTL runs out; Autotask has caught up.  The console's switch.
Age(k) ==
  /\ cache[k].fresh
  /\ cache' = [cache EXCEPT ![k].fresh = FALSE]
  /\ UNCHANGED <<truth, lagging, order, flight, reader, writer, acked, enabled>>
Settle(k) ==
  /\ k \in lagging /\ lagging' = lagging \ {k}
  /\ UNCHANGED <<truth, cache, order, flight, reader, writer, acked, enabled>>
Switch ==
  /\ enabled' = ~enabled
  /\ UNCHANGED <<truth, lagging, cache, order, flight, reader, writer, acked>>

Next ==
  \/ \E r \in Reader : Done(r) \/ \E k \in Key : Hit(r, k) \/ Miss(r, k)
  \/ \E k \in Key : Look(k) \/ Return(k) \/ ReadFails(k) \/ Age(k) \/ Settle(k)
  \/ \E x \in Writer : Apply(x) \/ Acknowledge(x) \/ WriteFails(x) \/ \E w \in Route : SendWrite(x, w)
  \/ Switch

Spec == Init /\ [][Next]_vars

-----------------------------------------------------------------------------
(* Properties.                                                             *)

\* The cache and its order agree, and it never outgrows MAX_ENTRIES.
TypeOK ==
  /\ truth \in [Key -> Version] /\ acked \in [Key -> Version] /\ lagging \subseteq Key
  /\ cache \in [Key -> Entry] /\ flight \in [Key -> Flight] /\ enabled \in BOOLEAN
  /\ \A k \in Key : ~Cached(k) => cache[k] = NoEntry
  /\ Len(order) = Cardinality({k \in Key : Cached(k)}) /\ Len(order) <= MaxEntries

\* Every write of what the key reads names it first, or its reads are volatile.  Tickets
\* and companies are so; contacts and other children are written through their parent.
NamedFirst(k) == \A w \in Route : k \in Affected(w) => k \in Volatile \/ w.path = KeyEntity[k]

\* A usable entry of such a key that is older than an acknowledged write can only come
\* from a read that was out when the write was acknowledged (cachedRead stores what it
\* gets; invalidateAfterWrite drops what is there), whatever else is written.
StaleOnlyIfCrossed ==
  \A k \in Key : NamedFirst(k) /\ cache[k].fresh /\ ~cache[k].crossed => cache[k].v >= acked[k]

\* "Not found" is never cached: a record that is certainly there when a read
\* begins, with nobody reading it, is found.
FoundWhenThere == \A r \in Reader : reader[r].pc = "done" /\ reader[r].sure => reader[r].v > 0
=============================================================================
