-------------------------- MODULE OperationsProofs --------------------------
(***************************************************************************)
(* Proofs about Operations, for any number of attempts, keys and payloads. *)
(*                                                                         *)
(* Base is inductive whatever happens to answers: a row belongs to an      *)
(* attempt that is past its claim, an attempt that runs holds the          *)
(* "running" row of its key, and an "ok" row belongs to an attempt that    *)
(* returned.  Claimed is inductive on top of it, answers lost or not:      *)
(* whoever had a write acknowledged, or returned, keeps the row of its     *)
(* key.  The steps of ClaimedKey follow, and that two writers on a key are *)
(* an unacknowledged one and the retry after it; when what is applied is   *)
(* acknowledged too (Acknowledged), there is one writer.                   *)
(***************************************************************************)
EXTENDS Operations, TLAPS

Unclaimed ==
  \A a \in Attempt, k \in Key :
    call[a].pc \in {"idle", "insert", "select", "delete"} => row[k].op # a
RunsBound ==
  \A a \in Attempt : call[a].pc \in {"run", "finish"} => row[call[a].key].status = "running"
SameAction ==
  \A k \in Key : ~Free(k) => row[k].payload = call[row[k].op].payload
OkReturned ==
  \A k \in Key : ~Free(k) /\ row[k].status = "ok" =>
    call[row[k].op].returned /\ call[row[k].op].pc = "done"
Replayed ==
  \A a \in Attempt : call[a].answer = "replay" =>
    /\ call[a].pc = "done"
    /\ \E b \in Attempt \ {a} : /\ call[b].key = call[a].key /\ call[b].payload = call[a].payload
                                /\ call[b].returned /\ call[b].pc = "done"
Base == TypeOK /\ Unclaimed /\ RunsBound /\ SameAction /\ OkReturned /\ Replayed

\* An attempt that is not past its claim has done nothing, and none has returned
\* before it ends.
Fresh ==
  \A a \in Attempt :
    /\ call[a].pc \in {"idle", "insert", "select", "delete"} => a \notin wrote /\ ~call[a].noted
    /\ call[a].pc \in {"idle", "insert", "select", "delete", "run"} => ~call[a].returned
\* Whoever had a write acknowledged, or returned a result, holds its key under a row
\* that is not released.
Held ==
  \A a \in Attempt : call[a].noted \/ call[a].returned =>
    row[call[a].key].op = a /\ row[call[a].key].status # "error"
Claimed == Fresh /\ Held

\* The default key and payload of a call that has not arrived exist.
LEMMA Defaults == AnyKey \in Key /\ AnyPayload \in Payload
BY OperationsAssumption DEF AnyKey, AnyPayload

\* A new attempt has no row yet, and gets none by arriving (Arrive).
LEMMA ArriveKeeps == ASSUME Base, NEW a \in Attempt, Arrive(a) PROVE Base'
<1>1. PICK k \in Key, p \in Payload :
        call' = [call EXCEPT ![a] = [NotCalled EXCEPT !.pc = "insert", !.key = k, !.payload = p]]
  BY DEF Arrive
<1> DEFINE new == [NotCalled EXCEPT !.pc = "insert", !.key = k, !.payload = p]
<1>2. new \in Call /\ new.pc = "insert" /\ new.answer = "none"
  <2>1. NotCalled \in Call /\ NotCalled.answer = "none"
    BY Defaults DEF NotCalled, Call, Answer
  <2> QED BY <2>1 DEF Call
<1>3. /\ call' = [call EXCEPT ![a] = new] /\ row' = row /\ wrote' = wrote /\ call[a].pc = "idle"
      /\ call \in [Attempt -> Call]
  BY <1>1 DEF Arrive, Base, TypeOK
<1> HIDE DEF new
<1>4. TypeOK'
  BY <1>2, <1>3 DEF Base, TypeOK, Unclaimed, Free, Row, NoRow
<1>5. Unclaimed' /\ RunsBound'
  BY <1>2, <1>3 DEF Base, Unclaimed, RunsBound
<1>6. SameAction' /\ OkReturned'
  BY <1>2, <1>3 DEF Base, Unclaimed, SameAction, OkReturned, Free
<1>7. Replayed'
  BY <1>2, <1>3 DEF Base, Replayed
<1> QED BY <1>4, <1>5, <1>6, <1>7 DEF Base

\* A step that changes only attempt a, not yet bound to its key before or after,
\* keeps Base when it does not answer with a replay.
LEMMA UnboundKeeps ==
  ASSUME Base, NEW a \in Attempt, NEW c \in Call,
         call[a].pc \in {"insert", "select", "delete"},
         call' = [call EXCEPT ![a] = c], UNCHANGED <<row, wrote>>,
         c.pc \in {"insert", "select", "delete", "done"}, c.key = call[a].key,
         c.payload = call[a].payload, c.answer # "replay"
  PROVE  Base'
<1>1. TypeOK'
  BY DEF Base, TypeOK, Unclaimed, Free, Row, NoRow
<1>2. Unclaimed' /\ RunsBound' /\ SameAction' /\ OkReturned'
  BY DEF Base, TypeOK, Unclaimed, RunsBound, SameAction, OkReturned, Free, Row, NoRow
<1>3. Replayed'
  BY DEF Base, TypeOK, Replayed
<1> QED BY <1>1, <1>2, <1>3 DEF Base

\* INSERT binds a free key to the attempt, or sends it on to read the row (Insert).
LEMMA InsertKeeps == ASSUME Base, NEW a \in Attempt, Insert(a) PROVE Base'
<1> DEFINE k == call[a].key
           r == [op |-> a, payload |-> call[a].payload, status |-> "running", stale |-> FALSE]
<1>1. k \in Key /\ call[a] \in Call /\ r \in Row /\ call[a].pc = "insert"
  BY DEF Base, TypeOK, Insert, Call, Row, Status
<1>2. CASE ~Free(k)
  <2> DEFINE c == [call[a] EXCEPT !.pc = "select"]
  <2>1. /\ c \in Call /\ c.pc = "select" /\ c.key = call[a].key
        /\ c.payload = call[a].payload /\ c.answer = call[a].answer
    BY <1>1 DEF Call
  <2>2. call' = [call EXCEPT ![a] = c] /\ UNCHANGED <<row, wrote>>
    BY <1>1, <1>2 DEF Insert, Base, TypeOK
  <2>3. c.answer # "replay"
    BY <1>1, <2>1 DEF Base, Replayed
  <2> HIDE DEF c
  <2> QED BY <1>1, <2>1, <2>2, <2>3, UnboundKeeps
<1>3. CASE Free(k)
  <2>1. PICK c \in Call : /\ call' = [call EXCEPT ![a] = c] /\ c.pc \in {"run", "done"}
                          /\ c.key = k /\ c.payload = call[a].payload /\ c.answer # "replay"
    <3>1. CASE call' = [call EXCEPT ![a].pc = "run"]
      <4> DEFINE c == [call[a] EXCEPT !.pc = "run"]
      <4>1. c \in Call /\ c.pc = "run" /\ c.key = k /\ c.payload = call[a].payload
            /\ c.answer # "replay"
        BY <1>1 DEF Call, Base, Replayed
      <4>2. call' = [call EXCEPT ![a] = c]
        BY <3>1 DEF Base, TypeOK
      <4> QED BY <4>1, <4>2
    <3>2. CASE Answered(a, "error")
      <4> DEFINE c == [call[a] EXCEPT !.pc = "done", !.answer = "error"]
      <4>1. c \in Call /\ c.pc = "done" /\ c.key = k /\ c.payload = call[a].payload
            /\ c.answer # "replay"
        BY <1>1 DEF Call, Answer
      <4>2. call' = [call EXCEPT ![a] = c]
        BY <3>2 DEF Base, TypeOK, Answered
      <4> QED BY <4>1, <4>2
    <3> QED BY <1>3, <3>1, <3>2 DEF Insert
  <2>2. row' = [row EXCEPT ![k] = r] /\ wrote' = wrote
    BY <1>3 DEF Insert
  <2>3. r.op = a /\ r.status = "running" /\ r.payload = call[a].payload
    OBVIOUS
  <2> HIDE DEF r
  <2>4. \A b \in Attempt : b # a /\ call[b].pc \in {"run", "finish"} => call[b].key # k
    BY <1>1, <1>3, OperationsAssumption DEF Base, TypeOK, Free
  <2>5. TypeOK'
    BY <1>1, <2>1, <2>2, <2>3, <2>4 DEF Base, TypeOK, Unclaimed, Free, Row, NoRow
  <2>6. Unclaimed' /\ RunsBound'
    BY <1>1, <2>1, <2>2, <2>3, <2>4 DEF Base, TypeOK, Unclaimed, RunsBound, Row, NoRow
  <2>7. SameAction' /\ OkReturned'
    BY <1>1, <2>1, <2>2, <2>3 DEF Base, TypeOK, Unclaimed, SameAction, OkReturned, Free, Row, NoRow
  <2>8. Replayed'
    BY <1>1, <2>1 DEF Base, TypeOK, Replayed
  <2> QED BY <2>5, <2>6, <2>7, <2>8 DEF Base
<1> QED BY <1>2, <1>3

\* The next round of claim, or giving up (Again) or an error, as a change of one call.
LEMMA AgainIs ==
  ASSUME Base, NEW a \in Attempt, Again(a) \/ Answered(a, "error")
  PROVE  \E c \in Call : /\ call' = [call EXCEPT ![a] = c] /\ c.pc \in {"insert", "done"}
                         /\ c.key = call[a].key /\ c.payload = call[a].payload
                         /\ c.answer \in {call[a].answer, "error"}
<1>1. call[a] \in Call /\ call \in [Attempt -> Call]
  BY DEF Base, TypeOK
<1>2. CASE Answered(a, "error")
  <2> DEFINE c == [call[a] EXCEPT !.pc = "done", !.answer = "error"]
  <2>1. c \in Call /\ c.pc = "done" /\ c.key = call[a].key /\ c.payload = call[a].payload
        /\ c.answer = "error"
    BY <1>1 DEF Call, Answer
  <2>2. call' = [call EXCEPT ![a] = c]
    BY <1>1, <1>2 DEF Answered
  <2> QED BY <2>1, <2>2
<1>3. CASE call' = [call EXCEPT ![a].pc = "insert", ![a].second = TRUE]
  <2> DEFINE c == [call[a] EXCEPT !.pc = "insert", !.second = TRUE]
  <2>1. c \in Call /\ c.pc = "insert" /\ c.key = call[a].key /\ c.payload = call[a].payload
        /\ c.answer = call[a].answer
    BY <1>1 DEF Call
  <2>2. call' = [call EXCEPT ![a] = c]
    BY <1>1, <1>3
  <2> QED BY <2>1, <2>2
<1> QED BY <1>2, <1>3 DEF Again

\* Reading the row answers, moves to the DELETE or tries again; a replay is
\* answered only from the row of the same action that returned (Select).
LEMMA SelectKeeps == ASSUME Base, NEW a \in Attempt, Select(a) PROVE Base'
<1> DEFINE k == call[a].key
           r == row[k]
<1>1. k \in Key /\ call[a] \in Call /\ call[a].pc = "select" /\ UNCHANGED <<row, wrote>>
      /\ call[a].answer # "replay" /\ call \in [Attempt -> Call]
  BY DEF Base, TypeOK, Select, Call, Replayed
<1>2. CASE Free(k)
  <2>1. PICK c \in Call : /\ call' = [call EXCEPT ![a] = c] /\ c.pc \in {"insert", "done"}
                          /\ c.key = call[a].key /\ c.payload = call[a].payload
                          /\ c.answer \in {call[a].answer, "error"}
    BY <1>2, AgainIs DEF Select
  <2> QED BY <1>1, <2>1, UnboundKeeps
<1>3. CASE ~Free(k) /\ Releases(r)
  <2> DEFINE c == [call[a] EXCEPT !.pc = "delete", !.seen = r.op]
  <2>1. r \in Row
    BY <1>1, <1>3 DEF Base, TypeOK, Free, NoRow
  <2>2. c \in Call /\ c.pc = "delete" /\ c.key = call[a].key /\ c.payload = call[a].payload
        /\ c.answer = call[a].answer
    BY <1>1, <2>1 DEF Call, Row
  <2>3. call' = [call EXCEPT ![a] = c]
    BY <1>1, <1>3 DEF Select
  <2> HIDE DEF c
  <2> QED BY <1>1, <2>2, <2>3, UnboundKeeps
<1>4. CASE ~Free(k) /\ ~Releases(r)
  <2> DEFINE x == Refusal(r, call[a].payload)
             c == [call[a] EXCEPT !.pc = "done", !.answer = x]
  <2>1. x \in {"conflict", "replay", "partial", "incomplete", "in_progress"}
    BY DEF Refusal
  <2>2. c \in Call /\ c.pc = "done" /\ c.key = k /\ c.payload = call[a].payload /\ c.answer = x
    BY <1>1, <2>1 DEF Call, Answer
  <2>3. call' = [call EXCEPT ![a] = c]
    BY <1>1, <1>4 DEF Select, Answered
  <2>4. CASE x # "replay"
    <3> HIDE DEF c, x
    <3> QED BY <1>1, <2>2, <2>3, <2>4, UnboundKeeps
  <2>5. CASE x = "replay"
    <3>1. r.status = "ok" /\ r.payload = call[a].payload
      BY <2>5 DEF Refusal, SamePayload
    <3>2. r.op \in Attempt /\ r.op # a
      BY <1>1, <1>4 DEF Base, TypeOK, Unclaimed, Free, NoRow, Row
    <3>3. /\ call[r.op].key = k /\ call[r.op].payload = call[a].payload
          /\ call[r.op].returned /\ call[r.op].pc = "done"
      BY <1>1, <1>4, <3>1 DEF Base, TypeOK, SameAction, OkReturned
    <3> HIDE DEF c, x
    <3>4. TypeOK'
      BY <1>1, <2>2, <2>3 DEF Base, TypeOK, Unclaimed, Free, Row, NoRow
    <3>5. Unclaimed' /\ RunsBound' /\ SameAction' /\ OkReturned'
      BY <1>1, <2>2, <2>3
      DEF Base, TypeOK, Unclaimed, RunsBound, SameAction, OkReturned, Free, Row, NoRow
    <3>6. Replayed'
      BY <1>1, <2>2, <2>3, <3>2, <3>3 DEF Base, TypeOK, Replayed
    <3> QED BY <3>4, <3>5, <3>6 DEF Base
  <2> QED BY <2>4, <2>5
<1> QED BY <1>2, <1>3, <1>4

\* A key is released when its row still is the failed one that was seen (Delete).
LEMMA DeleteKeeps == ASSUME Base, NEW a \in Attempt, Delete(a) PROVE Base'
<1> DEFINE k == call[a].key
<1>1. k \in Key /\ call[a] \in Call /\ call[a].pc = "delete" /\ wrote' = wrote
      /\ call[a].answer # "replay"
  BY DEF Base, TypeOK, Delete, Call, Replayed
<1>2. PICK c \in Call : /\ call' = [call EXCEPT ![a] = c] /\ c.pc \in {"insert", "done"}
                        /\ c.key = call[a].key /\ c.payload = call[a].payload
                        /\ c.answer \in {call[a].answer, "error"}
  BY AgainIs DEF Delete
<1>3. CASE row' = row
  BY <1>1, <1>2, <1>3, UnboundKeeps
<1>4. CASE row' = [row EXCEPT ![k] = NoRow] /\ Releases(row[k])
  <2>1. \A b \in Attempt : call[b].pc \in {"run", "finish"} => call[b].key # k
    BY <1>4 DEF Base, RunsBound, Releases
  <2>2. NoRow.op = Nobody
    BY DEF NoRow
  <2>3. TypeOK'
    BY <1>1, <1>2, <1>4, <2>1, <2>2 DEF Base, TypeOK, Unclaimed, Free, Row
  <2>4. Unclaimed' /\ RunsBound'
    BY <1>1, <1>2, <1>4, <2>1, <2>2, OperationsAssumption
    DEF Base, TypeOK, Unclaimed, RunsBound, Row
  <2>5. SameAction' /\ OkReturned'
    BY <1>1, <1>2, <1>4, <2>2 DEF Base, TypeOK, Unclaimed, SameAction, OkReturned, Free, Row
  <2>6. Replayed'
    BY <1>1, <1>2 DEF Base, TypeOK, Replayed
  <2> QED BY <2>3, <2>4, <2>5, <2>6 DEF Base
<1> QED BY <1>3, <1>4 DEF Delete, Deletes

\* So does a step of an attempt that runs, or is given up, and leaves the rows alone.
LEMMA BoundKeeps ==
  ASSUME Base, NEW a \in Attempt, NEW c \in Call,
         call[a].pc \notin {"idle", "done"}, call' = [call EXCEPT ![a] = c],
         row' = row, wrote' \subseteq Attempt, c.key = call[a].key,
         c.payload = call[a].payload, c.answer # "replay",
         c.pc = "done" \/ (call[a].pc = "run" /\ c.pc \in {"run", "finish"})
  PROVE  Base'
<1>1. TypeOK'
  BY DEF Base, TypeOK, Unclaimed, Free, Row, NoRow
<1>2. Unclaimed' /\ RunsBound' /\ SameAction' /\ OkReturned'
  BY DEF Base, TypeOK, Unclaimed, RunsBound, SameAction, OkReturned, Free, Row, NoRow
<1>3. Replayed'
  BY DEF Base, TypeOK, Replayed
<1> QED BY <1>1, <1>2, <1>3 DEF Base

\* Giving up (ClaimFails, Crash), writing and ending a call are such steps.
LEMMA RunKeeps ==
  ASSUME Base, NEW a \in Attempt,
         ClaimFails(a) \/ Crash(a) \/ Write(a) \/ WriteLost(a) \/ End(a)
  PROVE  Base'
<1>1. call[a] \in Call /\ call \in [Attempt -> Call] /\ wrote \subseteq Attempt
  BY DEF Base, TypeOK
<1>2. CASE ClaimFails(a) \/ Crash(a)
  <2>1. PICK x \in {"error", "none"} :
          Answered(a, x) /\ UNCHANGED <<row, wrote>> /\ call[a].pc \notin {"idle", "done"}
    BY <1>2 DEF ClaimFails, Crash
  <2> DEFINE c == [call[a] EXCEPT !.pc = "done", !.answer = x]
  <2>2. c \in Call /\ c.pc = "done" /\ c.key = call[a].key /\ c.payload = call[a].payload
        /\ c.answer = x
    BY <1>1 DEF Call, Answer
  <2>3. call' = [call EXCEPT ![a] = c]
    BY <1>1, <2>1 DEF Answered
  <2> HIDE DEF c
  <2> QED BY <1>1, <2>1, <2>2, <2>3, BoundKeeps
<1>3. CASE Write(a)
  <2> DEFINE c == [call[a] EXCEPT !.noted = TRUE]
  <2>1. c \in Call /\ c.pc = call[a].pc /\ c.key = call[a].key /\ c.payload = call[a].payload
        /\ c.answer = call[a].answer
    BY <1>1 DEF Call
  <2>2. call' = [call EXCEPT ![a] = c] /\ call[a].pc = "run" /\ row' = row
        /\ wrote' \subseteq Attempt
    BY <1>1, <1>3 DEF Write
  <2>3. c.answer # "replay"
    BY <2>1, <2>2 DEF Base, Replayed
  <2> HIDE DEF c
  <2> QED BY <2>1, <2>2, <2>3, BoundKeeps
<1>4. CASE WriteLost(a) \/ End(a)
  <2>1. PICK c \in Call : /\ call' = [call EXCEPT ![a] = c] /\ c.pc = "finish"
                          /\ c.key = call[a].key /\ c.payload = call[a].payload
                          /\ c.answer = call[a].answer
    <3>1. CASE WriteLost(a)
      <4> DEFINE c == [call[a] EXCEPT !.pc = "finish"]
      <4>1. c \in Call /\ c.pc = "finish" /\ c.key = call[a].key /\ c.payload = call[a].payload
            /\ c.answer = call[a].answer
        BY <1>1 DEF Call
      <4>2. call' = [call EXCEPT ![a] = c]
        BY <1>1, <3>1 DEF WriteLost
      <4> QED BY <4>1, <4>2
    <3>2. CASE End(a)
      <4>0. PICK back \in BOOLEAN :
              call' = [call EXCEPT ![a].pc = "finish", ![a].returned = back]
        BY <3>2 DEF End
      <4> DEFINE c == [call[a] EXCEPT !.pc = "finish", !.returned = back]
      <4>1. c \in Call /\ c.pc = "finish" /\ c.key = call[a].key /\ c.payload = call[a].payload
            /\ c.answer = call[a].answer
        BY <1>1 DEF Call
      <4>2. call' = [call EXCEPT ![a] = c]
        BY <1>1, <4>0
      <4> QED BY <4>1, <4>2
    <3> QED BY <1>4, <3>1, <3>2
  <2>2. call[a].pc = "run" /\ row' = row /\ wrote' \subseteq Attempt
    BY <1>1, <1>4 DEF WriteLost, End
  <2>3. c.answer # "replay"
    BY <2>1, <2>2 DEF Base, Replayed
  <2> QED BY <2>1, <2>2, <2>3, BoundKeeps
<1> QED BY <1>2, <1>3, <1>4

\* The outcome goes to the row of the attempt that ran, "ok" only if it returned.
LEMMA FinishKeeps == ASSUME Base, NEW a \in Attempt, Finish(a) PROVE Base'
<1> DEFINE k == call[a].key
           out == Outcome(call[a].returned, call[a].noted)
<1>1. k \in Key /\ call[a] \in Call /\ call[a].pc = "finish" /\ wrote' = wrote
      /\ call \in [Attempt -> Call] /\ row[k].op = a
  BY DEF Base, TypeOK, Finish, Call
<1>2. out \in {"ok", "partial", "error"} /\ (out = "ok" => call[a].returned)
  BY DEF Outcome
<1>3. PICK x \in {out, "none"} : Answered(a, x)
  BY DEF Finish
<1> DEFINE c == [call[a] EXCEPT !.pc = "done", !.answer = x]
<1>4. c \in Call /\ c.pc = "done" /\ c.key = k /\ c.payload = call[a].payload
      /\ c.returned = call[a].returned /\ c.answer # "replay"
  BY <1>1, <1>2 DEF Call, Answer
<1>5. call' = [call EXCEPT ![a] = c]
  BY <1>1, <1>3 DEF Answered
<1> HIDE DEF c, out
<1>6. CASE row' = row
  BY <1>1, <1>4, <1>5, <1>6, BoundKeeps DEF Base, TypeOK
<1>7. CASE row' = [row EXCEPT ![k].status = out]
  <2>1. row[k] \in Row
    BY <1>1, OperationsAssumption DEF Base, TypeOK, NoRow
  <2> DEFINE r == [row[k] EXCEPT !.status = out]
  <2>2. r \in Row /\ r.op = a /\ r.payload = row[k].payload /\ r.status = out
    BY <1>1, <1>2, <2>1 DEF Row, Status
  <2>3. row' = [row EXCEPT ![k] = r]
    BY <1>1, <1>7 DEF Base, TypeOK
  <2> HIDE DEF r
  <2>4. \A b \in Attempt : b # a /\ call[b].pc \in {"run", "finish"} => call[b].key # k
    BY <1>1 DEF Base, TypeOK
  <2>5. TypeOK'
    BY <1>1, <1>4, <1>5, <2>2, <2>3, <2>4 DEF Base, TypeOK, Unclaimed, Free, Row, NoRow
  <2>6. Unclaimed' /\ RunsBound'
    BY <1>1, <1>4, <1>5, <2>2, <2>3, <2>4 DEF Base, TypeOK, Unclaimed, RunsBound, Row, NoRow
  <2>7. SameAction' /\ OkReturned'
    BY <1>1, <1>2, <1>4, <1>5, <2>2, <2>3, OperationsAssumption
    DEF Base, TypeOK, Unclaimed, SameAction, OkReturned, Free, Row, NoRow
  <2>8. Replayed'
    BY <1>1, <1>4, <1>5 DEF Base, TypeOK, Replayed
  <2> QED BY <2>5, <2>6, <2>7, <2>8 DEF Base
<1> QED BY <1>1, <1>6, <1>7 DEF Finish, out

\* A running row that gets old stays a running row.
LEMMA StaleKeeps == ASSUME Base, NEW k \in Key, GetsStale(k) PROVE Base'
<1> DEFINE r == [row[k] EXCEPT !.stale = TRUE]
<1>1. row[k] \in Row /\ UNCHANGED <<call, wrote>>
  BY DEF GetsStale, Base, TypeOK, Free, NoRow
<1>2. r \in Row /\ r.op = row[k].op /\ r.payload = row[k].payload /\ r.status = row[k].status
  BY <1>1 DEF Row
<1>3. row' = [row EXCEPT ![k] = r]
  BY DEF GetsStale, Base, TypeOK
<1> HIDE DEF r
<1>4. TypeOK'
  BY <1>1, <1>2, <1>3 DEF Base, TypeOK, Free, Row, NoRow
<1>5. Unclaimed' /\ RunsBound' /\ SameAction' /\ OkReturned'
  BY <1>1, <1>2, <1>3 DEF Base, TypeOK, Unclaimed, RunsBound, SameAction, OkReturned, Free, Row, NoRow
<1>6. Replayed'
  BY <1>1 DEF Base, Replayed
<1> QED BY <1>4, <1>5, <1>6 DEF Base

LEMMA InitBase == Init => Base
<1> SUFFICES ASSUME Init PROVE Base
  OBVIOUS
<1>1. NotCalled \in Call /\ NotCalled.pc = "idle" /\ NotCalled.answer = "none"
  BY Defaults DEF NotCalled, Call, Answer
<1>2. NoRow.op = Nobody /\ Nobody \notin Attempt
  BY OperationsAssumption DEF NoRow
<1>3. TypeOK
  BY <1>1, <1>2 DEF Init, TypeOK, Free
<1>4. Unclaimed /\ RunsBound /\ SameAction /\ OkReturned /\ Replayed
  BY <1>1, <1>2 DEF Init, Unclaimed, RunsBound, SameAction, OkReturned, Replayed, Free
<1> QED BY <1>3, <1>4 DEF Base

LEMMA NextBase == Base /\ [Next]_vars => Base'
<1> SUFFICES ASSUME Base, [Next]_vars PROVE Base'
  OBVIOUS
<1>1. CASE \E a \in Attempt : Arrive(a) \/ Claim(a) \/ Run(a) \/ Crash(a)
  BY <1>1, ArriveKeeps, InsertKeeps, SelectKeeps, DeleteKeeps, RunKeeps, FinishKeeps DEF Claim, Run
<1>2. CASE \E k \in Key : GetsStale(k)
  BY <1>2, StaleKeeps
<1>3. CASE UNCHANGED vars
  BY <1>3 DEF vars, Base, TypeOK, Unclaimed, RunsBound, SameAction, OkReturned, Replayed, Free
<1> QED BY <1>1, <1>2, <1>3 DEF Next

LEMMA BaseHolds == Spec => []Base
BY InitBase, NextBase, PTL DEF Spec

\* Rows and attempts keep their types and an attempt that runs holds its key,
\* for any number of attempts, keys and payloads.
THEOREM TypeCorrect == Spec => []TypeOK
<1>1. Base => TypeOK
  BY DEF Base
<1> QED BY <1>1, BaseHolds, PTL

\* A replayed result is one that an attempt at the same action returned,
\* whatever crashed and whatever answers were lost.
THEOREM Replays == Spec => []ReplayIsTheSame
<1>1. Base => ReplayIsTheSame
  BY DEF Base, Replayed, ReplayIsTheSame
<1> QED BY <1>1, BaseHolds, PTL

\* One step keeps the rows of those whose write was acknowledged or who returned.
LEMMA NextClaimed == Base /\ Claimed /\ [Next]_vars => Claimed'
<1> SUFFICES ASSUME Base, Claimed, [Next]_vars PROVE Claimed'
  OBVIOUS
<1> USE DEF Base, TypeOK
<1>1. CASE UNCHANGED vars
  BY <1>1 DEF vars, Claimed, Fresh, Held
<1>2. ASSUME NEW k \in Key, GetsStale(k) PROVE Claimed'
  BY <1>2 DEF GetsStale, Claimed, Fresh, Held, Free, Row, NoRow
<1>3. ASSUME NEW a \in Attempt, Arrive(a) PROVE Claimed'
  BY <1>3 DEF Arrive, Claimed, Fresh, Held, NotCalled
<1>4. ASSUME NEW a \in Attempt, Insert(a) PROVE Claimed'
  BY <1>4, OperationsAssumption DEF Insert, Claimed, Fresh, Held, Free, Answered, Call
<1>5. ASSUME NEW a \in Attempt, Select(a) PROVE Claimed'
  BY <1>5 DEF Select, Claimed, Fresh, Held, Again, Answered, Call
<1>6. ASSUME NEW a \in Attempt, Delete(a) PROVE Claimed'
  BY <1>6 DEF Delete, Claimed, Fresh, Held, Again, Answered, Deletes, Releases, Call
<1>7. ASSUME NEW a \in Attempt, ClaimFails(a) \/ Crash(a) PROVE Claimed'
  <2>1. PICK x : Answered(a, x) /\ UNCHANGED <<row, wrote>> /\ call[a].pc # "idle"
    BY <1>7 DEF ClaimFails, Crash
  <2> QED BY <1>7, <2>1 DEF Claimed, Fresh, Held, Answered, ClaimFails, Crash, Call
<1>8. ASSUME NEW a \in Attempt, Write(a) PROVE Claimed'
  BY <1>8 DEF Write, Claimed, Fresh, Held, RunsBound, Call
<1>9. ASSUME NEW a \in Attempt, WriteLost(a) \/ End(a) PROVE Claimed'
  BY <1>9 DEF WriteLost, End, Claimed, Fresh, Held, RunsBound, Call
<1>10. ASSUME NEW a \in Attempt, Finish(a) PROVE Claimed'
  BY <1>10, OperationsAssumption
  DEF Finish, Claimed, Fresh, Held, Answered, Outcome, Call, Row, NoRow
<1> QED BY <1>1, <1>2, <1>3, <1>4, <1>5, <1>6, <1>7, <1>8, <1>9, <1>10 DEF Next, Claim, Run

LEMMA ClaimedHolds == Spec => [](Base /\ Claimed)
<1>1. Init => Claimed
  BY DEF Init, Claimed, Fresh, Held, NotCalled
<1>2. Base /\ Claimed /\ [Next]_vars => Base' /\ Claimed'
  BY NextBase, NextClaimed
<1> QED BY <1>1, <1>2, InitBase, PTL DEF Spec

\* Whatever answers are lost, at most one of the attempts at one logical action has a
\* write acknowledged or returns a result: two writers on a key are an unacknowledged
\* one and the retry after it.
OneAcknowledged ==
  \A a, b \in Attempt :
    /\ call[a].noted \/ call[a].returned
    /\ call[b].noted \/ call[b].returned
    /\ call[a].key = call[b].key
    => a = b

\* A write that was not acknowledged is the only way to a second writer (claim, finish).
THEOREM OnlyLostAnswersRepeat == Spec => []OneAcknowledged
<1>1. Claimed => OneAcknowledged
  BY DEF Claimed, Held, OneAcknowledged
<1> QED BY <1>1, ClaimedHolds, PTL

\* After an acknowledged write, or a result, no other attempt at the action starts to
\* write, whatever crashes, failed queries and lost answers there are.
NoneWritesAfter ==
  [][\A a \in wrote' \ wrote, b \in Attempt :
       /\ call[b].noted \/ call[b].returned
       /\ call[a].key = call[b].key
       => a = b]_vars

\* Who starts to write holds its key, and so does whoever had a write acknowledged.
THEOREM AcknowledgedIsLast == Spec => NoneWritesAfter
<1> DEFINE Last == \A a \in wrote' \ wrote, b \in Attempt :
                     /\ call[b].noted \/ call[b].returned
                     /\ call[a].key = call[b].key
                     => a = b
<1>1. Base /\ Claimed /\ [Next]_vars => [Last]_vars
  <2> SUFFICES ASSUME Base, Claimed, Next, NEW a \in wrote' \ wrote, NEW b \in Attempt,
                      call[b].noted \/ call[b].returned, call[a].key = call[b].key
               PROVE  a = b
    OBVIOUS
  <2>1. a \in Attempt /\ call[a].pc = "run"
    BY DEF Next, Claim, Run, Arrive, Insert, Select, Delete, ClaimFails, Write, WriteLost, End,
           Finish, Crash, GetsStale
  <2> QED BY <2>1 DEF Base, TypeOK, Claimed, Held
<1> QED BY <1>1, ClaimedHolds, PTL DEF NoneWritesAfter, Spec
-----------------------------------------------------------------------------
(* When every write that is applied is also acknowledged.                  *)

\* Every write is noted.
Acknowledged == \A a \in wrote : call[a].noted

LEMMA NextAcknowledged ==
  ~AnswersLost /\ Base /\ Claimed /\ Acknowledged /\ [Next]_vars => Acknowledged'
<1> SUFFICES ASSUME ~AnswersLost, Base, Claimed, Acknowledged, [Next]_vars PROVE Acknowledged'
  OBVIOUS
<1> USE DEF Base, TypeOK, Acknowledged
<1>1. CASE UNCHANGED <<call, wrote>>
  BY <1>1
<1>2. ASSUME NEW a \in Attempt, Arrive(a) PROVE Acknowledged'
  BY <1>2 DEF Arrive, Claimed, Fresh
<1>3. ASSUME NEW a \in Attempt, Claim(a) \/ Crash(a) \/ Finish(a) PROVE Acknowledged'
  <2>1. ASSUME NEW x, Answered(a, x), wrote' = wrote PROVE Acknowledged'
    BY <2>1 DEF Answered, Call
  <2>2. CASE Insert(a) \/ Select(a)
    BY <2>1, <2>2 DEF Insert, Select, Again, Answered, Call
  <2>3. CASE Delete(a)
    BY <2>1, <2>3 DEF Delete, Again, Call
  <2>4. CASE ClaimFails(a) \/ Crash(a) \/ Finish(a)
    BY <2>1, <2>4 DEF ClaimFails, Crash, Finish
  <2> QED BY <1>3, <2>2, <2>3, <2>4 DEF Claim
<1>4. ASSUME NEW a \in Attempt, Write(a) \/ WriteLost(a) \/ End(a) PROVE Acknowledged'
  BY <1>4 DEF Write, WriteLost, End, Call
<1> QED BY <1>1, <1>2, <1>3, <1>4 DEF Next, Run, GetsStale, vars

LEMMA AcknowledgedHolds ==
  ASSUME ~AnswersLost PROVE Spec => [](Base /\ Claimed /\ Acknowledged)
<1>1. Init => Claimed /\ Acknowledged
  BY DEF Init, Claimed, Fresh, Held, NotCalled, Acknowledged
<1>2. Base /\ Claimed /\ Acknowledged /\ [Next]_vars => Base' /\ Claimed' /\ Acknowledged'
  BY NextBase, NextClaimed, NextAcknowledged
<1> QED BY <1>1, <1>2, InitBase, PTL DEF Spec

\* When every write that Autotask applies is acknowledged, one logical action
\* is written once, however many attempts there are at it.
THEOREM OneWriter == ASSUME ~AnswersLost PROVE Spec => []WrittenOnce
<1>1. Base /\ Claimed /\ Acknowledged => WrittenOnce
  BY DEF Base, TypeOK, Claimed, Held, Acknowledged, WrittenOnce
<1> QED BY <1>1, AcknowledgedHolds, PTL

\* When every applied write is acknowledged, no key is released that an
\* attempt has written under.
THEOREM NeverReleased == ASSUME ~AnswersLost PROVE Spec => ReleasedIsClean
<1> DEFINE Clean == \A k \in Key : ~Free(k) /\ row'[k].op # row[k].op => row[k].op \notin wrote
<1>1. Base /\ Claimed /\ Acknowledged /\ [Next]_vars => [Clean]_vars
  <2> SUFFICES ASSUME Base, Claimed, Acknowledged, Next, NEW k \in Key, ~Free(k),
                      row'[k].op # row[k].op
               PROVE  row[k].op \notin wrote
    OBVIOUS
  <2> USE DEF Base, TypeOK
  <2>1. ASSUME NEW j \in Key, GetsStale(j) PROVE FALSE
    BY <2>1 DEF GetsStale, Free, Row, NoRow
  <2>2. ASSUME NEW a \in Attempt, Insert(a) PROVE FALSE
    BY <2>2 DEF Insert, Free
  <2>3. ASSUME NEW a \in Attempt, Delete(a) PROVE row[k].op \notin wrote
    BY <2>3 DEF Delete, Deletes, Releases, Claimed, Held, Acknowledged
  <2>4. ASSUME NEW a \in Attempt, Finish(a) PROVE FALSE
    BY <2>4 DEF Finish, Free, Row, NoRow
  <2>5. ASSUME NEW a \in Attempt,
               Arrive(a) \/ Select(a) \/ ClaimFails(a) \/ Crash(a) \/ Write(a) \/ WriteLost(a) \/ End(a)
        PROVE  FALSE
    BY <2>5 DEF Arrive, Select, ClaimFails, Crash, Write, WriteLost, End
  <2> QED BY <2>1, <2>2, <2>3, <2>4, <2>5 DEF Next, Claim, Run
<1> QED BY <1>1, AcknowledgedHolds, PTL DEF ReleasedIsClean, Spec
-----------------------------------------------------------------------------
(* Operations implements ClaimedKey.                                       *)

Noted == {a \in Attempt : call[a].noted}
Returned == {a \in Attempt : call[a].returned}
Repeated == {a \in Attempt : call[a].answer = "replay"}
Holder == [k \in Key |-> row[k].op]

\* A call that changes without noting, returning or repeating anything.
LEMMA OneCallQuiet ==
  ASSUME Base, NEW a \in Attempt, NEW c \in Call, call' = [call EXCEPT ![a] = c],
         c.noted = call[a].noted, c.returned = call[a].returned,
         c.answer = "replay" <=> call[a].answer = "replay"
  PROVE  Noted' = Noted /\ Returned' = Returned /\ Repeated' = Repeated
BY DEF Base, TypeOK, Noted, Returned, Repeated

\* An attempt that is answered anything but a replay.
LEMMA AnsweredQuiet ==
  ASSUME Base, NEW a \in Attempt, call[a].pc # "done", NEW x \in Answer \ {"replay"},
         Answered(a, x)
  PROVE  Noted' = Noted /\ Returned' = Returned /\ Repeated' = Repeated
<1> DEFINE c == [call[a] EXCEPT !.pc = "done", !.answer = x]
<1>1. call[a] \in Call /\ call[a].answer # "replay"
  BY DEF Base, TypeOK, Replayed
<1>2. c \in Call /\ c.noted = call[a].noted /\ c.returned = call[a].returned /\ c.answer = x
  BY <1>1 DEF Call
<1>3. call' = [call EXCEPT ![a] = c]
  BY DEF Base, TypeOK, Answered
<1> HIDE DEF c
<1> QED BY <1>1, <1>2, <1>3, OneCallQuiet

\* So is the next round of claim, or giving up.
LEMMA AgainQuiet ==
  ASSUME Base, NEW a \in Attempt, Again(a) \/ Answered(a, "error")
  PROVE  \E c \in Call : /\ call' = [call EXCEPT ![a] = c] /\ c.noted = call[a].noted
                         /\ c.returned = call[a].returned
                         /\ c.answer \in {call[a].answer, "error"}
<1>1. call[a] \in Call /\ call \in [Attempt -> Call]
  BY DEF Base, TypeOK
<1>2. CASE Answered(a, "error")
  <2> DEFINE c == [call[a] EXCEPT !.pc = "done", !.answer = "error"]
  <2>1. c \in Call /\ c.noted = call[a].noted /\ c.returned = call[a].returned
        /\ c.answer = "error"
    BY <1>1 DEF Call, Answer
  <2>2. call' = [call EXCEPT ![a] = c]
    BY <1>1, <1>2 DEF Answered
  <2> QED BY <2>1, <2>2
<1>3. CASE call' = [call EXCEPT ![a].pc = "insert", ![a].second = TRUE]
  <2> DEFINE c == [call[a] EXCEPT !.pc = "insert", !.second = TRUE]
  <2>1. c \in Call /\ c.noted = call[a].noted /\ c.returned = call[a].returned
        /\ c.answer = call[a].answer
    BY <1>1 DEF Call
  <2>2. call' = [call EXCEPT ![a] = c]
    BY <1>1, <1>3
  <2> QED BY <2>1, <2>2
<1> QED BY <1>2, <1>3 DEF Again

\* Every step of Operations is a step of ClaimedKey or leaves its variables alone.
LEMMA StepKeepsPromise == Base /\ Claimed /\ [Next]_vars => [Promise!Next]_(Promise!vars)
<1> SUFFICES ASSUME Base, Claimed, [Next]_vars PROVE [Promise!Next]_(Promise!vars)
  OBVIOUS
<1>0. row \in [Key -> Row \cup {NoRow}] /\ call \in [Attempt -> Call] /\ wrote \subseteq Attempt
  BY DEF Base, TypeOK
<1> DEFINE Quiet == Noted' = Noted /\ Returned' = Returned /\ Repeated' = Repeated
<1>1. ASSUME Holder' = Holder, wrote' = wrote, Quiet PROVE UNCHANGED Promise!vars
  BY <1>1 DEF Promise!vars, Noted, Returned, Repeated, Holder
<1>2. \A a \in Attempt : Promise!Holds(a) <=> \E k \in Key : row[k].op = a
  BY DEF Promise!Holds
<1>3. \A a \in Attempt : call[a].pc \in {"run", "finish"} => call[a].key \in Key /\ Promise!Holds(a)
  BY <1>0, <1>2 DEF Base, TypeOK, Call
<1>4. CASE UNCHANGED vars
  BY <1>1, <1>4 DEF vars, Noted, Returned, Repeated, Holder
<1>5. ASSUME NEW k \in Key, GetsStale(k) PROVE UNCHANGED Promise!vars
  <2>1. UNCHANGED <<call, wrote>> /\ Quiet
    BY <1>5 DEF GetsStale, Noted, Returned, Repeated
  <2>2. row[k] \in Row
    BY <1>0, <1>5 DEF GetsStale, Free, NoRow
  <2>3. Holder' = Holder
    BY <1>0, <1>5, <2>2 DEF GetsStale, Holder, Row
  <2> QED BY <1>1, <2>1, <2>3
<1>6. ASSUME NEW a \in Attempt, Arrive(a) PROVE UNCHANGED Promise!vars
  <2>1. PICK k \in Key, p \in Payload :
          call' = [call EXCEPT ![a] = [NotCalled EXCEPT !.pc = "insert", !.key = k, !.payload = p]]
    BY <1>6 DEF Arrive
  <2> DEFINE new == [NotCalled EXCEPT !.pc = "insert", !.key = k, !.payload = p]
  <2>2. NotCalled \in Call /\ ~NotCalled.noted /\ ~NotCalled.returned /\ NotCalled.answer = "none"
    BY Defaults DEF NotCalled, Call, Answer
  <2>3. new \in Call /\ ~new.noted /\ ~new.returned /\ new.answer = "none"
    BY <2>2 DEF Call
  <2>4. ~call[a].noted /\ ~call[a].returned /\ call[a].answer # "replay"
    BY <1>6 DEF Arrive, Claimed, Fresh, Base, Replayed
  <2>5. call' = [call EXCEPT ![a] = new] /\ UNCHANGED <<row, wrote>>
    BY <1>6, <2>1 DEF Arrive
  <2>6. new.noted = call[a].noted /\ new.returned = call[a].returned
    BY <1>0, <2>3, <2>4 DEF Call
  <2> HIDE DEF new
  <2>7. Quiet
    BY <2>3, <2>4, <2>5, <2>6, OneCallQuiet
  <2> QED BY <1>1, <2>5, <2>7 DEF Holder
<1>7. ASSUME NEW a \in Attempt, ClaimFails(a) \/ Crash(a) PROVE UNCHANGED Promise!vars
  <2>1. PICK x \in {"error", "none"} :
          Answered(a, x) /\ UNCHANGED <<row, wrote>> /\ call[a].pc # "done"
    BY <1>7 DEF ClaimFails, Crash
  <2>2. Quiet
    BY <2>1, AnsweredQuiet DEF Answer
  <2> QED BY <1>1, <2>1, <2>2 DEF Holder
<1>8. ASSUME NEW a \in Attempt, Insert(a) PROVE [Promise!Next]_(Promise!vars)
  <2>1. call[a].pc = "insert" /\ call[a].key \in Key /\ wrote' = wrote
    BY <1>0, <1>8 DEF Insert, Call
  <2>2. Quiet
    <3>1. CASE Answered(a, "error")
      BY <2>1, <3>1, AnsweredQuiet DEF Answer
    <3>2. ASSUME NEW pc \in {"run", "select"}, call' = [call EXCEPT ![a].pc = pc] PROVE Quiet
      <4> DEFINE c == [call[a] EXCEPT !.pc = pc]
      <4>1. c \in Call /\ c.noted = call[a].noted /\ c.returned = call[a].returned
            /\ c.answer = call[a].answer
        BY <1>0 DEF Call
      <4>2. call' = [call EXCEPT ![a] = c]
        BY <1>0, <3>2
      <4> HIDE DEF c
      <4> QED BY <4>1, <4>2, OneCallQuiet
    <3> QED BY <1>8, <3>1, <3>2 DEF Insert
  <2>3. CASE ~Free(call[a].key)
    BY <1>1, <1>8, <2>1, <2>2, <2>3 DEF Insert, Holder
  <2>4. CASE Free(call[a].key)
    <3>0. PICK k \in Key : k = call[a].key
      BY <2>1
    <3>1. Holder' = [Holder EXCEPT ![k] = a] /\ Holder[k] = Nobody
      BY <1>0, <1>8, <2>1, <2>4, <3>0 DEF Insert, Holder, Free
    <3>2. ~Promise!Holds(a) /\ a \notin wrote \cup Returned \cup Repeated
      BY <1>2, <2>1 DEF Base, Unclaimed, Replayed, Claimed, Fresh, Returned, Repeated
    <3>3. Promise!Take(a, k)
      BY <2>1, <2>2, <3>1, <3>2 DEF Promise!Take, Noted, Returned, Repeated, Holder
    <3> QED BY <3>3 DEF Promise!Next
  <2> QED BY <2>3, <2>4
<1>9. ASSUME NEW a \in Attempt, Select(a) PROVE [Promise!Next]_(Promise!vars)
  <2> DEFINE k == call[a].key
             r == row[k]
  <2>1. call[a].pc = "select" /\ k \in Key /\ UNCHANGED <<row, wrote>> /\ call[a] \in Call
        /\ Holder' = Holder
    BY <1>0, <1>9 DEF Select, Call, Holder
  <2>2. CASE Quiet
    BY <1>1, <2>1, <2>2
  <2>3. CASE Free(k)
    <3>1. PICK c \in Call : /\ call' = [call EXCEPT ![a] = c] /\ c.noted = call[a].noted
                            /\ c.returned = call[a].returned /\ c.answer \in {call[a].answer, "error"}
      BY <1>9, <2>3, AgainQuiet DEF Select
    <3> QED BY <2>1, <2>2, <3>1, OneCallQuiet DEF Base, Replayed
  <2>4. CASE ~Free(k) /\ Releases(r)
    <3> DEFINE c == [call[a] EXCEPT !.pc = "delete", !.seen = r.op]
    <3>1. r \in Row
      BY <1>0, <2>1, <2>4 DEF Free, NoRow
    <3>2. c \in Call /\ c.noted = call[a].noted /\ c.returned = call[a].returned
          /\ c.answer = call[a].answer
      BY <2>1, <3>1 DEF Call, Row
    <3>3. call' = [call EXCEPT ![a] = c]
      BY <1>0, <1>9, <2>4 DEF Select
    <3> HIDE DEF c
    <3> QED BY <2>2, <3>2, <3>3, OneCallQuiet
  <2>5. CASE ~Free(k) /\ ~Releases(r)
    <3> DEFINE x == Refusal(r, call[a].payload)
    <3>1. Answered(a, x)
      BY <1>9, <2>5 DEF Select
    <3>2. x \in {"conflict", "replay", "partial", "incomplete", "in_progress"}
      BY DEF Refusal
    <3>3. CASE x # "replay"
      BY <2>1, <2>2, <3>1, <3>2, <3>3, AnsweredQuiet DEF Answer
    <3>4. CASE x = "replay"
      <4>1. r.status = "ok"
        BY <3>4 DEF Refusal
      <4>2. r.op \in Attempt /\ r.op \in Returned
        BY <1>0, <2>1, <2>5, <4>1 DEF Base, OkReturned, Returned, Free, Row, NoRow
      <4>3. Noted' = Noted /\ Returned' = Returned /\ Repeated' = Repeated \cup {a}
        BY <1>0, <3>1, <3>4 DEF Answered, Noted, Returned, Repeated, Call
      <4>4. ~Promise!Holds(a)
        BY <1>2, <2>1 DEF Base, Unclaimed
      <4>5. PICK j \in Key : Promise!Repeat(a, j)
        <5>1. PICK j \in Key : j = k
          BY <2>1
        <5> QED BY <2>1, <5>1, <4>2, <4>3, <4>4 DEF Promise!Repeat, Noted, Returned, Repeated, Holder
      <4> QED BY <4>5 DEF Promise!Next
    <3> QED BY <3>3, <3>4
  <2> QED BY <2>3, <2>4, <2>5
<1>10. ASSUME NEW a \in Attempt, Delete(a) PROVE [Promise!Next]_(Promise!vars)
  <2> DEFINE k == call[a].key
  <2>1. call[a].pc = "delete" /\ k \in Key /\ wrote' = wrote /\ call[a] \in Call
    BY <1>0, <1>10 DEF Delete, Call
  <2>2. PICK c \in Call : /\ call' = [call EXCEPT ![a] = c] /\ c.noted = call[a].noted
                          /\ c.returned = call[a].returned /\ c.answer \in {call[a].answer, "error"}
    BY <1>10, AgainQuiet DEF Delete
  <2>3. Quiet
    BY <2>1, <2>2, OneCallQuiet DEF Base, Replayed
  <2>4. CASE row' = row
    BY <1>1, <2>1, <2>3, <2>4 DEF Holder
  <2>5. CASE row' = [row EXCEPT ![k] = NoRow] /\ Releases(row[k])
    <3>0. PICK j \in Key : j = k
      BY <2>1
    <3>1. Holder' = [Holder EXCEPT ![j] = Nobody]
      BY <1>0, <2>1, <2>5, <3>0 DEF Holder, NoRow
    <3>2. Holder[j] \notin Noted \cup Returned
      <4>1. CASE Free(k)
        BY <2>1, <3>0, <4>1, OperationsAssumption DEF Free, Holder, Noted, Returned
      <4>2. CASE ~Free(k)
        BY <2>1, <2>5, <3>0, <4>2 DEF Base, TypeOK, Claimed, Held, Releases, Holder, Noted, Returned
      <4> QED BY <4>1, <4>2
    <3>3. Promise!Release(j)
      BY <2>1, <2>3, <3>1, <3>2 DEF Promise!Release, Noted, Returned, Repeated, Holder
    <3> QED BY <3>3 DEF Promise!Next
  <2> QED BY <1>10, <2>4, <2>5 DEF Delete, Deletes
<1>11. ASSUME NEW a \in Attempt, Write(a) PROVE [Promise!Next]_(Promise!vars)
  <2>1. Noted' = Noted \cup {a} /\ Returned' = Returned /\ Repeated' = Repeated
    BY <1>0, <1>11 DEF Write, Noted, Returned, Repeated, Call
  <2>2. Promise!Write(a)
    BY <1>3, <1>11, <2>1 DEF Write, Promise!Write, Noted, Returned, Repeated, Holder
  <2> QED BY <2>2 DEF Promise!Next
<1>12. ASSUME NEW a \in Attempt, WriteLost(a) PROVE [Promise!Next]_(Promise!vars)
  <2> DEFINE c == [call[a] EXCEPT !.pc = "finish"]
  <2>1. c \in Call /\ c.noted = call[a].noted /\ c.returned = call[a].returned
        /\ c.answer = call[a].answer
    BY <1>0 DEF Call
  <2>2. call' = [call EXCEPT ![a] = c] /\ row' = row
    BY <1>0, <1>12 DEF WriteLost
  <2> HIDE DEF c
  <2>3. Quiet /\ Holder' = Holder
    BY <2>1, <2>2, OneCallQuiet DEF Holder
  <2>4. CASE wrote' = wrote
    BY <1>1, <2>3, <2>4
  <2>5. CASE wrote' = wrote \cup {a}
    <3>1. Promise!Write(a)
      BY <1>3, <1>12, <2>3, <2>5 DEF WriteLost, Promise!Write, Noted, Returned, Repeated, Holder
    <3> QED BY <3>1 DEF Promise!Next
  <2> QED BY <1>12, <2>4, <2>5 DEF WriteLost
<1>13. ASSUME NEW a \in Attempt, End(a) PROVE [Promise!Next]_(Promise!vars)
  <2>1. PICK back \in BOOLEAN : call' = [call EXCEPT ![a].pc = "finish", ![a].returned = back]
    BY <1>13 DEF End
  <2>2. call[a].pc = "run" /\ UNCHANGED <<row, wrote>> /\ ~call[a].returned /\ Holder' = Holder
    BY <1>13 DEF End, Claimed, Fresh, Holder
  <2>3. Noted' = Noted /\ Repeated' = Repeated
        /\ Returned' = IF back THEN Returned \cup {a} ELSE Returned
    BY <1>0, <2>1, <2>2 DEF Noted, Returned, Repeated, Call
  <2>4. CASE ~back
    BY <1>1, <2>2, <2>3, <2>4
  <2>5. CASE back
    <3>1. Promise!Return(a)
      BY <1>3, <2>2, <2>3, <2>5 DEF Promise!Return, Noted, Returned, Repeated, Holder
    <3> QED BY <3>1 DEF Promise!Next
  <2> QED BY <2>4, <2>5
<1>14. ASSUME NEW a \in Attempt, Finish(a) PROVE UNCHANGED Promise!vars
  <2> DEFINE k == call[a].key
             out == Outcome(call[a].returned, call[a].noted)
  <2>1. k \in Key /\ call[a].pc = "finish" /\ wrote' = wrote /\ row[k].op = a
    BY <1>0, <1>14 DEF Finish, Call, Base, TypeOK
  <2>2. out \in {"ok", "partial", "error"}
    BY DEF Outcome
  <2>3. PICK x \in {out, "none"} : Answered(a, x)
    BY <1>14 DEF Finish
  <2>4. Quiet
    BY <2>1, <2>2, <2>3, AnsweredQuiet DEF Answer
  <2>5. row[k] \in Row
    BY <1>0, <2>1, OperationsAssumption DEF NoRow
  <2>6. Holder' = Holder
    BY <1>0, <1>14, <2>1, <2>5 DEF Finish, Holder, Row
  <2> QED BY <1>1, <2>1, <2>4, <2>6
<1> QED BY <1>4, <1>5, <1>6, <1>7, <1>8, <1>9, <1>10, <1>11, <1>12, <1>13, <1>14 DEF Next, Claim, Run

\* The calls with one key keep what a claim promises, whatever crashes, failed queries
\* and lost answers there are: who writes holds the key, a key is released only with
\* nothing acknowledged or returned, and a replay is its holder's result.
THEOREM Refinement == Spec => KeepsClaim
<1>1. Init => Promise!Init
  BY OperationsAssumption DEF Init, Promise!Init, NoRow, NotCalled
<1> QED BY <1>1, StepKeepsPromise, ClaimedHolds, PTL DEF Spec, KeepsClaim, Promise!Spec
=============================================================================
