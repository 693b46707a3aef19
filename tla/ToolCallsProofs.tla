--------------------------- MODULE ToolCallsProofs ---------------------------
(***************************************************************************)
(* Proofs about ToolCalls, for any set of requests: what the gates refuse  *)
(* is never written, and a repeated request is written once.  They rest on *)
(* the facts ToolFacts states of the tables and take the programs as they  *)
(* are: a step of a call goes from one step of its program to another.     *)
(***************************************************************************)
EXTENDS ToolFacts, TLAPS

-----------------------------------------------------------------------------
(* The invariant.                                                          *)

Calls ==
  [pc : {"idle", "prepare", "claim", "lookup", "run", "return", "throw", "done"}, ip : Int, on : BOOLEAN,
   did : SUBSET Writes, beside : SUBSET Kept, behind : BOOLEAN, claimed : BOOLEAN, late : BOOLEAN,
   answer : {"none", "ok", "error", "refused", "replay"}]

Types ==
  /\ req \in Request /\ writesOn \in BOOLEAN /\ stored \in BOOLEAN
  /\ row \in {"free", "running", "ok", "error", "partial"}
  /\ call \in [Attempt -> Calls]

\* Past the claim and not yet answered.
Open(a) == call[a].pc \in {"lookup", "run", "return", "throw"}

\* A call writes only inside its program, and only what the program writes.
InOrder ==
  \A a \in Attempt :
    /\ call[a].pc \in {"idle", "prepare", "claim", "lookup"} => ~Wrote(a)
    /\ call[a].pc = "run" => call[a].ip \in 1..Len(Program)
    /\ call[a].pc # "done" => call[a].answer = "none"
    /\ Wrote(a) => ~Quiet(Program)

\* The gates were passed by every call that has started and not been refused.
Passed ==
  \A a \in Attempt :
    /\ call[a].pc \notin {"idle", "done"} \/ Wrote(a) => ~Denied /\ ~Unconfirmed
    /\ ~call[a].on => \A t \in Switched : ~Blocked(t, FALSE, {})

\* A call that shall only plan has not passed the step that returns its plan.
Planning ==
  \A d \in 1..Len(Program) :
    PlansAt(Program, d, {"dry", "dryFirst"}) /\ Plans(Program[d])
      => \A a \in Attempt : ~Wrote(a) /\ (call[a].pc = "run" => call[a].ip <= d)

\* A claim is held from the claim to the answer, by one attempt at a time.
Claims ==
  \A a \in Attempt :
    /\ call[a].claimed => Durable
    /\ call[a].claimed /\ call[a].pc # "done" => row = "running" /\ Open(a)
    /\ Durable /\ Open(a) => call[a].claimed /\ \A b \in Attempt : Open(b) => b = a

\* What was written under a claim keeps every other attempt out for good.
KeptOut ==
  Durable => \A a \in Attempt : Wrote(a) =>
    /\ row \in {"running", "partial", "ok"}
    /\ \A b \in Attempt : b # a => ~Open(b) /\ ~Wrote(b)

\* Once a result was returned it is remembered, and a later attempt gets no further than the lookup.
Recalled ==
  Remembered =>
    /\ (\E b \in Attempt : call[b].answer = "ok") => stored
    /\ \A a \in Attempt : call[a].late =>
         /\ \E b \in Attempt : call[b].answer = "ok"
         /\ call[a].pc \notin {"run", "return", "throw"} /\ ~Wrote(a)

IInv == Types /\ InOrder /\ Passed /\ Planning /\ Claims /\ KeptOut /\ Recalled
-----------------------------------------------------------------------------
(* What a step does to the call that takes it.                             *)

Steady(a) ==
  /\ req' = req
  /\ call' \in [Attempt -> Calls]
  /\ \A b \in Attempt : b # a => call'[b] = call[b]

\* The call is answered.
Closes(a, x) ==
  /\ call'[a].pc = "done" /\ call'[a].answer = x
  /\ call'[a].did = call[a].did /\ call'[a].on = call[a].on
  /\ call'[a].claimed = call[a].claimed /\ call'[a].late = call[a].late

\* The call goes on at pc.
GoesOn(a, pc) ==
  /\ call'[a].pc = pc /\ call'[a].answer = call[a].answer
  /\ call'[a].did = call[a].did /\ call'[a].on = call[a].on
  /\ call'[a].claimed = call[a].claimed /\ call'[a].late = call[a].late

\* Each action updates the record of one attempt.
LEMMA CallTyped ==
  ASSUME Types, NEW a \in Attempt
  PROVE  call[a] \in Calls /\ call \in [Attempt -> Calls]
BY DEF Types
LEMMA StepsTo ==
  ASSUME Types, NEW a \in Attempt, NEW c \in Calls, call' = [call EXCEPT ![a] = c], req' = req
  PROVE  Steady(a) /\ call'[a] = c
BY CallTyped DEF Steady

LEMMA RunsAt ==
  ASSUME NEW c \in Calls, NEW i \in Int
  PROVE  [c EXCEPT !.pc = "run", !.ip = i] \in Calls
BY DEF Calls

LEMMA AnsweredCloses ==
  ASSUME Types, NEW a \in Attempt, NEW x \in {"ok", "error", "refused", "replay"}, Answered(a, x), req' = req
  PROVE  Steady(a) /\ Closes(a, x)
<1> DEFINE c == [call[a] EXCEPT !.pc = "done", !.answer = x]
<1>1. call' = [call EXCEPT ![a] = c]
  BY CallTyped DEF Answered
<1>2. c \in Calls
  BY CallTyped DEF Calls
<1>3. /\ c.pc = "done" /\ c.answer = x /\ c.did = call[a].did /\ c.on = call[a].on
      /\ c.claimed = call[a].claimed /\ c.late = call[a].late
  BY CallTyped DEF Calls
<1> HIDE DEF c
<1>4. Steady(a) /\ call'[a] = c
  BY <1>1, <1>2, StepsTo
<1> QED BY <1>3, <1>4 DEF Closes

\* Start: refused, or past the gates.
LEMMA StartDoes ==
  ASSUME Types, NEW a \in Attempt, Start(a)
  PROVE  /\ Steady(a) /\ call[a].pc = "idle" /\ UNCHANGED <<writesOn, row, stored>>
         /\ \/ Closes(a, "refused")
            \/ /\ ~SwitchedOff /\ ~Denied /\ ~Unconfirmed
               /\ call'[a].pc \in {"prepare", "claim"} /\ call'[a].answer = call[a].answer
               /\ call'[a].did = call[a].did /\ call'[a].claimed = call[a].claimed
               /\ call'[a].on = writesOn
               /\ call'[a].late = \E b \in Attempt : call[b].answer = "ok"
<1>0. req' = req /\ call[a].pc = "idle" /\ UNCHANGED <<writesOn, row, stored>>
  BY DEF Start
<1>1. CASE SwitchedOff \/ Denied \/ RawDenied \/ Unconfirmed
  BY <1>0, <1>1, AnsweredCloses DEF Start
<1>2. CASE ~(SwitchedOff \/ Denied \/ RawDenied \/ Unconfirmed)
  <2> DEFINE late == \E b \in Attempt : call[b].answer = "ok"
             pc == IF Prepares THEN "prepare" ELSE "claim"
  <2>1. call' = [call EXCEPT ![a].pc = pc, ![a].on = writesOn, ![a].late = late]
    BY <1>2, Zenon DEF Start
  <2>2. late \in BOOLEAN /\ pc \in {"prepare", "claim"}
    OBVIOUS
  <2> HIDE DEF late, pc
  <2> DEFINE c == [call[a] EXCEPT !.pc = pc, !.on = writesOn, !.late = late]
  <2>3. call' = [call EXCEPT ![a] = c]
    BY <2>1, CallTyped
  <2>4. c \in Calls
    BY <2>2, CallTyped DEF Calls, Types
  <2>5. /\ c.pc = pc /\ c.answer = call[a].answer /\ c.did = call[a].did
        /\ c.claimed = call[a].claimed /\ c.on = writesOn /\ c.late = late
    BY CallTyped DEF Calls
  <2> HIDE DEF c
  <2>6. Steady(a) /\ call'[a] = c
    BY <1>0, <2>3, <2>4, StepsTo
  <2> QED BY <1>0, <1>2, <2>2, <2>5, <2>6 DEF late
<1> QED BY <1>1, <1>2

LEMMA PrepareDoes ==
  ASSUME Types, NEW a \in Attempt, Prepare(a)
  PROVE  /\ Steady(a) /\ call[a].pc = "prepare" /\ UNCHANGED <<writesOn, row, stored>>
         /\ GoesOn(a, "claim") \/ Closes(a, "refused") \/ Closes(a, "error")
<1>1. CASE call' = [call EXCEPT ![a].pc = "claim"]
  BY <1>1 DEF Prepare, Types, Calls, Steady, GoesOn
<1>2. CASE Answered(a, "refused") \/ Answered(a, "error")
  BY <1>2, AnsweredCloses DEF Prepare
<1> QED BY <1>1, <1>2 DEF Prepare

\* Claim: refused or replayed by the row, or the call goes on, under a durable key with the row.
LEMMA ClaimDoes ==
  ASSUME Types, NEW a \in Attempt, Claim(a)
  PROVE  /\ Steady(a) /\ call[a].pc = "claim" /\ UNCHANGED <<writesOn, stored>>
         /\ \/ (Closes(a, "refused") \/ Closes(a, "replay")) /\ row' = row
            \/ /\ Durable => row \notin {"running", "partial", "ok"}
               /\ row' = IF Durable THEN "running" ELSE row
               /\ call'[a].pc = "lookup" /\ call'[a].answer = call[a].answer
               /\ call'[a].did = call[a].did /\ call'[a].on = call[a].on
               /\ call'[a].claimed = Durable /\ call'[a].late = call[a].late
<1>0. req' = req /\ call[a].pc = "claim" /\ UNCHANGED <<writesOn, stored>>
  BY DEF Claim
<1>1. CASE Durable /\ InDoubt
  BY <1>0, <1>1, AnsweredCloses DEF Claim
<1>2. CASE Durable /\ ~InDoubt /\ row = "ok"
  BY <1>0, <1>2, AnsweredCloses DEF Claim
<1>3. CASE ~Durable \/ (~InDoubt /\ row # "ok")
  <2>1. /\ row' = IF Durable THEN "running" ELSE row
        /\ call' = [call EXCEPT ![a].pc = "lookup", ![a].claimed = Durable]
    BY <1>3 DEF Claim
  <2>2. Durable => row \notin {"running", "partial", "ok"}
    BY <1>3 DEF InDoubt
  <2>3. Durable \in BOOLEAN
    BY DEF Durable
  <2> DEFINE c == [call[a] EXCEPT !.pc = "lookup", !.claimed = Durable]
  <2>4. call' = [call EXCEPT ![a] = c]
    BY <2>1, CallTyped
  <2>5. c \in Calls
    BY <2>3, CallTyped DEF Calls
  <2>6. /\ c.pc = "lookup" /\ c.answer = call[a].answer /\ c.did = call[a].did
        /\ c.on = call[a].on /\ c.claimed = Durable /\ c.late = call[a].late
    BY CallTyped DEF Calls
  <2> HIDE DEF c
  <2>7. Steady(a) /\ call'[a] = c
    BY <1>0, <2>4, <2>5, StepsTo
  <2> QED BY <1>0, <2>1, <2>2, <2>6, <2>7
<1> QED BY <1>1, <1>2, <1>3

LEMMA ClaimFailsDoes ==
  ASSUME Types, NEW a \in Attempt, ClaimFails(a)
  PROVE  Steady(a) /\ call[a].pc = "claim" /\ UNCHANGED <<writesOn, row, stored>> /\ Closes(a, "error")
BY AnsweredCloses DEF ClaimFails

\* Lookup: a remembered result is replayed, or the program begins.
LEMMA LookupDoes ==
  ASSUME Types, NEW a \in Attempt, Lookup(a)
  PROVE  /\ Steady(a) /\ call[a].pc = "lookup" /\ UNCHANGED <<writesOn, row, stored>>
         /\ \/ Closes(a, "replay")
            \/ GoesOn(a, "run") /\ call'[a].ip = 1 /\ ~(Remembered /\ stored)
<1>1. CASE Remembered /\ stored
  BY <1>1, AnsweredCloses DEF Lookup
<1>2. CASE ~(Remembered /\ stored)
  <2>1. call' = [call EXCEPT ![a].pc = "run", ![a].ip = 1]
    BY <1>2 DEF Lookup
  <2> DEFINE c == [call[a] EXCEPT !.pc = "run", !.ip = 1]
  <2>2. call' = [call EXCEPT ![a] = c]
    BY <2>1, CallTyped
  <2>3. c \in Calls
    <3>1. 1 \in Int
      OBVIOUS
    <3> QED BY <3>1, CallTyped, RunsAt, Zenon
  <2>4. /\ c.pc = "run" /\ c.ip = 1 /\ c.answer = call[a].answer /\ c.did = call[a].did
        /\ c.on = call[a].on /\ c.claimed = call[a].claimed /\ c.late = call[a].late
    BY CallTyped DEF Calls
  <2> HIDE DEF c
  <2>5. Steady(a) /\ call'[a] = c
    BY <2>2, <2>3, StepsTo DEF Lookup
  <2> QED BY <1>2, <2>4, <2>5 DEF Lookup, GoesOn
<1> QED BY <1>1, <1>2

\* Finish: the row of a claim may get the outcome, and a result is remembered.
LEMMA FinishDoes ==
  ASSUME Types, NEW a \in Attempt, Finish(a)
  PROVE  /\ Steady(a) /\ call[a].pc \in {"return", "throw"} /\ UNCHANGED writesOn
         /\ \E ok \in BOOLEAN :
              /\ row' = row \/ (call[a].claimed /\ row' = Outcome(ok, call[a].did))
              /\ stored' = (stored \/ (ok /\ Remembered))
              /\ Closes(a, IF ok THEN "ok" ELSE "error")
<1>0. req' = req /\ call[a].pc \in {"return", "throw"} /\ UNCHANGED writesOn
  BY DEF Finish
<1>1. PICK ok \in BOOLEAN :
        /\ row' \in IF call[a].claimed THEN {row, Outcome(ok, call[a].did)} ELSE {row}
        /\ stored' = (stored \/ (ok /\ Remembered))
        /\ Answered(a, IF ok THEN "ok" ELSE "error")
  BY DEF Finish
<1>2. Steady(a) /\ Closes(a, IF ok THEN "ok" ELSE "error")
  <2>1. (IF ok THEN "ok" ELSE "error") \in {"ok", "error", "refused", "replay"}
    OBVIOUS
  <2> QED BY <1>0, <1>1, <2>1, AnsweredCloses
<1>3. row' = row \/ (call[a].claimed /\ row' = Outcome(ok, call[a].did))
  BY <1>1
<1> QED BY <1>0, <1>1, <1>2, <1>3

\* The program of a request is one of those the facts are about.
LEMMA ProgramFits ==
  ASSUME Types
  PROVE  req.tool \in AllTools /\ Program \in Programs(req.tool) /\ Runs(Program)
<1>1. req.tool \in AllTools /\ req.method \in {"GET", "POST", "PATCH", "DELETE"}
  BY DEF Types, Request
<1>2. name \in {req.tool, "execute_tool"}
  BY DEF name
<1>3. Program \in Programs(req.tool)
  BY <1>1, <1>2 DEF Program, Programs
<1> QED BY <1>1, <1>3, ProgramsRun

\* A program has a first step.
LEMMA FirstStep ==
  ASSUME NEW n \in 1..(Returns - 1)
  PROVE  n \in Int /\ 1 \in 1..n
BY DEF Returns

LEMMA LenTyped ==
  ASSUME NEW p, Runs(p)
  PROVE  Len(p) \in Int
BY DEF Runs

\* Where a step of a program of n steps may lead from step i.
LEMMA Landing ==
  ASSUME NEW n \in 1..(Returns - 1), NEW i \in 1..n, NEW f \in 0..Returns, NEW by \in (1 - i)..Returns
  PROVE  /\ i \in Int /\ i >= 1
         /\ i + 1 \in Int /\ i + 1 >= 1
         /\ i + f \in Int /\ i + f >= 1
         /\ i + by \in Int /\ i + by >= 1
         /\ i + Returns \in Int /\ i + Returns >= 1 /\ i + Returns \notin 1..n
BY DEF Returns

\* The call runs on at step i, or has returned; the rest of its record is c's.
Lands(a, i, c) ==
  /\ \/ call'[a].pc = "run" /\ call'[a].ip = i /\ i \in 1..Len(Program)
     \/ call'[a].pc = "return" /\ i > Len(Program)
  /\ call'[a].answer = c.answer /\ call'[a].did = c.did /\ call'[a].on = c.on
  /\ call'[a].claimed = c.claimed /\ call'[a].late = c.late

\* A running call goes to step i, or returns when there is no such step.
LEMMA GoesDoes ==
  ASSUME Types, NEW a \in Attempt, NEW i \in Int, i >= 1, NEW c \in Calls, c.pc = "run", Goes(a, i, c), req' = req
  PROVE  Steady(a) /\ Lands(a, i, c)
<1>0. Len(Program) \in Int
  BY ProgramFits DEF Runs
<1>1. CASE i > Len(Program)
  <2> DEFINE d == [c EXCEPT !.pc = "return"]
  <2>1. call' = [call EXCEPT ![a] = d]
    BY <1>1 DEF Goes
  <2>2. d \in Calls
    BY DEF Calls
  <2>3. /\ d.pc = "return" /\ d.answer = c.answer /\ d.did = c.did
        /\ d.on = c.on /\ d.claimed = c.claimed /\ d.late = c.late
    BY DEF Calls
  <2> HIDE DEF d
  <2> QED BY <1>1, <2>1, <2>2, <2>3, StepsTo DEF Lands
<1>2. CASE i <= Len(Program)
  <2> DEFINE d == [c EXCEPT !.ip = i]
  <2>1. call' = [call EXCEPT ![a] = d]
    <3>1. ~(i > Len(Program))
      BY <1>0, <1>2
    <3> QED BY <3>1, Zenon DEF Goes
  <2>2. d \in Calls
    BY DEF Calls
  <2>3. /\ d.pc = "run" /\ d.ip = i /\ d.answer = c.answer /\ d.did = c.did
        /\ d.on = c.on /\ d.claimed = c.claimed /\ d.late = c.late
    BY DEF Calls
  <2> HIDE DEF d
  <2>4. Steady(a) /\ call'[a] = d
    BY <2>1, <2>2, StepsTo
  <2>5. i \in 1..Len(Program)
    BY <1>0, <1>2
  <2> QED BY <2>3, <2>4, <2>5 DEF Lands
<1> QED BY <1>0, <1>1, <1>2

\* A run leaves what the gates, the claim and the store recorded of the call.
Proceeds(a, s) ==
  /\ call'[a].pc \in {"run", "return", "throw"} /\ call'[a].answer = call[a].answer
  /\ call'[a].on = call[a].on /\ call'[a].claimed = call[a].claimed /\ call'[a].late = call[a].late
  /\ call'[a].did = call[a].did \/ (s.op \in Writes /\ call'[a].did = call[a].did \cup {s.op})
  /\ call'[a].pc = "run" =>
       /\ call'[a].ip \in 1..Len(Program)
       /\ call'[a].ip \in {call[a].ip + 1, call[a].ip + s.fails, call[a].ip + s.by}
  /\ s.op \in {"dry", "dryFirst"} /\ Plans(s) => call'[a].pc = "return"

\* Run: a request that succeeds, fails or throws, or a step of control.
LEMMA RunDoes ==
  ASSUME Types, InOrder, NEW a \in Attempt, Run(a)
  PROVE  /\ Steady(a) /\ call[a].pc = "run" /\ UNCHANGED <<writesOn, row, stored>>
         /\ Proceeds(a, Program[call[a].ip])
<1> DEFINE c == call[a]
           i == call[a].ip
           s == Program[i]
<1>0. req' = req /\ c.pc = "run" /\ UNCHANGED <<writesOn, row, stored>> /\ c \in Calls
  BY CallTyped DEF Run
<1>1. i \in 1..Len(Program)
  BY <1>0 DEF InOrder
<1>2. /\ Len(Program) \in 1..(Returns - 1) /\ s.fails \in 0..Returns /\ s.by \in (1 - i)..Returns
      /\ s.op \in Writes \cup {"read", "peek", "ends", "dry", "dryFirst", "fork", "jump"}
  BY <1>1, ProgramFits DEF Runs
<1>s. SUFFICES Steady(a) /\ Proceeds(a, s)
  BY <1>0
<1> HIDE DEF i, s
<1>l. /\ i \in Int /\ i >= 1
      /\ i + 1 \in Int /\ i + 1 >= 1
      /\ i + s.fails \in Int /\ i + s.fails >= 1
      /\ i + s.by \in Int /\ i + s.by >= 1
      /\ i + Returns \in Int /\ i + Returns >= 1 /\ i + Returns \notin 1..Len(Program)
  BY <1>1, <1>2, Landing
<1>3. CASE s.op \in Writes \cup {"read", "peek"}
  <2> DEFINE behind == c.behind \/ (s.op = "read" /\ s.on \cap c.beside # {})
             read == [c EXCEPT !.behind = behind]
             written == [c EXCEPT !.did = c.did \cup {s.op}, !.beside = Besides(c, s)]
  <2>1. Send(a, s)
    BY <1>3 DEF Run, i, s
  <2>2. read \in Calls /\ (s.op \in Writes => written \in Calls)
    <3>1. behind \in BOOLEAN
      BY <1>0 DEF Calls
    <3> HIDE DEF behind
    <3>2. read \in Calls
      BY <1>0, <3>1 DEF Calls
    <3>3. Besides(c, s) \in SUBSET Kept
      BY <1>0 DEF Calls, Besides
    <3>4. CASE s.op \in Writes
      <4>1. c.did \cup {s.op} \in SUBSET Writes
        BY <1>0, <3>4 DEF Calls
      <4> QED BY <1>0, <3>2, <3>3, <4>1 DEF Calls
    <3> QED BY <3>2, <3>4
  <2>3. /\ read.pc = "run" /\ read.answer = c.answer /\ read.did = c.did
        /\ read.on = c.on /\ read.claimed = c.claimed /\ read.late = c.late
    BY <1>0 DEF Calls
  <2>4. /\ written.pc = "run" /\ written.answer = c.answer /\ written.did = c.did \cup {s.op}
        /\ written.on = c.on /\ written.claimed = c.claimed /\ written.late = c.late
    BY <1>0 DEF Calls
  <2>5. s.op \notin {"dry", "dryFirst"}
    BY <1>3 DEF Writes
  <2>6. \/ s.op \in Writes /\ Goes(a, i + 1, written)
        \/ s.op \notin Writes /\ Goes(a, i + 1, read)
        \/ s.fails > 0 /\ Goes(a, i + s.fails, c)
        \/ call' = [call EXCEPT ![a].pc = "throw"]
    BY <2>1 DEF Send, i
  <2> HIDE DEF read, written
  <2>7. CASE s.op \in Writes /\ Goes(a, i + 1, written)
    <3>1. written \in Calls
      BY <2>2, <2>7
    <3>2. Steady(a) /\ Lands(a, i + 1, written)
      BY <1>0, <1>l, <2>4, <2>7, <3>1, GoesDoes
    <3> QED BY <2>4, <2>5, <2>7, <3>2 DEF Proceeds, Lands, i
  <2>8. CASE s.op \notin Writes /\ Goes(a, i + 1, read)
    <3>1. read \in Calls
      BY <2>2
    <3>2. Steady(a) /\ Lands(a, i + 1, read)
      BY <1>0, <1>l, <2>3, <2>8, <3>1, GoesDoes
    <3> QED BY <2>3, <2>5, <3>2 DEF Proceeds, Lands, i
  <2>9. CASE s.fails > 0 /\ Goes(a, i + s.fails, c)
    <3>1. Steady(a) /\ Lands(a, i + s.fails, c)
      BY <1>0, <1>l, <2>9, GoesDoes
    <3> QED BY <2>5, <3>1 DEF Proceeds, Lands, i
  <2>10. CASE call' = [call EXCEPT ![a].pc = "throw"]
    <3> DEFINE d == [c EXCEPT !.pc = "throw"]
    <3>1. call' = [call EXCEPT ![a] = d]
      BY <2>10, CallTyped
    <3>2. d \in Calls
      BY <1>0 DEF Calls
    <3>3. /\ d.pc = "throw" /\ d.answer = c.answer /\ d.did = c.did
          /\ d.on = c.on /\ d.claimed = c.claimed /\ d.late = c.late
      BY <1>0 DEF Calls
    <3> HIDE DEF d
    <3>4. Steady(a) /\ call'[a] = d
      BY <1>0, <3>1, <3>2, StepsTo
    <3> QED BY <1>0, <2>5, <3>3, <3>4 DEF Proceeds
  <2> QED BY <2>6, <2>7, <2>8, <2>9, <2>10
<1>4. CASE s.op \notin Writes \cup {"read", "peek"}
  <2>1. Turn(a, s)
    BY <1>4 DEF Run, i, s
  <2>2. \E j \in Int :
          /\ Goes(a, j, c) /\ j >= 1
          /\ j \in {i + 1, i + s.by, i + Returns}
          /\ s.op \in {"dry", "dryFirst"} /\ Plans(s) => j = i + Returns
    <3>1. CASE s.op = "ends"
      <4>1. Goes(a, i + 1, c) \/ Goes(a, i + Returns, c)
        BY <2>1, <3>1 DEF Turn, i
      <4> QED BY <1>l, <3>1, <4>1
    <3>2. CASE s.op \in {"dry", "dryFirst"}
      <4>1. Goes(a, i + (IF Plans(s) THEN Returns ELSE 1), c)
        BY <2>1, <3>2 DEF Turn, i
      <4> QED BY <1>l, <3>2, <4>1
    <3>3. CASE s.op \in {"fork", "jump"}
      <4>1. Goes(a, i + 1, c) \/ Goes(a, i + s.by, c)
        BY <2>1, <3>3 DEF Turn, i
      <4> QED BY <1>l, <3>3, <4>1
    <3> QED BY <1>2, <1>4, <3>1, <3>2, <3>3
  <2>3. PICK j \in Int :
          /\ Goes(a, j, c) /\ j >= 1
          /\ j \in {i + 1, i + s.by, i + Returns}
          /\ s.op \in {"dry", "dryFirst"} /\ Plans(s) => j = i + Returns
    BY <2>2
  <2>5. j = i + Returns => ~(j \in 1..Len(Program))
    BY <1>l
  <2>6. Steady(a) /\ Lands(a, j, c)
    BY <1>0, <2>3, GoesDoes
  <2>7. /\ call'[a].pc = "run" => call'[a].ip \in 1..Len(Program) /\ call'[a].ip \in {i + 1, i + s.fails, i + s.by}
        /\ s.op \in {"dry", "dryFirst"} /\ Plans(s) => call'[a].pc = "return"
    BY <2>3, <2>5, <2>6 DEF Lands
  <2> QED BY <2>6, <2>7 DEF Proceeds, Lands, i
<1> QED BY <1>3, <1>4
-----------------------------------------------------------------------------
(* The invariant holds at first, and every step keeps it.                  *)

\* What is said of the request is settled when it is sent.
LEMMA SameRequest ==
  ASSUME req' = req
  PROVE  /\ Program' = Program /\ Durable' = Durable /\ Remembered' = Remembered
         /\ Denied' = Denied /\ Unconfirmed' = Unconfirmed /\ Switched' = Switched
         /\ \A s : Plans(s)' = Plans(s)
BY DEF Program, Durable, Remembered, Denied, Unconfirmed, isDryRunCall, Switched, Plans, name

LEMMA InitHolds == Init => IInv
<1> SUFFICES ASSUME Init PROVE IInv
  OBVIOUS
<1>1. call = [a \in Attempt |-> NotCalled] /\ row = "free" /\ writesOn = TRUE /\ stored = FALSE
  BY DEF Init
<1>2. \A a \in Attempt : call[a] = NotCalled
  BY <1>1
<1>3. NotCalled \in Calls
  BY DEF NotCalled, Calls
<1>4. Types
  BY <1>1, <1>3, ToolCallsAssumption DEF Types, Init
<1>5. \A a \in Attempt : /\ call[a].pc = "idle" /\ call[a].did = {} /\ ~call[a].claimed /\ ~call[a].late
                         /\ call[a].on /\ call[a].answer = "none"
  BY <1>2 DEF NotCalled
<1>6. InOrder /\ Passed /\ Planning
  BY <1>5 DEF InOrder, Passed, Planning, Wrote
<1>7. Claims /\ KeptOut /\ Recalled
  BY <1>5 DEF Claims, KeptOut, Recalled, Wrote, Open
<1> QED BY <1>4, <1>6, <1>7 DEF IInv

\* The record of every attempt but a is as it was; what was written stays written.
LEMMA OthersStay ==
  ASSUME NEW a \in Attempt, Steady(a)
  PROVE  /\ \A b \in Attempt : b # a =>
              /\ call'[b] = call[b] /\ Wrote(b)' = Wrote(b) /\ Open(b)' = Open(b)
         /\ call'[a].did = call[a].did => Wrote(a)' = Wrote(a)
         /\ Program' = Program /\ Durable' = Durable /\ Remembered' = Remembered
         /\ Denied' = Denied /\ Unconfirmed' = Unconfirmed /\ Switched' = Switched
         /\ \A s : Plans(s)' = Plans(s)
BY SameRequest DEF Steady, Wrote, Open

\* An answer that is no result, from before or after the claim.
LEMMA ClosesKeeps ==
  ASSUME IInv, NEW a \in Attempt, call[a].pc # "done", NEW x \in {"error", "refused", "replay"},
         Steady(a), Closes(a, x), UNCHANGED <<writesOn, row, stored>>
  PROVE  IInv'
<1>1. Types'
  BY DEF IInv, Types, Steady
<1>2. InOrder'
  BY OthersStay DEF IInv, InOrder, Closes
<1>3. Passed'
  BY OthersStay DEF IInv, Passed, Closes
<1>4. Planning'
  BY OthersStay DEF IInv, Planning, Closes
<1>5. Claims'
  BY OthersStay DEF IInv, Claims, Closes, Open
<1>6. KeptOut'
  BY OthersStay DEF IInv, KeptOut, Closes, Open
<1>7. Recalled'
  BY OthersStay DEF IInv, Recalled, InOrder, Closes
<1> QED BY <1>1, <1>2, <1>3, <1>4, <1>5, <1>6, <1>7 DEF IInv

LEMMA StartKeeps == ASSUME IInv, NEW a \in Attempt, Start(a) PROVE IInv'
<1>1. /\ Steady(a) /\ call[a].pc = "idle" /\ UNCHANGED <<writesOn, row, stored>>
      /\ \/ Closes(a, "refused")
         \/ /\ ~SwitchedOff /\ ~Denied /\ ~Unconfirmed
            /\ call'[a].pc \in {"prepare", "claim"} /\ call'[a].answer = call[a].answer
            /\ call'[a].did = call[a].did /\ call'[a].claimed = call[a].claimed
            /\ call'[a].on = writesOn
            /\ call'[a].late = \E b \in Attempt : call[b].answer = "ok"
  BY StartDoes DEF IInv
<1>2. CASE Closes(a, "refused")
  BY <1>1, <1>2, ClosesKeeps
<1>3. CASE ~Closes(a, "refused")
  <2>1. /\ ~SwitchedOff /\ ~Denied /\ ~Unconfirmed
        /\ call'[a].pc \in {"prepare", "claim"} /\ call'[a].answer = call[a].answer
        /\ call'[a].did = call[a].did /\ call'[a].claimed = call[a].claimed
        /\ call'[a].on = writesOn
        /\ call'[a].late = \E b \in Attempt : call[b].answer = "ok"
    BY <1>1, <1>3
  <2>2. Types'
    BY <1>1 DEF IInv, Types, Steady
  <2>3. InOrder'
    BY <1>1, <2>1, OthersStay DEF IInv, InOrder
  <2>4. Passed'
    <3>1. ~call'[a].on => \A t \in Switched : ~Blocked(t, FALSE, {})
      <4>1. ~writesOn => writesOn = FALSE
        BY DEF IInv, Types
      <4> QED BY <2>1, <4>1 DEF SwitchedOff
    <3> QED BY <1>1, <2>1, <3>1, OthersStay DEF IInv, Passed
  <2>5. Planning'
    BY <1>1, <2>1, OthersStay DEF IInv, Planning
  <2>6. Claims'
    BY <1>1, <2>1, OthersStay DEF IInv, Claims, Open
  <2>7. KeptOut'
    BY <1>1, <2>1, OthersStay DEF IInv, KeptOut, Open
  <2>8. Recalled'
    <3>1. ~Wrote(a)
      BY <1>1 DEF IInv, InOrder
    <3>2. \A b \in Attempt : call'[b].answer = call[b].answer
      BY <1>1, <2>1, OthersStay
    <3> QED BY <1>1, <2>1, <3>1, <3>2, OthersStay DEF IInv, Recalled
  <2> QED BY <2>2, <2>3, <2>4, <2>5, <2>6, <2>7, <2>8 DEF IInv
<1> QED BY <1>2, <1>3

LEMMA PrepareKeeps == ASSUME IInv, NEW a \in Attempt, Prepare(a) PROVE IInv'
<1>1. /\ Steady(a) /\ call[a].pc = "prepare" /\ UNCHANGED <<writesOn, row, stored>>
      /\ GoesOn(a, "claim") \/ Closes(a, "refused") \/ Closes(a, "error")
  BY PrepareDoes DEF IInv
<1>2. CASE Closes(a, "refused") \/ Closes(a, "error")
  BY <1>1, <1>2, ClosesKeeps
<1>3. CASE GoesOn(a, "claim")
  <2>1. Types'
    BY <1>1 DEF IInv, Types, Steady
  <2>2. InOrder' /\ Passed' /\ Planning'
    BY <1>1, <1>3, OthersStay DEF IInv, InOrder, Passed, Planning, GoesOn
  <2>3. Claims' /\ KeptOut'
    BY <1>1, <1>3, OthersStay DEF IInv, Claims, KeptOut, Open, GoesOn
  <2>4. Recalled'
    BY <1>1, <1>3, OthersStay DEF IInv, Recalled, GoesOn
  <2> QED BY <2>1, <2>2, <2>3, <2>4 DEF IInv
<1> QED BY <1>1, <1>2, <1>3

\* The claim is granted only when no attempt holds it and none has written.
LEMMA ClaimKeeps == ASSUME IInv, NEW a \in Attempt, Claim(a) PROVE IInv'
<1>1. /\ Steady(a) /\ call[a].pc = "claim" /\ UNCHANGED <<writesOn, stored>>
      /\ \/ (Closes(a, "refused") \/ Closes(a, "replay")) /\ row' = row
         \/ /\ Durable => row \notin {"running", "partial", "ok"}
            /\ row' = IF Durable THEN "running" ELSE row
            /\ call'[a].pc = "lookup" /\ call'[a].answer = call[a].answer
            /\ call'[a].did = call[a].did /\ call'[a].on = call[a].on
            /\ call'[a].claimed = Durable /\ call'[a].late = call[a].late
  BY ClaimDoes DEF IInv
<1>2. CASE (Closes(a, "refused") \/ Closes(a, "replay")) /\ row' = row
  BY <1>1, <1>2, ClosesKeeps
<1>3. CASE /\ Durable => row \notin {"running", "partial", "ok"}
           /\ row' = IF Durable THEN "running" ELSE row
           /\ call'[a].pc = "lookup" /\ call'[a].answer = call[a].answer
           /\ call'[a].did = call[a].did /\ call'[a].on = call[a].on
           /\ call'[a].claimed = Durable /\ call'[a].late = call[a].late
  <2>1. Types'
    BY <1>1, <1>3 DEF IInv, Types, Steady
  <2>2. InOrder' /\ Passed' /\ Planning'
    BY <1>1, <1>3, OthersStay DEF IInv, InOrder, Passed, Planning
  <2>3. Durable => \A b \in Attempt : ~Open(b) /\ ~Wrote(b)
    BY <1>3 DEF IInv, Claims, KeptOut, Open
  <2>4. Claims'
    <3>1. CASE Durable
      BY <1>1, <1>3, <2>3, <3>1, OthersStay DEF IInv, Claims, Open
    <3>2. CASE ~Durable
      BY <1>1, <1>3, <3>2, OthersStay DEF IInv, Claims
    <3> QED BY <3>1, <3>2
  <2>5. KeptOut'
    BY <1>1, <1>3, <2>3, OthersStay DEF IInv, KeptOut
  <2>6. Recalled'
    BY <1>1, <1>3, OthersStay DEF IInv, Recalled
  <2> QED BY <2>1, <2>2, <2>4, <2>5, <2>6 DEF IInv
<1> QED BY <1>1, <1>2, <1>3

LEMMA ClaimFailsKeeps == ASSUME IInv, NEW a \in Attempt, ClaimFails(a) PROVE IInv'
BY ClaimFailsDoes, ClosesKeeps DEF IInv

\* A call that came after a result finds it, and goes no further.
LEMMA LookupKeeps == ASSUME IInv, NEW a \in Attempt, Lookup(a) PROVE IInv'
<1>1. /\ Steady(a) /\ call[a].pc = "lookup" /\ UNCHANGED <<writesOn, row, stored>>
      /\ \/ Closes(a, "replay")
         \/ GoesOn(a, "run") /\ call'[a].ip = 1 /\ ~(Remembered /\ stored)
  BY LookupDoes DEF IInv
<1>2. CASE Closes(a, "replay")
  BY <1>1, <1>2, ClosesKeeps
<1>3. CASE GoesOn(a, "run") /\ call'[a].ip = 1 /\ ~(Remembered /\ stored)
  <2>0. Len(Program) \in Int /\ 1 \in 1..Len(Program)
    <3>1. Len(Program) \in 1..(Returns - 1)
      BY ProgramFits DEF IInv, Runs
    <3> QED BY <3>1, FirstStep
  <2>1. Types'
    BY <1>1 DEF IInv, Types, Steady
  <2>2. InOrder'
    BY <1>1, <1>3, <2>0, OthersStay DEF IInv, InOrder, GoesOn
  <2>3. Passed'
    BY <1>1, <1>3, OthersStay DEF IInv, Passed, GoesOn
  <2>4. Planning'
    <3>1. \A d \in 1..Len(Program) : call'[a].ip <= d
      BY <1>3, <2>0
    <3> QED BY <1>1, <1>3, <3>1, OthersStay DEF IInv, Planning, GoesOn
  <2>5. Claims' /\ KeptOut'
    BY <1>1, <1>3, OthersStay DEF IInv, Claims, KeptOut, Open, GoesOn
  <2>6. Recalled'
    BY <1>1, <1>3, OthersStay DEF IInv, Recalled, GoesOn
  <2> QED BY <2>1, <2>2, <2>3, <2>4, <2>5, <2>6 DEF IInv
<1> QED BY <1>1, <1>2, <1>3

LEMMA SwitchOffKeeps == ASSUME IInv, SwitchOff PROVE IInv'
<1>1. req' = req /\ row' = row /\ stored' = stored /\ call' = call /\ writesOn' = FALSE
  BY DEF SwitchOff
<1>2. /\ \A a \in Attempt : Wrote(a)' = Wrote(a) /\ Open(a)' = Open(a)
      /\ Program' = Program /\ Durable' = Durable /\ Remembered' = Remembered
      /\ Denied' = Denied /\ Unconfirmed' = Unconfirmed /\ Switched' = Switched
      /\ \A s : Plans(s)' = Plans(s)
  BY <1>1, SameRequest DEF Wrote, Open
<1>3. Types'
  BY <1>1 DEF IInv, Types
<1>4. InOrder' /\ Passed' /\ Planning'
  BY <1>1, <1>2 DEF IInv, InOrder, Passed, Planning
<1>5. Claims' /\ KeptOut' /\ Recalled'
  BY <1>1, <1>2 DEF IInv, Claims, KeptOut, Recalled
<1> QED BY <1>3, <1>4, <1>5 DEF IInv

\* A step of the program: a dry run does not get past the step that returns its plan, and
\* what is written is of the program and under the claim.
LEMMA RunKeeps == ASSUME IInv, NEW a \in Attempt, Run(a) PROVE IInv'
<1> DEFINE i == call[a].ip
           s == Program[i]
<1>1. /\ Steady(a) /\ call[a].pc = "run" /\ UNCHANGED <<writesOn, row, stored>>
      /\ Proceeds(a, s)
  BY RunDoes DEF IInv
<1>2. i \in 1..Len(Program)
  BY <1>1 DEF IInv, InOrder
<1> HIDE DEF i, s
<1>3. call'[a].pc \in {"run", "return", "throw"} /\ call'[a].answer = call[a].answer
  BY <1>1 DEF Proceeds
<1>4. call'[a].on = call[a].on /\ call'[a].claimed = call[a].claimed /\ call'[a].late = call[a].late
  BY <1>1 DEF Proceeds
<1>5. Wrote(a)' => Wrote(a) \/ s.op \in Writes
  BY <1>1 DEF Proceeds, Wrote
<1>6. call'[a].pc = "run" => call'[a].ip \in 1..Len(Program)
  BY <1>1 DEF Proceeds
<1>7. Types'
  BY <1>1 DEF IInv, Types, Steady
<1>8. InOrder'
  <2>1. s.op \in Writes => ~Quiet(Program)
    BY <1>2 DEF Quiet, s
  <2> QED BY <1>1, <1>3, <1>5, <1>6, <2>1, OthersStay DEF IInv, InOrder
<1>9. Passed'
  BY <1>1, <1>3, <1>4, OthersStay DEF IInv, Passed
<1>10. Planning'
  <2> SUFFICES ASSUME NEW d \in 1..Len(Program), PlansAt(Program, d, {"dry", "dryFirst"}), Plans(Program[d])
               PROVE  /\ \A b \in Attempt : ~Wrote(b)' /\ (call'[b].pc = "run" => call'[b].ip <= d)
    BY <1>1, OthersStay DEF Planning
  <2>1. \A b \in Attempt : ~Wrote(b) /\ (call[b].pc = "run" => call[b].ip <= d)
    BY DEF IInv, Planning
  <2>2. i <= d
    BY <1>1, <2>1 DEF i
  <2>3. ~Wrote(a)' /\ (call'[a].pc = "run" => call'[a].ip <= d)
    <3>1. CASE i = d
      <4>1. s.op \in {"dry", "dryFirst"} /\ Plans(s)
        BY <3>1 DEF PlansAt, s
      <4>2. call'[a].pc = "return" /\ s.op \notin Writes
        BY <1>1, <4>1 DEF Proceeds, Writes
      <4> QED BY <1>5, <2>1, <4>2
    <3>2. CASE i # d
      <4>1. i \in 1..(d - 1)
        BY <1>2, <2>2, <3>2, ProgramFits, LenTyped DEF IInv
      <4>2. s.op \notin Writes /\ i + s.by <= d /\ i + s.fails \notin (d + 1)..Len(Program)
        BY <4>1 DEF PlansAt, s
      <4>3. call'[a].pc = "run" => call'[a].ip <= d
        <5>1. call'[a].pc = "run" => call'[a].ip \in {i + 1, i + s.fails, i + s.by}
          BY <1>1 DEF Proceeds, i
        <5> QED BY <1>6, <4>1, <4>2, <5>1, ProgramFits, LenTyped DEF IInv
      <4> QED BY <1>5, <2>1, <4>2, <4>3
    <3> QED BY <3>1, <3>2
  <2> QED BY <1>1, <2>1, <2>3, OthersStay
<1>11. Claims'
  BY <1>1, <1>3, <1>4, OthersStay DEF IInv, Claims, Open
<1>12. KeptOut'
  <2> SUFFICES ASSUME Durable PROVE KeptOut'
    BY <1>1, OthersStay DEF KeptOut
  <2>1. Open(a) /\ row = "running" /\ \A b \in Attempt : b # a => ~Open(b) /\ ~Wrote(b)
    BY <1>1 DEF IInv, Claims, KeptOut, Open
  <2> QED BY <1>1, <2>1, OthersStay DEF KeptOut
<1>13. Recalled'
  <2> SUFFICES ASSUME Remembered PROVE Recalled'
    BY <1>1, OthersStay DEF Recalled
  <2>1. ~call[a].late
    BY <1>1 DEF IInv, Recalled
  <2> QED BY <1>1, <1>3, <1>4, <2>1, OthersStay DEF IInv, Recalled
<1> QED BY <1>7, <1>8, <1>9, <1>10, <1>11, <1>12, <1>13 DEF IInv

\* The outcome of a call that wrote is not an error, so its key is not released.
LEMMA FinishKeeps == ASSUME IInv, NEW a \in Attempt, Finish(a) PROVE IInv'
<1>1. /\ Steady(a) /\ call[a].pc \in {"return", "throw"} /\ UNCHANGED writesOn
      /\ \E ok \in BOOLEAN :
           /\ row' = row \/ (call[a].claimed /\ row' = Outcome(ok, call[a].did))
           /\ stored' = (stored \/ (ok /\ Remembered))
           /\ Closes(a, IF ok THEN "ok" ELSE "error")
  BY FinishDoes DEF IInv
<1>2. PICK ok \in BOOLEAN :
        /\ row' = row \/ (call[a].claimed /\ row' = Outcome(ok, call[a].did))
        /\ stored' = (stored \/ (ok /\ Remembered))
        /\ Closes(a, IF ok THEN "ok" ELSE "error")
  BY <1>1
<1>3. row' \in {"free", "running", "ok", "error", "partial"}
  BY <1>2 DEF IInv, Types, Outcome
<1>4. Types'
  <2>1. Remembered \in BOOLEAN
    BY DEF Remembered
  <2>2. stored' \in BOOLEAN
    BY <1>2, <2>1 DEF IInv, Types
  <2> QED BY <1>1, <1>3, <2>2 DEF IInv, Types, Steady
<1>5. InOrder' /\ Passed' /\ Planning'
  BY <1>1, <1>2, OthersStay DEF IInv, InOrder, Passed, Planning, Closes
<1>6. Claims'
  <2>1. \A b \in Attempt : b # a /\ call[b].claimed /\ call[b].pc # "done" => row' = "running"
    BY <1>1, <1>2 DEF IInv, Claims, Open
  <2> QED BY <1>1, <1>2, <2>1, OthersStay DEF IInv, Claims, Closes, Open
<1>7. KeptOut'
  <2> SUFFICES ASSUME Durable, NEW b \in Attempt, Wrote(b)'
               PROVE  row' \in {"running", "partial", "ok"} /\ \A e \in Attempt : e # b => ~Open(e)' /\ ~Wrote(e)'
    BY <1>1, OthersStay DEF KeptOut
  <2>1. Wrote(b)
    BY <1>1, <1>2, OthersStay DEF Closes
  <2>2. row \in {"running", "partial", "ok"} /\ \A e \in Attempt : e # b => ~Open(e) /\ ~Wrote(e)
    BY <2>1 DEF IInv, KeptOut
  <2>3. a = b
    BY <1>1, <2>2 DEF Open
  <2>4. row' \in {"running", "partial", "ok"}
    BY <1>2, <2>1, <2>2, <2>3 DEF Outcome, Wrote
  <2> QED BY <1>1, <2>2, <2>3, <2>4, OthersStay
<1>8. Recalled'
  <2> SUFFICES ASSUME Remembered PROVE Recalled'
    BY <1>1, OthersStay DEF Recalled
  <2>1. ~call[a].late /\ ~call'[a].late /\ call[a].answer = "none"
    BY <1>1, <1>2 DEF IInv, Recalled, InOrder, Closes
  <2>2. (\E b \in Attempt : call[b].answer = "ok") => \E b \in Attempt : call'[b].answer = "ok"
    BY <1>1, <2>1, OthersStay
  <2>3. (\E b \in Attempt : call'[b].answer = "ok") => stored'
    <3>1. CASE ok
      BY <1>2, <3>1
    <3>2. CASE ~ok
      BY <1>1, <1>2, <3>2, OthersStay DEF IInv, Recalled, Closes
    <3> QED BY <3>1, <3>2
  <2>4. \A b \in Attempt : call'[b].late =>
          /\ \E e \in Attempt : call'[e].answer = "ok"
          /\ call'[b].pc \notin {"run", "return", "throw"} /\ ~Wrote(b)'
    BY <1>1, <2>1, <2>2, OthersStay DEF IInv, Recalled
  <2> QED BY <2>3, <2>4 DEF Recalled
<1> QED BY <1>4, <1>5, <1>6, <1>7, <1>8 DEF IInv

LEMMA StepKeeps == IInv /\ [Next]_vars => IInv'
<1> SUFFICES ASSUME IInv, [Next]_vars PROVE IInv'
  OBVIOUS
<1>1. CASE SwitchOff
  BY <1>1, SwitchOffKeeps
<1>2. ASSUME NEW a \in Attempt, Handle(a) PROVE IInv'
  BY <1>2, StartKeeps, PrepareKeeps, ClaimKeeps, ClaimFailsKeeps, LookupKeeps, RunKeeps, FinishKeeps DEF Handle
<1>3. CASE UNCHANGED vars
  <2>1. req' = req /\ row' = row /\ stored' = stored /\ call' = call /\ writesOn' = writesOn
    BY <1>3 DEF vars
  <2>2. /\ \A a \in Attempt : Wrote(a)' = Wrote(a) /\ Open(a)' = Open(a)
        /\ Program' = Program /\ Durable' = Durable /\ Remembered' = Remembered
        /\ Denied' = Denied /\ Unconfirmed' = Unconfirmed /\ Switched' = Switched
        /\ \A s : Plans(s)' = Plans(s)
    BY <2>1, SameRequest DEF Wrote, Open
  <2>3. Types' /\ InOrder' /\ Passed' /\ Planning'
    BY <2>1, <2>2 DEF IInv, Types, InOrder, Passed, Planning
  <2>4. Claims' /\ KeptOut' /\ Recalled'
    BY <2>1, <2>2 DEF IInv, Claims, KeptOut, Recalled
  <2> QED BY <2>3, <2>4 DEF IInv
<1> QED BY <1>1, <1>2, <1>3 DEF Next

THEOREM Invariance == Spec => []IInv
BY InitHolds, StepKeeps, PTL DEF Spec
-----------------------------------------------------------------------------
(* What follows from it.                                                   *)

\* A program that is never dry-run past its plan, and that writes, has a step that returns the plan.
LEMMA PlanStep ==
  ASSUME Types, (Hints[req.tool].dry /\ req.dry = "yes") \/ (req.tool \in DRY_RUN_FIRST_TOOLS /\ req.dry = "unset"),
         ~Quiet(Program)
  PROVE  \E d \in 1..Len(Program) : PlansAt(Program, d, {"dry", "dryFirst"}) /\ Plans(Program[d])
<1>0. req.tool \in AllTools /\ Program \in Programs(req.tool)
  BY ProgramFits
<1>1. CASE Hints[req.tool].dry /\ req.dry = "yes"
  <2>1. PICK d \in 1..Len(Program) : PlansAt(Program, d, {"dry", "dryFirst"})
    BY <1>0, <1>1, PreviewsPlan DEF PlansFirst
  <2>2. Plans(Program[d])
    BY <1>1, <2>1 DEF PlansAt, Plans
  <2> QED BY <2>1, <2>2
<1>2. CASE req.tool \in DRY_RUN_FIRST_TOOLS /\ req.dry = "unset"
  <2>1. PICK d \in 1..Len(Program) : PlansAt(Program, d, {"dryFirst"})
    BY <1>0, <1>2, PreviewsPlan DEF PlansFirst
  <2>2. Plans(Program[d])
    BY <1>2, <2>1 DEF PlansAt, Plans
  <2>3. PlansAt(Program, d, {"dry", "dryFirst"})
    BY <2>1 DEF PlansAt
  <2> QED BY <2>2, <2>3
<1> QED BY <1>1, <1>2

LEMMA PlanOnly == IInv => DryRunIsDry
BY PlanStep DEF IInv, DryRunIsDry, Planning, InOrder

LEMMA SwitchStops == IInv => SwitchHolds
<1> SUFFICES ASSUME IInv, req.tool # "change_plan_execute", NEW a \in Attempt, ~call[a].on
             PROVE  ~Wrote(a)
  BY DEF SwitchHolds
<1>1. ~Blocked(req.tool, FALSE, {})
  BY DEF IInv, Passed, Switched
<1>2. Quiet(Program)
  BY <1>1, ProgramFits, WritersSwitched DEF IInv
<1> QED BY <1>2 DEF IInv, InOrder

LEMMA OnlyPermitted == IInv => PermittedFirst
<1> SUFFICES ASSUME IInv, req.role # "off", ~req.via,
                    req.tool \notin {"raw_request", "find_or_create_contact", "change_plan_execute"},
                    NEW a \in Attempt, Wrote(a)
             PROVE  evaluatePermission(req.role, classifyRisk(req.tool))
  BY DEF PermittedFirst
<1>1. name = req.tool
  BY DEF name
<1>2. isMutatingTool(req.tool)
  BY ProgramFits, WritersMutate DEF IInv, InOrder
<1>3. ~Denied
  BY DEF IInv, Passed
<1> QED BY <1>1, <1>2, <1>3 DEF Denied

LEMMA OnlyConfirmed == IInv => ConfirmedFirst
<1> SUFFICES ASSUME IInv, ~req.via, classifyRisk(req.tool) \in {"destructive", "financial", "inventory-movement"},
                    req.dry = "yes" => Hints[req.tool].dry, NEW a \in Attempt, Wrote(a), ~req.confirm
             PROVE  FALSE
  BY DEF ConfirmedFirst
<1>1. name = req.tool
  BY DEF name
<1>2. ~Unconfirmed
  BY DEF IInv, Passed
<1>3. isDryRunCall
  BY <1>1, <1>2 DEF Unconfirmed, requiresExplicitConfirmation
<1>4. req.dry \in {"unset", "yes", "no"}
  BY DEF IInv, Types, Request
<1>5. (Hints[req.tool].dry /\ req.dry = "yes") \/ (req.tool \in DRY_RUN_FIRST_TOOLS /\ req.dry = "unset")
  BY <1>1, <1>3, <1>4 DEF isDryRunCall
<1> QED BY <1>5, PlanOnly DEF DryRunIsDry

LEMMA WrittenOnce == IInv => RetryWritesNothing
<1>1. {"first", "second"} \subseteq Attempt
  BY DEF Attempt
<1> QED BY <1>1 DEF IInv, KeptOut, Recalled, RetryWritesNothing

\* Types, and the place of each call: it stays inside its program, and a claim that is held
\* has its row running.
THEOREM Placed == Spec => []TypeOK
<1>1. IInv => TypeOK
  BY DEF IInv, Types, Calls, InOrder, Claims, TypeOK
<1> QED BY <1>1, Invariance, PTL

\* With write tools off, no call that starts changes anything, whichever tool it names and
\* however it is named: toolBlockReason, asked again inside execute_tool.
THEOREM SwitchedOffIsOff == Spec => []SwitchHolds
BY Invariance, SwitchStops, PTL

\* A dry run returns its plan before anything is written, on every path of the handler.
THEOREM PlansOnly == Spec => []DryRunIsDry
BY Invariance, PlanOnly, PTL

\* What needs confirm:true is written only with it: what the confirm gate lets past as a
\* dry run (isDryRunCall) is one.
THEOREM NothingUnconfirmed == Spec => []ConfirmedFirst
BY Invariance, OnlyConfirmed, PTL

\* A role writes only what its risk class allows, by a typed tool that is called directly.
THEOREM NothingUnpermitted == Spec => []PermittedFirst
BY Invariance, OnlyPermitted, PTL

\* A repeated request is written once: by one attempt under a durable key, whatever fails,
\* and by no attempt after a result under a remembered one.
THEOREM OnceOnly == Spec => []RetryWritesNothing
BY Invariance, WrittenOnce, PTL
==============================================================================
