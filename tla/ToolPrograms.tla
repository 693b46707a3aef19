---------------------------- MODULE ToolPrograms ----------------------------
(***************************************************************************)
(* The vocabulary the tools' requests are written in.  What a tool does    *)
(* toward Autotask is a PROGRAM: a sequence of steps, each one request (or *)
(* one run of reads with nothing between them), one early return, or one   *)
(* branch.  A step is                                                      *)
(*   op     "read", "peek", "create", "update", "delete": requests to       *)
(*          Autotask; "ends": the handler may return here; "dry",          *)
(*          "dryFirst": it returns here on a dry run; "fork": it goes on   *)
(*          or jumps; "jump": it jumps                                     *)
(*   on     the entities the request reads or writes                       *)
(*   root   the first segment of the path a write is sent to               *)
(*   fails  how far to jump when the request fails (0: the call throws)    *)
(*   by     how far a fork or a jump goes                                  *)
(* Jumps are relative, so programs concatenate.                            *)
(***************************************************************************)
EXTENDS Integers, Sequences

Step(op, on, root) == <<[op |-> op, on |-> on, root |-> root, fails |-> 0, by |-> 0]>>

\* Reads through the client: get, query, queryByIds, childQuery, fieldInfo.
Look(E) == Step("read", E, "")
\* Reads no cache can answer: sent with noCache, or by an id Autotask has just given.
Peek(E) == Step("peek", E, "")

\* Writes: to /Entity, or to the child route /Parent/{id}/Entity.
Create(e) == Step("create", {e}, e)
Update(e) == Step("update", {e}, e)
Delete(e) == Step("delete", {e}, e)
ChildCreate(parent, e) == Step("create", {e}, parent)
ChildUpdate(parent, e) == Step("update", {e}, parent)
ChildDelete(parent, e) == Step("delete", {e}, parent)

\* An early return: a missing record, a refusal, a choice handed back to the caller.
Ends == Step("ends", {}, "")
\* Dry returns the plan when dryRun is true, DryFirst unless dryRun is false.
Dry == Step("dry", {}, "")
DryFirst == Step("dryFirst", {}, "")

\* Control: s or nothing; s any number of times; s or t.
Branch(op, by) == <<[op |-> op, on |-> {}, root |-> "", fails |-> 0, by |-> by]>>
Maybe(s) == Branch("fork", Len(s) + 1) \o s
Each(s) == Branch("fork", Len(s) + 2) \o s \o Branch("jump", -(Len(s) + 1))
Either(s, t) == Branch("fork", Len(s) + 2) \o s \o Branch("jump", Len(t) + 1) \o t

\* A failure inside s is caught where s ends.
Tried(s) == [i \in DOMAIN s |-> IF s[i].fails = 0 THEN [s[i] EXCEPT !.fails = Len(s) + 1 - i] ELSE s[i]]
Glance(E) == Tried(Look(E))
\* A failure inside s ends the tool with an explanation.
Returns == 1000
Refused(s) == [i \in DOMAIN s |-> IF s[i].fails = 0 THEN [s[i] EXCEPT !.fails = Returns] ELSE s[i]]

Writes == {"create", "update", "delete"}
=============================================================================
