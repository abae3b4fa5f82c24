------------------------ MODULE RecurringOrder_proofs ------------------------
(***************************************************************************)
(* Proofs about RecurringOrder, for any number of sessions, requests, keys *)
(* and drafts: types; one order per key; what is sent is known to the      *)
(* store; what was reported is true; and all of it implements Submission.  *)
(***************************************************************************)
EXTENDS RecurringOrder, TLAPS

\* A request is in the code of its own call, and answers when it is done.
Ops ==
  \A r \in Req :
    /\ req[r].pc \in Creating => req[r].op = "create"
    /\ req[r].pc \in Executing => req[r].op = "execute"
    /\ req[r].out # "error" =>
         req[r].pc = "release" /\ (req[r].op = "create" <=> req[r].out = "draft")
    /\ \A s \in Session : flow[s].call = r => flow[s].pc # "form"

\* Who is in a section holds its lock.
Locked == \A r \in Req : InSection(r) => lock[Name(r)] = r

\* The drafts that their key's record names and that nobody may still take back.
Named ==
  {d \in Draft :
     /\ built[d] \in Key /\ reserved[built[d]] = d
     /\ \A r \in Req : req[r].pc \in {"build", "store", "drop"} => req[r].draft # d}

\* Everything given out is named by its key's record for good.
Given ==
  /\ \A k \in Key : reserved[k] \in Draft => built[reserved[k]] = k
  /\ \A d \in Draft : tx[d] # "unsent" \/ told[d] # {} => d \in Named
  /\ \A s \in Session : flow[s].pc \in {"sign", "execute"} => flow[s].draft \in Named
  /\ \A r \in Req :
       /\ req[r].pc # "idle" /\ req[r].op = "execute" => req[r].draft \in Named
       /\ req[r].pc = "redraft" \/ req[r].out = "draft" => req[r].draft \in Named
       /\ req[r].pc \in {"build", "store", "drop"} =>
            req[r].draft \in Draft /\ built[req[r].draft] = req[r].key
              /\ reserved[req[r].key] = req[r].draft
       /\ req[r].pc = "reserve" => reserved[req[r].key] = NoDraft

\* What was sent, is being sent, or may still be deleted.
Written ==
  /\ KnownBeforeSent
  /\ \A r \in Req :
       /\ req[r].pc \in {"send", "answer", "keep"} =>
            order[req[r].draft] \in {"submitting", "completed"}
       /\ req[r].pc = "delete" => tx[req[r].draft] = "unsent"
                                  /\ order[req[r].draft] \in {"none", "pending"}

Placed ==
  /\ DoneIsPlaced
  /\ \A r \in Req : req[r].pc = "keep" \/ req[r].out = "done" => tx[req[r].draft] = "landed"

\* Nothing of the draft is left, and nobody is past reading it.
Gone ==
  {d \in Draft :
     /\ tx[d] = "unsent" /\ order[d] = "none"
     /\ \A r \in Req : req[r].pc \in Executing \ {"read"} => req[r].draft # d}

Over ==
  /\ \A d \in Draft : "expired" \in told[d] => d \in Gone
  /\ \A r \in Req : req[r].out = "expired" => req[r].draft \in Gone

IInv == TypeOK /\ Ops /\ Placed /\ (~Outlives => Locked /\ Given /\ Written /\ Over)
-----------------------------------------------------------------------------
\* The idle record is a request.
LEMMA IdleType == Idle \in Request
BY DEF Idle, Request

\* The empty form is a flow.
LEMMA NoFlowType == NoFlow \in Flow
BY DEF NoFlow, Flow

\* What the assignments to a request do to it.
LEMMA Moved ==
  ASSUME TypeOK, NEW r \in Req
  PROVE  /\ \A pc : Go(r, pc) =>
              /\ req'[r].pc = pc /\ req'[r].op = req[r].op /\ req'[r].key = req[r].key
              /\ req'[r].draft = req[r].draft /\ req'[r].out = req[r].out
              /\ \A q \in Req \ {r} : req'[q] = req[q]
         /\ \A out : Out(r, out) =>
              /\ req'[r].pc = "release" /\ req'[r].op = req[r].op /\ req'[r].key = req[r].key
              /\ req'[r].draft = req[r].draft /\ req'[r].out = out
              /\ \A q \in Req \ {r} : req'[q] = req[q]
<1>0. req[r] \in Request /\ req \in [Req -> Request]
  BY DEF TypeOK
<1>1. ASSUME NEW pc, Go(r, pc)
      PROVE  /\ req'[r].pc = pc /\ req'[r].op = req[r].op /\ req'[r].key = req[r].key
             /\ req'[r].draft = req[r].draft /\ req'[r].out = req[r].out
             /\ \A q \in Req \ {r} : req'[q] = req[q]
  <2>1. req'[r] = [req[r] EXCEPT !.pc = pc]
    BY <1>0, <1>1 DEF Go
  <2> QED BY <1>0, <1>1, <2>1 DEF Go, Request
<1>2. ASSUME NEW out, Out(r, out)
      PROVE  /\ req'[r].pc = "release" /\ req'[r].op = req[r].op /\ req'[r].key = req[r].key
             /\ req'[r].draft = req[r].draft /\ req'[r].out = out
             /\ \A q \in Req \ {r} : req'[q] = req[q]
  <2>1. req'[r] = [req[r] EXCEPT !.pc = "release", !.out = out]
    BY <1>0, <1>2 DEF Out
  <2> QED BY <1>0, <1>2, <2>1 DEF Out, Request
<1> QED BY <1>1, <1>2

\* The steps of a request that do not answer.
Works(r) ==
  \/ Throw(r) \/ Die(r)
  \/ Lookup(r) \/ Redraft(r) \/ Reserve(r) \/ Build(r) \/ Store(r) \/ Drop(r)
  \/ Read(r) \/ Delete(r) \/ Status(r) \/ Ahead(r) \/ Send(r) \/ Answered(r) \/ Keep(r)

\* A request of the right shape.
Good(new) ==
  /\ new \in Request
  /\ new.pc # "idle" => IF new.op = "create" THEN new.key \in Key ELSE new.draft \in Draft
  /\ new.pc \in {"redraft", "build", "store"} \/ new.out # "error" => new.draft \in Draft

\* A step of r gives it a record of the right shape and leaves the others.
OneMoves(r) ==
  /\ req' \in [Req -> Request]
  /\ \A q \in Req \ {r} : req'[q] = req[q]
  /\ Good(req'[r])

\* Replacing one record by a good one is a step of that request only.
LEMMA Becomes ==
  ASSUME TypeOK, NEW r \in Req, NEW new, Good(new), req' = [req EXCEPT ![r] = new]
  PROVE  OneMoves(r) /\ req'[r] = new
BY DEF TypeOK, OneMoves, Good

(***************************************************************************)
(* Every step of a request replaces its record by one of the right shape.  *)
(***************************************************************************)
LEMMA Shape ==
  ASSUME TypeOK, Ops, NEW r \in Req, Works(r)
  PROVE  OneMoves(r)
<1>a. Good(req[r])
  BY DEF TypeOK, Good
<1>b. ASSUME NEW pc \in {"lookup", "reserve", "drop"} \cup Executing, Go(r, pc),
             req[r].pc \in Creating \cup Executing
      PROVE  OneMoves(r)
  <2>1. Good([req[r] EXCEPT !.pc = pc])
    BY <1>a, <1>b DEF Request, Good, Creating, Executing
  <2>2. req' = [req EXCEPT ![r] = [req[r] EXCEPT !.pc = pc]]
    BY <1>b DEF Go
  <2> QED BY <2>1, <2>2, Becomes
<1>c. ASSUME NEW out \in {"error", "draft", "done", "expired"}, Out(r, out),
             out # "error" => req[r].draft \in Draft,
             req[r].pc \in Creating \cup Executing \cup {"release"}
      PROVE  OneMoves(r)
  <2>1. Good([req[r] EXCEPT !.pc = "release", !.out = out])
    BY <1>a, <1>c DEF Request, Good, Creating, Executing
  <2>2. req' = [req EXCEPT ![r] = [req[r] EXCEPT !.pc = "release", !.out = out]]
    BY <1>c DEF Out
  <2> QED BY <2>1, <2>2, Becomes
<1>d. req[r].pc \in Executing => req[r].draft \in Draft
  BY DEF TypeOK, Ops, Executing
<1>e. req[r].pc \in Creating => req[r].key \in Key
  BY DEF TypeOK, Ops, Creating
<1>f. ASSUME req[r].pc \in Creating \cup Executing, Thrown(r) PROVE OneMoves(r)
  BY <1>b, <1>c, <1>f DEF Thrown
<1>1. CASE Throw(r)
  BY <1>1, <1>f DEF Throw
<1>2. CASE Die(r)
  <2>1. Good(Idle)
    BY IdleType DEF Good, Idle
  <2> QED BY <1>2, <2>1, Becomes DEF Die
<1>3. CASE Lookup(r)
  <2> DEFINE d == reserved[req[r].key]
             new == [req[r] EXCEPT !.pc = IF d = NoDraft THEN "reserve" ELSE "redraft", !.draft = d]
  <2>1. req[r].key \in Key /\ d \in Draft \cup {NoDraft}
    BY <1>3, <1>e DEF Lookup, At, TypeOK, Creating
  <2>2. Good(new)
    BY <1>3, <1>a, <2>1, RecurringOrderAssumption
    DEF Lookup, At, Good, Request, Creating, TypeOK, Ops
  <2>3. req' = [req EXCEPT ![r] = new]
    BY <1>3 DEF Lookup
  <2> QED BY <2>2, <2>3, Becomes
<1>4. CASE Redraft(r)
  BY <1>4, <1>a, <1>c DEF Redraft, At, Good, Creating
<1>5. CASE Reserve(r)
  <2>1. PICK d \in Draft : \/ req' = [req EXCEPT ![r].pc = "build", ![r].draft = d]
                           \/ Out(r, "error")
    BY <1>5 DEF Reserve
  <2>2. CASE Out(r, "error")
    BY <1>5, <1>c, <2>2 DEF Reserve, At, Creating
  <2>3. CASE req' = [req EXCEPT ![r].pc = "build", ![r].draft = d]
    <3>1. Good([req[r] EXCEPT !.pc = "build", !.draft = d])
      BY <1>5, <1>a, <1>e DEF Reserve, At, Good, Request, Creating
    <3>2. req' = [req EXCEPT ![r] = [req[r] EXCEPT !.pc = "build", !.draft = d]]
      BY <2>3
    <3> QED BY <3>1, <3>2, Becomes
  <2> QED BY <2>1, <2>2, <2>3
<1>6. CASE Build(r)
  <2>1. Good([req[r] EXCEPT !.pc = "store"])
    BY <1>6, <1>a DEF Build, At, Good, Request, Creating
  <2>2. req' = [req EXCEPT ![r] = [req[r] EXCEPT !.pc = "store"]]
    BY <1>6 DEF Build, Go
  <2> QED BY <2>1, <2>2, Becomes
<1>7. CASE Store(r)
  BY <1>7, <1>a, <1>c, <1>f DEF Store, At, Good, Creating
<1>8. CASE Drop(r)
  BY <1>8, <1>c DEF Drop, At, Creating
<1>9. CASE Read(r)
  BY <1>9, <1>b, <1>c, <1>d DEF Read, At, Executing
<1>10. CASE Delete(r)
  BY <1>10, <1>c, <1>d DEF Delete, At, Executing
<1>11. CASE Status(r) \/ Ahead(r) \/ Send(r) \/ Answered(r)
  BY <1>11, <1>b DEF Status, Ahead, Send, Answered, At, Executing
<1>12. CASE Keep(r)
  BY <1>12, <1>c, <1>d DEF Keep, At, Executing
<1> QED BY <1>1, <1>2, <1>3, <1>4, <1>5, <1>6, <1>7, <1>8, <1>9, <1>10, <1>11, <1>12 DEF Works
-----------------------------------------------------------------------------
(***************************************************************************)
(* The other steps: a session's own, the call of a request, and the two    *)
(* that may answer it.                                                     *)
(***************************************************************************)
Taps(s) == Review(s) \/ Cancel(s) \/ Leave(s)
Starts(s, r) == Confirm(s, r) \/ Sign(s, r)
Ends(r) == Acquire(r) \/ Release(r)

\* Every step is one of the device, of a request, of the store or of the chain.
LEMMA Steps ==
  ASSUME [Next]_vars
  PROVE  \/ \E s \in Session : Taps(s)
         \/ \E s \in Session, r \in Req : Starts(s, r)
         \/ \E r \in Req : Works(r)
         \/ \E r \in Req : Ends(r)
         \/ \E d \in Draft : Expire(d) \/ Settle(d)
         \/ \E n \in Key \cup Draft : LockExpires(n)
         \/ UNCHANGED vars
BY DEF Next, Taps, Starts, Works, Ends

\* A session's own step puts nothing at risk.
LEMMA Tapped ==
  ASSUME TypeOK, NEW s \in Session, Taps(s)
  PROVE  /\ flow' \in [Session -> Flow] /\ identity' \in Key \cup {NoKey}
         /\ minted' \subseteq Key /\ calledOff' \subseteq Key
         /\ \A t \in Session \ {s} : flow'[t] = flow[t]
         /\ flow'[s].pc \in {"form", "review"} /\ flow'[s].call = NoReq
         /\ flow'[s].pc = "review" => flow'[s].key \in Key
         /\ UNCHANGED <<told, store, req, tx>>
<1>1. CASE Review(s)
  <2>1. PICK k \in Key : /\ identity' = k /\ minted' = minted \cup {k}
                         /\ flow' = [flow EXCEPT ![s] = [NoFlow EXCEPT !.pc = "review", !.key = k]]
    BY <1>1 DEF Review, TypeOK
  <2>2. [NoFlow EXCEPT !.pc = "review", !.key = k] \in Flow
    BY NoFlowType DEF Flow
  <2> QED BY <1>1, <2>1, <2>2 DEF Review, TypeOK, NoFlow
<1>2. CASE Cancel(s)
  BY <1>2, NoFlowType DEF Cancel, Cleared, TypeOK, NoFlow
<1>3. CASE Leave(s)
  BY <1>3, NoFlowType DEF Leave, TypeOK, NoFlow
<1> QED BY <1>1, <1>2, <1>3 DEF Taps

\* A call gives an idle request what its session knows.
LEMMA Started ==
  ASSUME TypeOK, NEW s \in Session, NEW r \in Req, Starts(s, r)
  PROVE  /\ OneMoves(r) /\ req[r].pc = "idle" /\ req'[r].pc = "lock" /\ req'[r].out = "error"
         /\ flow' \in [Session -> Flow]
         /\ \A t \in Session \ {s} : flow'[t] = flow[t]
         /\ flow'[s].key \in Key /\ flow'[s].draft = flow[s].draft /\ flow'[s].call = r
         /\ \/ flow[s].pc = "review" /\ flow'[s].pc = "create" /\ req'[r].op = "create"
            \/ /\ flow[s].pc = "sign" /\ flow'[s].pc = "execute" /\ req'[r].op = "execute"
               /\ req'[r].draft = flow[s].draft /\ flow[s].draft \in Draft
         /\ UNCHANGED <<identity, minted, calledOff, told, store, tx>>
<1>0. flow[s] \in Flow /\ flow \in [Session -> Flow]
  BY DEF TypeOK
<1>1. ASSUME NEW op \in {"create", "execute"}, NEW pc \in {"create", "execute"},
             Call(s, r, op, pc), flow[s].key \in Key, op = "execute" => flow[s].draft \in Draft
      PROVE  /\ OneMoves(r) /\ req[r].pc = "idle" /\ req'[r].pc = "lock" /\ req'[r].out = "error"
             /\ flow' \in [Session -> Flow]
             /\ \A t \in Session \ {s} : flow'[t] = flow[t]
             /\ flow'[s].key \in Key /\ flow'[s].draft = flow[s].draft /\ flow'[s].call = r
             /\ flow'[s].pc = pc /\ req'[r].op = op /\ req'[r].draft = flow[s].draft
             /\ UNCHANGED <<identity, minted, calledOff, told, store, tx>>
  <2> DEFINE new == [Idle EXCEPT !.pc = "lock", !.op = op, !.key = flow[s].key,
                                 !.draft = flow[s].draft]
             mine == [flow[s] EXCEPT !.pc = pc, !.call = r]
  <2>1. Good(new) /\ new.pc = "lock" /\ new.op = op /\ new.out = "error"
          /\ new.draft = flow[s].draft
    BY <1>0, <1>1 DEF Good, Idle, Request, Flow
  <2>2. OneMoves(r) /\ req'[r] = new
    <3>1. req' = [req EXCEPT ![r] = new]
      BY <1>1 DEF Call
    <3> QED BY <2>1, <3>1, Becomes
  <2>3. mine \in Flow /\ mine.key = flow[s].key /\ mine.draft = flow[s].draft
          /\ mine.call = r /\ mine.pc = pc
    BY <1>0, <1>1 DEF Flow
  <2>4. flow' = [flow EXCEPT ![s] = mine]
    BY <1>1 DEF Call
  <2>5. flow'[s] = mine /\ flow' \in [Session -> Flow] /\ \A t \in Session \ {s} : flow'[t] = flow[t]
    BY <1>0, <2>3, <2>4
  <2> QED BY <1>1, <2>1, <2>2, <2>3, <2>5 DEF Call, At
<1>2. CASE Confirm(s, r)
  <2>1. flow[s].pc = "review" /\ flow[s].key \in Key /\ Call(s, r, "create", "create")
    BY <1>2 DEF Confirm, TypeOK
  <2> QED BY <1>1, <2>1
<1>3. CASE Sign(s, r)
  <2>1. flow[s].pc = "sign" /\ flow[s].key \in Key /\ flow[s].draft \in Draft
          /\ Call(s, r, "execute", "execute")
    BY <1>3 DEF Sign, TypeOK
  <2> QED BY <1>1, <2>1
<1> QED BY <1>2, <1>3 DEF Starts

\* An answer ends the request, and is heard by those that wait for it.
LEMMA Ended ==
  ASSUME TypeOK, Ops, NEW r \in Req, Answer(r)
  PROVE  /\ OneMoves(r) /\ req'[r] = Idle
         /\ flow' \in [Session -> Flow] /\ identity' \in Key \cup {NoKey}
         /\ UNCHANGED <<minted, calledOff>>
         /\ \A s \in Session :
              \/ flow'[s] = flow[s] /\ flow[s].call # r
              \/ flow'[s] = NoFlow
              \/ /\ req[r].out = "draft" /\ flow'[s].pc = "sign" /\ flow'[s].call = NoReq
                 /\ flow'[s].draft = req[r].draft /\ flow'[s].key \in Key
                 /\ req[r].draft \in Draft
         /\ told' \in [Draft -> SUBSET {"done", "expired"}]
         /\ \A d \in Draft :
              \/ told'[d] = told[d]
              \/ /\ d = req[r].draft /\ req[r].out \in {"done", "expired"}
                 /\ told'[d] = told[d] \cup {req[r].out}
<1> DEFINE waiting == {s \in Session : flow[s].call = r}
           heard == req[r].out \in {"done", "expired"} /\ waiting # {}
<1>1. /\ flow' = [s \in Session |-> IF s \in waiting THEN Heard(flow[s], r) ELSE flow[s]]
      /\ told' = IF heard THEN [told EXCEPT ![req[r].draft] = @ \cup {req[r].out}] ELSE told
      /\ identity' = IF heard /\ req[r].out = "done" THEN Cleared(req[r].key) ELSE identity
      /\ req' = [req EXCEPT ![r] = Idle]
      /\ UNCHANGED <<minted, calledOff>>
  BY DEF Answer
<1>2. req[r].out # "error" => req[r].draft \in Draft
  BY DEF TypeOK
<1>3. OneMoves(r) /\ req'[r] = Idle
  <2>1. Good(Idle)
    BY IdleType DEF Good, Idle
  <2> QED BY <1>1, <2>1, Becomes
<1>4. ASSUME NEW s \in waiting
      PROVE  \/ Heard(flow[s], r) = NoFlow
             \/ /\ Heard(flow[s], r) \in Flow
                /\ req[r].out = "draft" /\ Heard(flow[s], r).pc = "sign"
                /\ Heard(flow[s], r).call = NoReq
                /\ Heard(flow[s], r).draft = req[r].draft /\ Heard(flow[s], r).key \in Key
                /\ req[r].draft \in Draft
  <2>1. flow[s] \in Flow /\ flow[s].key \in Key
    BY DEF TypeOK, Ops
  <2> QED BY <1>2, <2>1 DEF Heard, Flow
<1>5. \A s \in Session : flow'[s] = IF s \in waiting THEN Heard(flow[s], r) ELSE flow[s]
  BY <1>1
<1>6. \A s \in Session : flow'[s] \in Flow
  BY <1>4, <1>5, NoFlowType DEF TypeOK
<1>7. flow' \in [Session -> Flow]
  BY <1>1, <1>6
<1>8. identity' \in Key \cup {NoKey}
  BY <1>1 DEF Cleared, TypeOK
<1>9. told' \in [Draft -> SUBSET {"done", "expired"}]
      /\ \A d \in Draft :
              \/ told'[d] = told[d]
              \/ /\ d = req[r].draft /\ req[r].out \in {"done", "expired"}
                 /\ told'[d] = told[d] \cup {req[r].out}
  BY <1>1, <1>2 DEF TypeOK
<1> QED BY <1>1, <1>3, <1>4, <1>5, <1>7, <1>8, <1>9
-----------------------------------------------------------------------------
\* Every step keeps the types.
LEMMA TypeInductive == TypeOK /\ Ops /\ [Next]_vars => TypeOK'
<1> SUFFICES ASSUME TypeOK, Ops, [Next]_vars PROVE TypeOK'
  OBVIOUS
<1> DEFINE ReqOK == /\ req' \in [Req -> Request]
                    /\ \A r \in Req : Good(req'[r])
<1>a. ASSUME NEW r \in Req, OneMoves(r) PROVE ReqOK
  BY <1>a DEF OneMoves, Good, TypeOK
<1>1. CASE \E s \in Session : Taps(s)
  <2>1. PICK s \in Session : Taps(s)
    BY <1>1
  <2> QED BY <2>1, Tapped DEF TypeOK, store
<1>2. CASE \E s \in Session, r \in Req : Starts(s, r)
  <2>1. PICK s \in Session, r \in Req : Starts(s, r)
    BY <1>2
  <2>2. OneMoves(r)
    BY <2>1, Started
  <2>3. /\ flow' \in [Session -> Flow]
        /\ \A t \in Session :
             /\ flow'[t].pc # "form" => flow'[t].key \in Key
             /\ flow'[t].pc \in {"sign", "execute"} => flow'[t].draft \in Draft
    BY <2>1, Started DEF TypeOK
  <2>4. UNCHANGED <<identity, minted, calledOff, told, reserved, built, order, lock, tx>>
    BY <2>1, Started DEF store
  <2> QED BY <1>a, <2>2, <2>3, <2>4 DEF TypeOK, Good
<1>3. CASE \E r \in Req : Works(r)
  <2>1. PICK r \in Req : Works(r)
    BY <1>3
  <2>2. OneMoves(r) /\ ReqOK
    BY <1>a, <2>1, Shape
  <2>3. UNCHANGED <<identity, minted, flow, calledOff, told>> /\ lock' = lock
    BY <2>1 DEF Works, Throw, Die, Lookup, Redraft, Reserve, Build, Store, Drop, Read, Delete,
                Status, Ahead, Send, Answered, Keep, device, store
  <2>k. req[r].pc \in Creating => req[r].key \in Key
    BY DEF TypeOK, Ops, Creating
  <2>4. reserved' \in [Key -> Draft \cup {NoDraft}] /\ built' \in [Draft -> Key \cup {NoKey}]
    <3>1. CASE Reserve(r)
      BY <2>k, <3>1 DEF Reserve, At, Creating, TypeOK
    <3>2. CASE Drop(r)
      BY <2>k, <3>2 DEF Drop, At, Creating, TypeOK
    <3>3. CASE ~Reserve(r) /\ ~Drop(r)
      BY <2>1, <3>3 DEF Works, Throw, Die, Lookup, Redraft, Build, Store, Read, Delete,
                        Status, Ahead, Send, Answered, Keep, device, store, TypeOK
    <3> QED BY <3>1, <3>2, <3>3
  <2>5. order' \in [Draft -> {"none", "pending", "submitting", "completed"}]
    BY <2>1 DEF Works, Throw, Die, Lookup, Redraft, Reserve, Build, Store, Drop, Read, Delete,
                Status, Ahead, Send, Answered, Keep, device, store, TypeOK
  <2>6. tx' \in [Draft -> {"unsent", "sent", "landed", "failed"}]
    BY <2>1 DEF Works, Throw, Die, Lookup, Redraft, Reserve, Build, Store, Drop, Read, Delete,
                Status, Ahead, Send, Answered, Keep, device, store, TypeOK
  <2> QED BY <2>2, <2>3, <2>4, <2>5, <2>6 DEF TypeOK, Good
<1>4. CASE \E r \in Req : Ends(r)
  <2>1. PICK r \in Req : Ends(r)
    BY <1>4
  <2>2. UNCHANGED <<reserved, built, order, tx>>
    BY <2>1 DEF Ends, Acquire, Release
  <2>3. lock' \in [Key \cup Draft -> Req \cup {NoReq}]
    BY <2>1 DEF Ends, Acquire, Release, TypeOK
  <2>4. CASE Answer(r)
    <3>1. ReqOK /\ told' \in [Draft -> SUBSET {"done", "expired"}]
            /\ identity' \in Key \cup {NoKey} /\ UNCHANGED <<minted, calledOff>>
      BY <1>a, <2>4, Ended
    <3>2. /\ flow' \in [Session -> Flow]
          /\ \A t \in Session :
               /\ flow'[t].pc # "form" => flow'[t].key \in Key
               /\ flow'[t].pc \in {"sign", "execute"} => flow'[t].draft \in Draft
      BY <2>4, Ended DEF TypeOK, NoFlow
    <3> QED BY <2>2, <2>3, <3>1, <3>2 DEF TypeOK, Good
  <2>5. CASE \E pc \in {"lookup", "read"} : Go(r, pc) /\ UNCHANGED device /\ At(r, "lock")
    <3>1. PICK pc \in {"lookup", "read"} : Go(r, pc) /\ UNCHANGED device /\ At(r, "lock")
      BY <2>5
    <3>2. Good([req[r] EXCEPT !.pc = pc])
      BY <3>1 DEF Good, Request, TypeOK, At, Creating, Executing
    <3>3. OneMoves(r)
      BY <3>1, <3>2, Becomes DEF Go
    <3> QED BY <1>a, <2>2, <2>3, <3>1, <3>3 DEF TypeOK, Good, device
  <2>6. Answer(r) \/ \E pc \in {"lookup", "read"} : Go(r, pc) /\ UNCHANGED device /\ At(r, "lock")
    BY <2>1 DEF Ends, Acquire, Release
  <2> QED BY <2>4, <2>5, <2>6
<1>5. CASE \E d \in Draft : Expire(d) \/ Settle(d)
  BY <1>5 DEF Expire, Settle, device, store, TypeOK
<1>6. CASE \E n \in Key \cup Draft : LockExpires(n)
  BY <1>6 DEF LockExpires, device, TypeOK
<1>7. CASE UNCHANGED vars
  BY <1>7 DEF vars, device, store, TypeOK
<1> QED BY <1>1, <1>2, <1>3, <1>4, <1>5, <1>6, <1>7, Steps

\* The two outcomes of an attempt to acquire, and the release.
LEMMA Ending ==
  ASSUME TypeOK, NEW r \in Req, Ends(r)
  PROVE  \/ /\ At(r, "lock") /\ lock[Name(r)] = NoReq /\ lock' = [lock EXCEPT ![Name(r)] = r]
            /\ Go(r, IF req[r].op = "create" THEN "lookup" ELSE "read") /\ UNCHANGED device
         \/ At(r, "lock") /\ Answer(r) /\ UNCHANGED lock
         \/ /\ At(r, "release") /\ Answer(r)
            /\ \A n \in Key \cup Draft : lock'[n] # lock[n] => lock[n] = r
BY DEF Ends, Acquire, Release, TypeOK

\* A request stays in the code of its own call until it has an answer.
LEMMA OpsInductive == TypeOK /\ Ops /\ [Next]_vars => Ops'
<1> SUFFICES ASSUME TypeOK, Ops, [Next]_vars PROVE Ops'
  OBVIOUS
<1> DEFINE One(q) ==
      /\ req'[q].pc \in Creating => req'[q].op = "create"
      /\ req'[q].pc \in Executing => req'[q].op = "execute"
      /\ req'[q].out # "error" =>
           req'[q].pc = "release" /\ (req'[q].op = "create" <=> req'[q].out = "draft")
<1> DEFINE Calls == \A q \in Req, s \in Session : flow'[s].call = q => flow'[s].pc # "form"
<1>a. ASSUME \A q \in Req : One(q), Calls PROVE Ops'
  BY <1>a DEF Ops
<1>b. \A q \in Req : req'[q] = req[q] => One(q)
  BY DEF Ops
<1>c. ASSUME flow' = flow PROVE Calls
  BY <1>c DEF Ops
<1>1. CASE \E s \in Session : Taps(s)
  <2>1. PICK s \in Session : Taps(s)
    BY <1>1
  <2>2. req' = req /\ Calls
    BY <2>1, Tapped, RecurringOrderAssumption DEF Ops
  <2> QED BY <1>a, <1>b, <2>2
<1>2. CASE \E s \in Session, r \in Req : Starts(s, r)
  <2>1. PICK s \in Session, r \in Req : Starts(s, r)
    BY <1>2
  <2>2. Calls
    BY <2>1, Started DEF Ops
  <2>3. One(r)
    BY <2>1, Started DEF Creating, Executing
  <2>4. \A q \in Req \ {r} : req'[q] = req[q]
    BY <2>1, Started DEF OneMoves
  <2> QED BY <1>a, <1>b, <2>2, <2>3, <2>4
<1>3. CASE \E r \in Req : Works(r)
  <2>1. PICK r \in Req : Works(r)
    BY <1>3
  <2>2. flow' = flow
    BY <2>1 DEF Works, Throw, Die, Lookup, Redraft, Reserve, Build, Store, Drop, Read, Delete,
                Status, Ahead, Send, Answered, Keep, device, store
  <2>3. \A q \in Req \ {r} : req'[q] = req[q]
    BY <2>1, Shape DEF OneMoves
  <2>o. req[r].pc \in Creating \cup Executing => req[r].out = "error"
    BY DEF Ops, Creating, Executing
  <2>4. One(r)
    <3>1. CASE Die(r)
      <4>1. req'[r] = Idle
        BY <3>1 DEF Die, TypeOK
      <4> QED BY <4>1 DEF Idle, Creating, Executing
    <3>2. CASE Lookup(r)
      <4> DEFINE d == reserved[req[r].key]
      <4>1. req'[r] = [req[r] EXCEPT !.pc = IF d = NoDraft THEN "reserve" ELSE "redraft",
                                     !.draft = d]
        BY <3>2 DEF Lookup, TypeOK
      <4>2. req'[r].pc \in {"reserve", "redraft"} /\ req'[r].op = req[r].op
              /\ req'[r].out = req[r].out
        BY <4>1 DEF TypeOK, Request
      <4> QED BY <2>o, <3>2, <4>2 DEF Lookup, At, Ops, Creating, Executing
    <3>3. CASE Reserve(r)
      <4>1. PICK d \in Draft : req' = [req EXCEPT ![r].pc = "build", ![r].draft = d]
                               \/ Out(r, "error")
        BY <3>3 DEF Reserve
      <4>2. CASE Out(r, "error")
        BY <4>2, Moved DEF Creating, Executing
      <4>3. CASE req' = [req EXCEPT ![r].pc = "build", ![r].draft = d]
        <5>1. req'[r] = [req[r] EXCEPT !.pc = "build", !.draft = d]
          BY <4>3 DEF TypeOK
        <5>2. req'[r].pc = "build" /\ req'[r].op = req[r].op /\ req'[r].out = req[r].out
          BY <5>1 DEF TypeOK, Request
        <5> QED BY <2>o, <3>3, <5>2 DEF Reserve, At, Ops, Creating, Executing
      <4> QED BY <4>1, <4>2, <4>3
    <3>4. CASE Throw(r)
      BY <2>o, <3>4, Moved DEF Throw, Thrown, Owns, Ops, Creating, Executing
    <3>5. CASE Redraft(r) \/ Build(r) \/ Store(r) \/ Drop(r)
      BY <2>o, <3>5, Moved DEF Redraft, Build, Store, Drop, Thrown, At, Ops, Creating, Executing
    <3>6. CASE Read(r) \/ Delete(r) \/ Status(r) \/ Ahead(r) \/ Send(r) \/ Answered(r) \/ Keep(r)
      BY <2>o, <3>6, Moved DEF Read, Delete, Status, Ahead, Send, Answered, Keep, At, Ops,
                               Creating, Executing
    <3> QED BY <2>1, <3>1, <3>2, <3>3, <3>4, <3>5, <3>6 DEF Works
  <2> QED BY <1>a, <1>b, <1>c, <2>2, <2>3, <2>4
<1>4. CASE \E r \in Req : Ends(r)
  <2>1. PICK r \in Req : Ends(r)
    BY <1>4
  <2>2. CASE Answer(r)
    <3>1. Calls
      BY <2>2, Ended, RecurringOrderAssumption DEF Ops, NoFlow
    <3>2. One(r)
      BY <2>2, Ended DEF Idle, Creating, Executing
    <3>3. \A q \in Req \ {r} : req'[q] = req[q]
      BY <2>2, Ended DEF OneMoves
    <3> QED BY <1>a, <1>b, <3>1, <3>2, <3>3
  <2>3. CASE At(r, "lock") /\ UNCHANGED device
               /\ Go(r, IF req[r].op = "create" THEN "lookup" ELSE "read")
    <3>1. One(r) /\ \A q \in Req \ {r} : req'[q] = req[q]
      BY <2>3, Moved DEF Ops, At, Creating, Executing, TypeOK, Request
    <3> QED BY <1>a, <1>b, <1>c, <2>3, <3>1 DEF device
  <2> QED BY <2>1, <2>2, <2>3, Ending
<1>5. CASE \E d \in Draft : Expire(d) \/ Settle(d)
  BY <1>5 DEF Expire, Settle, device, Ops
<1>6. CASE \E n \in Key \cup Draft : LockExpires(n)
  BY <1>6 DEF LockExpires, device, Ops
<1>7. CASE UNCHANGED vars
  BY <1>7 DEF vars, device, Ops
<1> QED BY <1>1, <1>2, <1>3, <1>4, <1>5, <1>6, <1>7, Steps
-----------------------------------------------------------------------------
\* A step of a request leaves it in its section, with its lock, or ends it.
LEMMA Worked ==
  ASSUME TypeOK, Ops, NEW r \in Req, Works(r)
  PROVE  /\ \A q \in Req \ {r} : req'[q] = req[q]
         /\ UNCHANGED <<identity, minted, flow, calledOff, told, lock>>
         /\ \/ req'[r] = Idle
            \/ /\ InSection(r) /\ req'[r].op = req[r].op /\ req'[r].key = req[r].key
               /\ req'[r].pc # "idle"
               /\ req'[r].draft = req[r].draft \/ req[r].pc \in {"lookup", "reserve"}
<1>1. /\ \A q \in Req \ {r} : req'[q] = req[q]
      /\ UNCHANGED <<identity, minted, flow, calledOff, told, lock>>
  BY Shape DEF OneMoves, Works, Throw, Die, Lookup, Redraft, Reserve, Build, Store, Drop, Read,
               Delete, Status, Ahead, Send, Answered, Keep, device, store
<1>2. CASE Die(r)
  BY <1>1, <1>2 DEF Die, TypeOK
<1>3. CASE Lookup(r)
  <2> DEFINE d == reserved[req[r].key]
  <2>1. req'[r] = [req[r] EXCEPT !.pc = IF d = NoDraft THEN "reserve" ELSE "redraft",
                                 !.draft = d]
    BY <1>3 DEF Lookup, TypeOK
  <2>2. /\ req'[r].op = req[r].op /\ req'[r].key = req[r].key /\ req'[r].pc # "idle"
    BY <2>1 DEF TypeOK, Request
  <2> QED BY <1>1, <1>3, <2>2 DEF Lookup, At, InSection, Creating
<1>4. CASE Reserve(r)
  <2>1. PICK d \in Draft : req' = [req EXCEPT ![r].pc = "build", ![r].draft = d]
                           \/ Out(r, "error")
    BY <1>4 DEF Reserve
  <2>2. CASE Out(r, "error")
    BY <1>1, <1>4, <2>2, Moved DEF Reserve, At, InSection, Creating
  <2>3. CASE req' = [req EXCEPT ![r].pc = "build", ![r].draft = d]
    <3>1. req'[r] = [req[r] EXCEPT !.pc = "build", !.draft = d]
      BY <2>3 DEF TypeOK
    <3>2. req'[r].op = req[r].op /\ req'[r].key = req[r].key /\ req'[r].pc = "build"
      BY <3>1 DEF TypeOK, Request
    <3> QED BY <1>1, <1>4, <3>2 DEF Reserve, At, InSection, Creating
  <2> QED BY <2>1, <2>2, <2>3
<1>5. CASE Throw(r) \/ Redraft(r) \/ Build(r) \/ Store(r) \/ Drop(r)
  BY <1>1, <1>5, Moved DEF Throw, Redraft, Build, Store, Drop, Thrown, At, InSection, Creating,
                           Executing
<1>6. CASE Read(r) \/ Delete(r) \/ Status(r) \/ Ahead(r) \/ Send(r) \/ Answered(r) \/ Keep(r)
  BY <1>1, <1>6, Moved DEF Read, Delete, Status, Ahead, Send, Answered, Keep, At, InSection,
                           Executing
<1> QED BY <1>2, <1>3, <1>4, <1>5, <1>6 DEF Works

\* A lock that nobody outlives is taken by one and released by its holder.
LEMMA LockedInductive ==
  ASSUME TypeOK, Ops, Locked, ~Outlives, [Next]_vars PROVE Locked'
<1>n. \A q \in Req : InSection(q) => Name(q) \in Key \cup Draft
  BY DEF TypeOK, Ops, Name, InSection, Creating, Executing
<1>s. ASSUME NEW q \in Req, req'[q] = req[q] PROVE Name(q)' = Name(q) /\ (InSection(q)' <=> InSection(q))
  BY <1>s DEF Name, InSection
<1>r. NoReq \notin Req
  BY RecurringOrderAssumption
<1>1. CASE \E s \in Session : Taps(s)
  <2>1. req' = req /\ lock' = lock
    BY <1>1, Tapped DEF store
  <2> QED BY <1>s, <2>1 DEF Locked
<1>2. CASE \E s \in Session, r \in Req : Starts(s, r)
  <2>1. PICK s \in Session, r \in Req : Starts(s, r)
    BY <1>2
  <2>2. lock' = lock /\ ~InSection(r)' /\ \A q \in Req \ {r} : req'[q] = req[q]
    BY <2>1, Started DEF OneMoves, store, InSection, Creating, Executing
  <2> QED BY <1>s, <2>2 DEF Locked
<1>3. CASE \E r \in Req : Works(r)
  <2>1. PICK r \in Req : Works(r)
    BY <1>3
  <2>2. lock' = lock /\ \A q \in Req \ {r} : req'[q] = req[q]
    BY <2>1, Worked
  <2>3. CASE req'[r] = Idle
    BY <1>s, <2>2, <2>3 DEF Locked, InSection, Idle, Creating, Executing
  <2>4. CASE /\ InSection(r) /\ req'[r].op = req[r].op /\ req'[r].key = req[r].key
             /\ req'[r].draft = req[r].draft \/ req[r].pc \in {"lookup", "reserve"}
    <3>1. Name(r)' = Name(r)
      BY <2>4 DEF Name, Ops, Creating
    <3> QED BY <1>s, <2>2, <2>4, <3>1 DEF Locked
  <2> QED BY <2>1, <2>3, <2>4, Worked
<1>4. CASE \E r \in Req : Ends(r)
  <2>1. PICK r \in Req : Ends(r)
    BY <1>4
  <2>2. CASE /\ At(r, "lock") /\ lock[Name(r)] = NoReq /\ lock' = [lock EXCEPT ![Name(r)] = r]
             /\ Go(r, IF req[r].op = "create" THEN "lookup" ELSE "read") /\ UNCHANGED device
    <3>1. /\ \A q \in Req \ {r} : req'[q] = req[q]
          /\ Name(r)' = Name(r)
      BY <2>2, Moved DEF Name
    <3>2. Name(r) \in Key \cup Draft
      BY <2>2 DEF At, TypeOK, Name
    <3>3. lock'[Name(r)] = r /\ \A n \in Key \cup Draft : n # Name(r) => lock'[n] = lock[n]
      BY <2>2, <3>2 DEF TypeOK
    <3>4. \A q \in Req \ {r} : InSection(q) => Name(q) # Name(r)
      BY <1>r, <2>2 DEF Locked
    <3>5. \A q \in Req \ {r} : InSection(q)' => lock'[Name(q)'] = q
      BY <1>n, <1>s, <3>1, <3>3, <3>4 DEF Locked
    <3> QED BY <3>1, <3>3, <3>5 DEF Locked
  <2>3. CASE At(r, "lock") /\ Answer(r) /\ UNCHANGED lock
    <3>1. ~InSection(r)' /\ \A q \in Req \ {r} : req'[q] = req[q]
      BY <2>3, Ended DEF OneMoves, InSection, Idle, Creating, Executing
    <3> QED BY <1>s, <2>3, <3>1 DEF Locked
  <2>4. CASE /\ At(r, "release") /\ Answer(r)
             /\ \A n \in Key \cup Draft : lock'[n] # lock[n] => lock[n] = r
    <3>1. ~InSection(r)' /\ \A q \in Req \ {r} : req'[q] = req[q]
      BY <2>4, Ended DEF OneMoves, InSection, Idle, Creating, Executing
    <3> QED BY <1>n, <1>s, <2>4, <3>1 DEF Locked
  <2> QED BY <2>1, <2>2, <2>3, <2>4, Ending
<1>5. CASE \E d \in Draft : Expire(d) \/ Settle(d)
  <2>1. req' = req /\ lock' = lock
    BY <1>5 DEF Expire, Settle, store
  <2> QED BY <1>s, <2>1 DEF Locked
<1>6. CASE \E n \in Key \cup Draft : LockExpires(n)
  <2>1. PICK n \in Key \cup Draft : LockExpires(n)
    BY <1>6
  <2>2. req' = req /\ \A m \in (Key \cup Draft) \ {n} : lock'[m] = lock[m]
    BY <2>1 DEF LockExpires, TypeOK
  <2>3. \A q \in Req : InSection(q) => Name(q) # n
    BY <2>1 DEF LockExpires, Locked
  <2> QED BY <1>n, <1>s, <2>2, <2>3 DEF Locked
<1>7. CASE UNCHANGED vars
  <2>1. req' = req /\ lock' = lock
    BY <1>7 DEF vars, store
  <2> QED BY <1>s, <2>1 DEF Locked
<1> QED BY <1>1, <1>2, <1>3, <1>4, <1>5, <1>6, <1>7, Steps

\* Two requests in the sections of one lock are the same.
LEMMA Alone ==
  ASSUME Locked, NEW r \in Req, NEW q \in Req, InSection(r), InSection(q), Name(r) = Name(q)
  PROVE  r = q
BY DEF Locked

\* Success is answered and stored only of an order that Jupiter has placed.
LEMMA PlacedInductive == TypeOK /\ Ops /\ Placed /\ [Next]_vars => Placed'
<1> SUFFICES ASSUME TypeOK, Ops, Placed, [Next]_vars PROVE Placed'
  OBVIOUS
<1> USE DEF Placed, DoneIsPlaced
<1>1. CASE \E s \in Session : Taps(s)
  BY <1>1, Tapped DEF store
<1>2. CASE \E s \in Session, r \in Req : Starts(s, r)
  BY <1>2, Started DEF store, OneMoves
<1>3. CASE \E r \in Req : Works(r)
  <2>1. PICK r \in Req : Works(r)
    BY <1>3
  <2>2. told' = told /\ \A q \in Req \ {r} : req'[q] = req[q]
    BY <2>1, Worked
  <2>3. CASE Send(r)
    <3>1. \A d \in Draft : tx[d] = "landed" => tx'[d] = "landed"
      BY <2>3 DEF Send, TypeOK
    <3>2. req'[r].pc = "answer" /\ req'[r].out = "error"
      BY <2>3, Moved DEF Send, At, Ops
    <3>3. \A q \in Req : req[q].pc = "keep" \/ req[q].out = "done" => req[q].draft \in Draft
      BY DEF TypeOK, Ops, Executing
    <3> QED BY <2>2, <2>3, <3>1, <3>2, <3>3 DEF Send, store
  <2>4. CASE Lookup(r) \/ Reserve(r) \/ Die(r)
    <3>1. req'[r].pc # "keep" /\ req'[r].out = "error"
      <4>1. CASE Die(r)
        BY <4>1 DEF Die, Idle, TypeOK
      <4>2. CASE Lookup(r)
        <5>1. req'[r] = [req[r] EXCEPT !.pc = IF reserved[req[r].key] = NoDraft
                                              THEN "reserve" ELSE "redraft",
                                       !.draft = reserved[req[r].key]]
          BY <4>2 DEF Lookup, TypeOK
        <5> QED BY <4>2, <5>1 DEF Lookup, At, TypeOK, Ops, Request
      <4>3. CASE Reserve(r)
        <5>1. PICK d \in Draft : req' = [req EXCEPT ![r].pc = "build", ![r].draft = d]
                                 \/ Out(r, "error")
          BY <4>3 DEF Reserve
        <5>2. CASE Out(r, "error")
          BY <5>2, Moved
        <5>3. CASE req' = [req EXCEPT ![r].pc = "build", ![r].draft = d]
          <6>1. req'[r] = [req[r] EXCEPT !.pc = "build", !.draft = d]
            BY <5>3 DEF TypeOK
          <6> QED BY <4>3, <6>1 DEF Reserve, At, TypeOK, Ops, Request
        <5> QED BY <5>1, <5>2, <5>3
      <4> QED BY <2>4, <4>1, <4>2, <4>3
    <3> QED BY <2>2, <2>4, <3>1 DEF Lookup, Reserve, Die, store
  <2>5. CASE Throw(r) \/ Redraft(r) \/ Build(r) \/ Store(r) \/ Drop(r)
    <3>1. req'[r].pc # "keep" /\ req'[r].out # "done"
      <4>1. CASE Build(r)
        BY <4>1, Moved DEF Build, At, Ops
      <4>2. CASE Throw(r)
        BY <4>2, Moved DEF Throw, Thrown, Owns, Ops, Creating, Executing
      <4>3. CASE Redraft(r) \/ Store(r) \/ Drop(r)
        BY <4>3, Moved DEF Redraft, Store, Drop, Thrown, Owns, At, Ops
      <4> QED BY <2>5, <4>1, <4>2, <4>3
    <3>2. tx' = tx /\ \A d \in Draft : order'[d] = "completed" => order[d] = "completed"
      BY <2>5 DEF Throw, Redraft, Build, Store, Drop, store, TypeOK
    <3> QED BY <2>2, <3>1, <3>2
  <2>6. CASE Read(r) \/ Delete(r) \/ Status(r) \/ Ahead(r) \/ Answered(r) \/ Keep(r)
    <3>0. req[r].draft \in Draft /\ req[r].out = "error"
      BY <2>6 DEF Read, Delete, Status, Ahead, Answered, Keep, At, TypeOK, Ops, Executing
    <3>1. req'[r].draft = req[r].draft /\ tx' = tx
      BY <2>6, Moved DEF Read, Delete, Status, Ahead, Answered, Keep
    <3>2. req'[r].pc = "keep" \/ req'[r].out = "done" => tx[req[r].draft] = "landed"
      BY <2>6, <3>0, Moved DEF Read, Delete, Status, Ahead, Answered, Keep, At
    <3>3. \A d \in Draft : order'[d] = "completed" =>
            order[d] = "completed" \/ (d = req[r].draft /\ req[r].pc = "keep")
      BY <2>6 DEF Read, Delete, Status, Ahead, Answered, Keep, At, store, TypeOK
    <3> QED BY <2>2, <3>0, <3>1, <3>2, <3>3
  <2> QED BY <2>1, <2>3, <2>4, <2>5, <2>6 DEF Works
<1>4. CASE \E r \in Req : Ends(r)
  <2>1. PICK r \in Req : Ends(r)
    BY <1>4
  <2>2. order' = order /\ tx' = tx
    BY <2>1 DEF Ends, Acquire, Release
  <2>3. CASE Answer(r)
    <3>1. req'[r] = Idle /\ \A q \in Req \ {r} : req'[q] = req[q]
      BY <2>3, Ended DEF OneMoves
    <3>2. \A d \in Draft : "done" \in told'[d] => "done" \in told[d]
                              \/ (d = req[r].draft /\ req[r].out = "done")
      BY <2>3, Ended
    <3> QED BY <2>2, <3>1, <3>2 DEF Idle
  <2>4. CASE Go(r, IF req[r].op = "create" THEN "lookup" ELSE "read") /\ UNCHANGED device
    BY <2>2, <2>4, Moved DEF device
  <2> QED BY <2>1, <2>3, <2>4, Ending
<1>5. CASE \E d \in Draft : Expire(d) \/ Settle(d)
  <2>1. /\ told' = told /\ req' = req
        /\ \A d \in Draft : tx[d] = "landed" => tx'[d] = "landed"
        /\ \A d \in Draft : order'[d] = "completed" => order[d] = "completed"
    BY <1>5 DEF Expire, Settle, device, store, TypeOK
  <2>2. \A q \in Req : req[q].pc = "keep" \/ req[q].out = "done" => req[q].draft \in Draft
    BY DEF TypeOK, Ops, Executing
  <2> QED BY <2>1, <2>2
<1>6. CASE \E n \in Key \cup Draft : LockExpires(n)
  BY <1>6 DEF LockExpires, device
<1>7. CASE UNCHANGED vars
  BY <1>7 DEF vars, device, store
<1> QED BY <1>1, <1>2, <1>3, <1>4, <1>5, <1>6, <1>7, Steps
-----------------------------------------------------------------------------
\* What a reservation does to its request.
LEMMA Reserved ==
  ASSUME TypeOK, Ops, NEW r \in Req, Reserve(r)
  PROVE  \E d \in Draft :
           /\ built[d] = NoKey /\ req[r].key \in Key
           /\ built'[d] = req[r].key /\ \A e \in Draft \ {d} : built'[e] = built[e]
           /\ reserved'[req[r].key] = d
           /\ \A k \in Key \ {req[r].key} : reserved'[k] = reserved[k]
           /\ req'[r].key = req[r].key /\ req'[r].op = "create" /\ req'[r].out = "error"
           /\ \/ req'[r].pc = "build" /\ req'[r].draft = d
              \/ req'[r].pc = "release"
<1>0. req[r].key \in Key /\ req[r].op = "create" /\ req[r].out = "error"
  BY DEF Reserve, At, TypeOK, Ops, Creating
<1>1. PICK d \in Draft :
        /\ built[d] = NoKey
        /\ built' = [built EXCEPT ![d] = req[r].key]
        /\ reserved' = [reserved EXCEPT ![req[r].key] = d]
        /\ \/ req' = [req EXCEPT ![r].pc = "build", ![r].draft = d]
           \/ Out(r, "error")
  BY DEF Reserve
<1>2. /\ req'[r].key = req[r].key /\ req'[r].op = "create" /\ req'[r].out = "error"
      /\ \/ req'[r].pc = "build" /\ req'[r].draft = d
         \/ req'[r].pc = "release"
  <2>1. CASE Out(r, "error")
    BY <1>0, <2>1, Moved
  <2>2. CASE req' = [req EXCEPT ![r].pc = "build", ![r].draft = d]
    <3>1. req'[r] = [req[r] EXCEPT !.pc = "build", !.draft = d]
      BY <2>2 DEF TypeOK
    <3> QED BY <1>0, <3>1 DEF TypeOK, Request
  <2> QED BY <1>1, <2>1, <2>2
<1> QED BY <1>0, <1>1, <1>2 DEF TypeOK

\* What looking up a reservation does.
LEMMA LookedUp ==
  ASSUME TypeOK, Ops, NEW r \in Req, Lookup(r)
  PROVE  /\ req[r].key \in Key /\ req'[r].key = req[r].key /\ req'[r].op = "create"
         /\ req'[r].out = "error" /\ req'[r].draft = reserved[req[r].key]
         /\ req'[r].pc = IF reserved[req[r].key] = NoDraft THEN "reserve" ELSE "redraft"
<1>0. req[r].key \in Key /\ req[r].op = "create" /\ req[r].out = "error"
  BY DEF Lookup, At, TypeOK, Ops, Creating
<1>1. req'[r] = [req[r] EXCEPT !.pc = IF reserved[req[r].key] = NoDraft
                                      THEN "reserve" ELSE "redraft",
                               !.draft = reserved[req[r].key]]
  BY DEF Lookup, TypeOK
<1> QED BY <1>0, <1>1 DEF TypeOK, Request

\* Only a reservation and its removal change what the records name.
LEMMA Records ==
  ASSUME NEW r \in Req, Works(r), ~Reserve(r), ~Drop(r)
  PROVE  reserved' = reserved /\ built' = built
BY DEF Works, Throw, Die, Lookup, Redraft, Build, Store, Read, Delete, Status, Ahead, Send,
       Answered, Keep, device, store

Owning == {"build", "store", "drop"}

\* Who comes to own a draft has just reserved it, or owned it before.
LEMMA Owned ==
  ASSUME TypeOK, Ops, NEW r \in Req, Works(r), ~Reserve(r), req'[r].pc \in Owning
  PROVE  req[r].pc \in Owning /\ req'[r].draft = req[r].draft /\ req'[r].key = req[r].key
<1>1. ~Die(r)
  BY DEF Die, Idle, Owning, TypeOK
<1>2. ~Lookup(r)
  BY LookedUp DEF Owning
<1>3. CASE Throw(r)
  BY <1>3, Moved DEF Throw, Thrown, Owns, Owning
<1>4. CASE Redraft(r) \/ Build(r) \/ Store(r) \/ Drop(r)
  BY <1>4, Moved DEF Redraft, Build, Store, Drop, Thrown, Owns, Owning, At
<1>5. CASE Read(r) \/ Delete(r) \/ Status(r) \/ Ahead(r) \/ Send(r) \/ Answered(r) \/ Keep(r)
  BY <1>5, Moved DEF Read, Delete, Status, Ahead, Send, Answered, Keep, Owning
<1> QED BY <1>1, <1>2, <1>3, <1>4, <1>5 DEF Works

(***************************************************************************)
(* A draft that is named stays named.                                      *)
(***************************************************************************)
LEMMA StaysNamed ==
  ASSUME TypeOK, Ops, Locked, Given, [Next]_vars, NEW d \in Draft, d \in Named
  PROVE  d \in Named'
<1>k. built[d] \in Key /\ reserved[built[d]] = d /\ built[d] # NoKey
  BY RecurringOrderAssumption DEF Named
<1>a. ASSUME reserved' = reserved, built' = built,
             \A r \in Req : req'[r] = req[r] \/ req'[r].pc \notin Owning
      PROVE  d \in Named'
  BY <1>a DEF Named, Owning
<1>1. CASE \E s \in Session : Taps(s)
  BY <1>1, <1>a, Tapped DEF store
<1>2. CASE \E s \in Session, r \in Req : Starts(s, r)
  <2>1. PICK s \in Session, r \in Req : Starts(s, r)
    BY <1>2
  <2> QED BY <1>a, <2>1, Started DEF store, OneMoves, Owning
<1>3. CASE \E r \in Req : Works(r)
  <2>1. PICK r \in Req : Works(r)
    BY <1>3
  <2>2. \A q \in Req \ {r} : req'[q] = req[q]
    BY <2>1, Worked
  <2>3. CASE Reserve(r)
    <3>1. PICK e \in Draft :
           /\ built[e] = NoKey /\ req[r].key \in Key
           /\ \A f \in Draft \ {e} : built'[f] = built[f]
           /\ \A k \in Key \ {req[r].key} : reserved'[k] = reserved[k]
           /\ req'[r].pc \in Owning => req'[r].draft = e
      BY <2>3, Reserved DEF Owning
    <3>2. reserved[req[r].key] = NoDraft
      BY <2>3 DEF Given, Reserve, At
    <3>3. d # e /\ built[d] # req[r].key
      BY <1>k, <3>1, <3>2, RecurringOrderAssumption
    <3> QED BY <1>k, <2>2, <3>1, <3>3 DEF Named, Owning
  <2>4. CASE Drop(r)
    <3>1. req[r].key \in Key /\ reserved[req[r].key] = req[r].draft /\ req[r].draft # d
      BY <2>4 DEF Drop, At, Given, Named, TypeOK, Ops, Creating
    <3>2. \A k \in Key \ {req[r].key} : reserved'[k] = reserved[k]
      BY <2>4 DEF Drop, TypeOK
    <3>3. req'[r].pc \notin Owning /\ built' = built
      BY <2>4, Moved DEF Drop, Owning
    <3> QED BY <1>k, <2>2, <3>1, <3>2, <3>3 DEF Named, Owning
  <2>5. CASE ~Reserve(r) /\ ~Drop(r)
    <3>1. reserved' = reserved /\ built' = built
      BY <2>1, <2>5, Records
    <3>2. req'[r].pc \in Owning => req[r].pc \in Owning /\ req'[r].draft = req[r].draft
      BY <2>1, <2>5, Owned
    <3> QED BY <2>2, <3>1, <3>2 DEF Named, Owning
  <2> QED BY <2>3, <2>4, <2>5
<1>4. CASE \E r \in Req : Ends(r)
  <2>1. PICK r \in Req : Ends(r)
    BY <1>4
  <2>2. reserved' = reserved /\ built' = built
    BY <2>1 DEF Ends, Acquire, Release
  <2>3. CASE Answer(r)
    BY <1>a, <2>2, <2>3, Ended DEF OneMoves, Idle, Owning
  <2>4. CASE Go(r, IF req[r].op = "create" THEN "lookup" ELSE "read")
    BY <1>a, <2>2, <2>4, Moved DEF Owning
  <2> QED BY <2>1, <2>3, <2>4, Ending
<1>5. CASE \E e \in Draft : Expire(e) \/ Settle(e)
  BY <1>5, <1>a DEF Expire, Settle, store
<1>6. CASE \E n \in Key \cup Draft : LockExpires(n)
  BY <1>6, <1>a DEF LockExpires
<1>7. CASE UNCHANGED vars
  BY <1>7, <1>a DEF vars, store
<1> QED BY <1>1, <1>2, <1>3, <1>4, <1>5, <1>6, <1>7, Steps

\* Two requests that create an order under the same key are the same.
LEMMA AloneCreating ==
  ASSUME TypeOK, Ops, Locked, NEW r \in Req, NEW q \in Req,
         req[r].pc \in Creating, req[q].pc \in Creating, req[r].key = req[q].key
  PROVE  r = q
BY Alone DEF Ops, Name, InSection

\* A draft that a device or a request holds is the one its key's reservation names.
LEMMA GivenInductive ==
  ASSUME TypeOK, Ops, Locked, Given, [Next]_vars
  PROVE  Given'
<1> DEFINE Recorded == \A k \in Key : reserved'[k] \in Draft => built'[reserved'[k]] = k
           Known == \A d \in Draft : tx'[d] # "unsent" \/ told'[d] # {} => d \in Named'
           Held == \A s \in Session : flow'[s].pc \in {"sign", "execute"} => flow'[s].draft \in Named'
           Mine(r) ==
             /\ req'[r].pc # "idle" /\ req'[r].op = "execute" => req'[r].draft \in Named'
             /\ req'[r].pc = "redraft" \/ req'[r].out = "draft" => req'[r].draft \in Named'
             /\ req'[r].pc \in Owning =>
                  req'[r].draft \in Draft /\ built'[req'[r].draft] = req'[r].key
                    /\ reserved'[req'[r].key] = req'[r].draft
             /\ req'[r].pc = "reserve" => reserved'[req'[r].key] = NoDraft
<1>g. ASSUME Recorded, Known, Held, \A r \in Req : Mine(r) PROVE Given'
  BY <1>g DEF Given, Owning
<1>n. \A d \in Draft : d \in Named => d \in Named'
  BY StaysNamed
<1>e. \A r \in Req : req[r].pc # "idle" /\ req[r].op = "execute" => req[r].draft \in Draft
  BY DEF TypeOK
<1>o. \A r \in Req : req[r].pc = "redraft" \/ req[r].out = "draft" => req[r].draft \in Draft
  BY DEF TypeOK
<1>f. \A s \in Session : flow[s].pc \in {"sign", "execute"} =>
        flow[s].draft \in Draft /\ flow[s].draft \in Named
  BY DEF TypeOK, Given
<1>r. ASSUME reserved' = reserved, built' = built PROVE Recorded
  BY <1>r DEF Given
<1>m. ASSUME reserved' = reserved, built' = built, NEW r \in Req, req'[r] = req[r] PROVE Mine(r)
  <2>1. req[r].pc # "idle" /\ req[r].op = "execute" => req[r].draft \in Named'
    BY <1>e, <1>n DEF Given
  <2>2. req[r].pc = "redraft" \/ req[r].out = "draft" => req[r].draft \in Named'
    BY <1>o, <1>n DEF Given
  <2> QED BY <1>m, <2>1, <2>2 DEF Given, Owning
<1>h. ASSUME flow' = flow PROVE Held
  BY <1>h, <1>f, <1>n DEF Named
<1>t. ASSUME tx' = tx, told' = told PROVE Known
  BY <1>t, <1>n DEF Given
<1>1. CASE \E s \in Session : Taps(s)
  <2>1. PICK s \in Session : Taps(s)
    BY <1>1
  <2>2. UNCHANGED <<told, reserved, built, req, tx>>
    BY <2>1, Tapped DEF store
  <2>3. Held
    BY <2>1, Tapped, <1>f, <1>n
  <2> QED BY <1>g, <1>r, <1>m, <1>t, <2>2, <2>3
<1>2. CASE \E s \in Session, r \in Req : Starts(s, r)
  <2>1. PICK s \in Session, r \in Req : Starts(s, r)
    BY <1>2
  <2>2. UNCHANGED <<told, reserved, built, tx>> /\ \A q \in Req \ {r} : req'[q] = req[q]
    BY <2>1, Started DEF store, OneMoves
  <2>3. Held
    BY <2>1, Started, <1>f, <1>n
  <2>4. Mine(r)
    BY <2>1, Started, <1>f, <1>n DEF Owning
  <2> QED BY <1>g, <1>r, <1>m, <1>t, <2>2, <2>3, <2>4
<1>3. CASE \E r \in Req : Works(r)
  <2>1. PICK r \in Req : Works(r)
    BY <1>3
  <2>2. told' = told /\ flow' = flow /\ \A q \in Req \ {r} : req'[q] = req[q]
    BY <2>1, Worked
  <2>3. Held
    BY <1>h, <2>2
  <2>4. Known
    <3>1. CASE Send(r)
      <4>1. req[r].draft \in Draft /\ req[r].draft \in Named
        BY <3>1 DEF Send, At, TypeOK, Ops, Given, Executing
      <4>2. \A d \in Draft \ {req[r].draft} : tx'[d] = tx[d]
        BY <3>1 DEF Send, TypeOK
      <4> QED BY <1>n, <2>2, <4>1, <4>2 DEF Given
    <3>2. CASE ~Send(r)
      <4>1. tx' = tx
        BY <2>1, <3>2 DEF Works, Throw, Die, Lookup, Redraft, Reserve, Build, Store, Drop, Read,
                          Delete, Status, Ahead, Answered, Keep
      <4> QED BY <1>t, <2>2, <4>1
    <3> QED BY <3>1, <3>2
  <2>x. req'[r].pc # "idle" /\ req'[r].op = "execute" => req'[r].draft \in Named'
    BY <1>e, <1>n, <2>1, Worked DEF Given, Ops, InSection, Creating, Executing, Idle
  <2>5. CASE Reserve(r)
    <3>1. PICK e \in Draft :
           /\ built[e] = NoKey /\ req[r].key \in Key
           /\ built'[e] = req[r].key /\ \A f \in Draft \ {e} : built'[f] = built[f]
           /\ reserved'[req[r].key] = e
           /\ \A k \in Key \ {req[r].key} : reserved'[k] = reserved[k]
           /\ req'[r].key = req[r].key /\ req'[r].op = "create" /\ req'[r].out = "error"
           /\ \/ req'[r].pc = "build" /\ req'[r].draft = e
              \/ req'[r].pc = "release"
      BY <2>5, Reserved
    <3>2. Recorded
      BY <3>1, RecurringOrderAssumption DEF Given
    <3>3. Mine(r)
      BY <3>1, <2>x DEF Owning
    <3>4. ASSUME NEW q \in Req \ {r} PROVE Mine(q)
      <4>1. req[q].pc \in Creating => req[q].key \in Key /\ req[q].key # req[r].key
        BY <2>5, AloneCreating DEF Reserve, At, Creating, TypeOK, Ops
      <4>2. req[q].pc \in Owning => req[q].draft \in Draft /\ req[q].draft # e
        BY <3>1, <4>1, RecurringOrderAssumption DEF Given, Owning, Creating
      <4>3. req'[q] = req[q]
        BY <2>2
      <4>4. req[q].pc # "idle" /\ req[q].op = "execute" => req[q].draft \in Named'
        BY <1>e, <1>n DEF Given
      <4>5. req[q].pc = "redraft" \/ req[q].out = "draft" => req[q].draft \in Named'
        BY <1>o, <1>n DEF Given
      <4> QED BY <3>1, <4>1, <4>2, <4>3, <4>4, <4>5 DEF Given, Owning, Creating
    <3> QED BY <1>g, <2>3, <2>4, <3>2, <3>3, <3>4
  <2>6. CASE Drop(r)
    <3>1. req[r].key \in Key /\ \A k \in Key \ {req[r].key} : reserved'[k] = reserved[k]
      BY <2>6 DEF Drop, At, TypeOK, Ops, Creating
    <3>2. built' = built /\ reserved'[req[r].key] \in {NoDraft, reserved[req[r].key]}
      BY <2>6, <3>1 DEF Drop, TypeOK
    <3>3. Recorded
      BY <3>1, <3>2, RecurringOrderAssumption DEF Given
    <3>4. Mine(r)
      BY <2>6, <2>x, Moved DEF Drop, Owning
    <3>5. ASSUME NEW q \in Req \ {r} PROVE Mine(q)
      <4>1. req[q].pc \in Creating => req[q].key \in Key /\ req[q].key # req[r].key
        BY <2>6, AloneCreating DEF Drop, At, Creating, TypeOK, Ops
      <4>3. req'[q] = req[q]
        BY <2>2
      <4>4. req[q].pc # "idle" /\ req[q].op = "execute" => req[q].draft \in Named'
        BY <1>e, <1>n DEF Given
      <4>5. req[q].pc = "redraft" \/ req[q].out = "draft" => req[q].draft \in Named'
        BY <1>o, <1>n DEF Given
      <4> QED BY <3>1, <3>2, <4>1, <4>3, <4>4, <4>5 DEF Given, Owning, Creating
    <3> QED BY <1>g, <2>3, <2>4, <3>3, <3>4, <3>5
  <2>7. CASE ~Reserve(r) /\ ~Drop(r)
    <3>1. reserved' = reserved /\ built' = built
      BY <2>1, <2>7, Records
    <3>2. Mine(r)
      <4>1. req'[r].pc \in Owning =>
              req'[r].draft \in Draft /\ built'[req'[r].draft] = req'[r].key
                /\ reserved'[req'[r].key] = req'[r].draft
        BY <2>1, <2>7, <3>1, Owned DEF Given, Owning
      <4>2. ASSUME req'[r].pc = "reserve" PROVE reserved'[req'[r].key] = NoDraft
        <5>1. Lookup(r)
          BY <2>1, <2>7, <4>2, Moved DEF Works, Throw, Thrown, Owns, Die, Idle, Redraft, Build,
             Store, Read, Delete, Status, Ahead, Send, Answered, Keep, TypeOK
        <5> QED BY <3>1, <4>2, <5>1, LookedUp
      <4>3. ASSUME req'[r].pc = "redraft" PROVE req'[r].draft \in Named'
        <5>1. Lookup(r)
          BY <2>1, <2>7, <4>3, Moved DEF Works, Throw, Thrown, Owns, Die, Idle, Redraft, Build,
             Store, Read, Delete, Status, Ahead, Send, Answered, Keep, TypeOK
        <5> DEFINE d == reserved[req[r].key]
        <5>2. req[r].key \in Key /\ d \in Draft /\ req'[r].draft = d
          BY <4>3, <5>1, LookedUp DEF TypeOK
        <5>3. built[d] = req[r].key
          BY <5>2 DEF Given
        <5>4. \A q \in Req : req[q].pc \in Owning => req[q].draft # d
          <6> SUFFICES ASSUME NEW q \in Req, req[q].pc \in Owning, req[q].draft = d PROVE FALSE
            OBVIOUS
          <6>1. req[q].key = req[r].key
            BY <5>3 DEF Given, Owning
          <6>2. q = r
            BY <5>1, <6>1, AloneCreating DEF Lookup, At, Creating, Owning
          <6> QED BY <5>1, <6>2 DEF Lookup, At, Owning
        <5> QED BY <1>n, <5>2, <5>3, <5>4 DEF Named, Owning
      <4>4. ASSUME req'[r].out = "draft" PROVE req'[r].draft \in Named'
        <5>1. Redraft(r) \/ Store(r)
          BY <2>1, <2>7, <4>4, Moved, LookedUp
          DEF Works, Throw, Thrown, Owns, Die, Idle, Build, Read, Delete, Status,
              Ahead, Send, Answered, Keep, TypeOK, Ops, Creating, Executing, At
        <5>2. CASE Redraft(r)
          BY <1>n, <1>o, <5>2, Moved DEF Redraft, At, Given
        <5>3. CASE Store(r)
          <6> DEFINE d == req[r].draft
          <6>1. d \in Draft /\ built[d] = req[r].key /\ reserved[req[r].key] = d /\ req[r].key \in Key
            BY <5>3 DEF Store, At, Given, TypeOK, Ops, Creating
          <6>2. req'[r].draft = d /\ req'[r].pc \notin Owning
            BY <4>4, <5>3, Moved DEF Store, Thrown, Owns, Owning, At, Ops
          <6>3. \A q \in Req \ {r} : req'[q].pc \in Owning => req'[q].draft # d
            <7> SUFFICES ASSUME NEW q \in Req \ {r}, req[q].pc \in Owning, req[q].draft = d
                         PROVE FALSE
              BY <2>2
            <7>1. req[q].key = req[r].key
              BY <6>1 DEF Given, Owning
            <7> QED BY <5>3, <7>1, AloneCreating DEF Store, At, Creating, Owning
          <6> QED BY <3>1, <6>1, <6>2, <6>3 DEF Named, Owning
        <5> QED BY <5>1, <5>2, <5>3
      <4> QED BY <2>x, <4>1, <4>2, <4>3, <4>4
    <3> QED BY <1>g, <1>m, <1>r, <2>2, <2>3, <2>4, <3>1, <3>2
  <2> QED BY <2>5, <2>6, <2>7
<1>4. CASE \E r \in Req : Ends(r)
  <2>1. PICK r \in Req : Ends(r)
    BY <1>4
  <2>2. reserved' = reserved /\ built' = built /\ tx' = tx
    BY <2>1 DEF Ends, Acquire, Release
  <2>3. CASE Answer(r)
    <3>1. Held
      BY <1>f, <1>n, <1>o, <2>3, Ended DEF Given, NoFlow
    <3>2. Known
      <4> SUFFICES ASSUME NEW d \in Draft, tx'[d] # "unsent" \/ told'[d] # {} PROVE d \in Named'
        OBVIOUS
      <4>1. CASE told'[d] = told[d]
        BY <1>n, <2>2, <4>1 DEF Given
      <4>2. CASE d = req[r].draft /\ req[r].out \in {"done", "expired"}
        <5>1. req[r].pc = "release" /\ req[r].op # "create" /\ req[r] \in Request
          BY <4>2 DEF Ops, TypeOK
        <5>2. req[r].op = "execute"
          BY <5>1 DEF Request
        <5>3. d \in Named
          BY <4>2, <5>1, <5>2 DEF Given
        <5> QED BY <1>n, <5>3
      <4> QED BY <2>3, <4>1, <4>2, Ended
    <3>3. Mine(r) /\ \A q \in Req \ {r} : req'[q] = req[q]
      BY <2>3, Ended DEF OneMoves, Idle, Owning
    <3> QED BY <1>g, <1>m, <1>r, <2>2, <3>1, <3>2, <3>3
  <2>4. CASE /\ At(r, "lock") /\ UNCHANGED device
             /\ Go(r, IF req[r].op = "create" THEN "lookup" ELSE "read")
    <3>1. \A q \in Req \ {r} : req'[q] = req[q]
      BY <2>4, Moved
    <3>2. Mine(r)
      BY <1>e, <1>n, <1>o, <2>4, Moved DEF At, Given, Owning, Ops
    <3> QED BY <1>g, <1>h, <1>m, <1>r, <1>t, <2>2, <2>4, <3>1, <3>2 DEF device
  <2> QED BY <2>1, <2>3, <2>4, Ending
<1>5. CASE \E d \in Draft : Expire(d) \/ Settle(d)
  <2>1. UNCHANGED <<told, flow, reserved, built, req>>
    BY <1>5 DEF Expire, Settle, device, store
  <2>2. \A d \in Draft : tx'[d] # "unsent" => tx[d] # "unsent"
    BY <1>5 DEF Expire, Settle, TypeOK
  <2>3. Known
    BY <1>n, <2>1, <2>2 DEF Given
  <2> QED BY <1>g, <1>h, <1>m, <1>r, <2>1, <2>3
<1>6. CASE \E n \in Key \cup Draft : LockExpires(n)
  <2>1. UNCHANGED <<told, flow, reserved, built, req, tx>>
    BY <1>6 DEF LockExpires, device
  <2> QED BY <1>g, <1>h, <1>m, <1>r, <1>t, <2>1
<1>7. CASE UNCHANGED vars
  <2>1. UNCHANGED <<told, flow, reserved, built, req, tx>>
    BY <1>7 DEF vars, device, store
  <2> QED BY <1>g, <1>h, <1>m, <1>r, <1>t, <2>1
<1> QED BY <1>1, <1>2, <1>3, <1>4, <1>5, <1>6, <1>7, Steps
-----------------------------------------------------------------------------
Sending == {"send", "answer", "keep"}

\* A step of a request changes its own draft's state at most, where the code
\* writes it, and goes where the code goes.
LEMMA Writes ==
  ASSUME TypeOK, Ops, NEW r \in Req, Works(r)
  PROVE  /\ req[r].pc \notin {"store", "delete", "ahead", "keep"} => order' = order
         /\ \A d \in Draft : order'[d] = order[d] \/ d = req[r].draft
         /\ req[r].pc # "send" => tx' = tx
         /\ \A d \in Draft : tx'[d] = tx[d] \/ d = req[r].draft
         /\ req'[r].pc \in Executing =>
              req'[r].draft = req[r].draft /\ req[r].pc \in Executing
<1>1. CASE Die(r)
  BY <1>1 DEF Die, store, Idle, Executing, TypeOK
<1>2. CASE Lookup(r)
  <2>1. req'[r].pc \in {"reserve", "redraft"}
    BY <1>2, LookedUp
  <2>2. order' = order /\ tx' = tx
    BY <1>2 DEF Lookup, store
  <2> QED BY <2>1, <2>2 DEF Executing
<1>3. CASE Reserve(r)
  <2>1. req'[r].pc \in {"build", "release"}
    BY <1>3, Reserved
  <2> QED BY <1>3, <2>1 DEF Reserve, Executing
<1>4. CASE Throw(r)
  BY <1>4, Moved DEF Throw, Thrown, Owns, store, Executing
<1>5. CASE Redraft(r) \/ Build(r) \/ Drop(r)
  BY <1>5, Moved DEF Redraft, Build, Drop, store, Executing
<1>6. CASE Store(r)
  BY <1>6, Moved DEF Store, Thrown, Owns, Executing, TypeOK, At
<1>7. CASE Read(r) \/ Delete(r)
  BY <1>7, Moved DEF Read, Delete, store, Executing, TypeOK, At
<1>8. CASE Status(r) \/ Ahead(r) \/ Answered(r)
  BY <1>8, Moved DEF Status, Ahead, Answered, store, Executing, TypeOK, At
<1>9. CASE Send(r) \/ Keep(r)
  BY <1>9, Moved DEF Send, Keep, store, Executing, TypeOK, At
<1> QED BY <1>1, <1>2, <1>3, <1>4, <1>5, <1>6, <1>7, <1>8, <1>9 DEF Works

\* Two requests that execute the same draft are the same.
LEMMA AloneExecuting ==
  ASSUME TypeOK, Ops, Locked, NEW r \in Req, NEW q \in Req,
         req[r].pc \in Executing, req[q].pc \in Executing, req[r].draft = req[q].draft
  PROVE  r = q
<1>1. req[r].op # "create" /\ req[q].op # "create" /\ InSection(r) /\ InSection(q)
  BY DEF Ops, InSection
<1> QED BY <1>1, Alone DEF Name

\* A draft whose state is about to be stored is new to everyone else.
LEMMA Fresh ==
  ASSUME TypeOK, Ops, Given, NEW r \in Req, req[r].pc = "store"
  PROVE  /\ req[r].draft \in Draft /\ tx[req[r].draft] = "unsent"
         /\ req[r].draft \notin Named
         /\ \A q \in Req : req[q].pc \in Executing => req[q].draft # req[r].draft
<1>1. req[r].draft \in Draft /\ req[r].draft \notin Named
  BY DEF TypeOK, Named
<1>2. \A q \in Req : req[q].pc \in Executing => req[q].draft \in Named
  BY DEF Given, Ops, Executing
<1> QED BY <1>1, <1>2 DEF Given

\* A draft's state is written ahead of its submission.
LEMMA WrittenInductive ==
  ASSUME TypeOK, Ops, Locked, Given, Written, [Next]_vars
  PROVE  Written'
<1> DEFINE Past(r) ==
             /\ req'[r].pc \in Sending => order'[req'[r].draft] \in {"submitting", "completed"}
             /\ req'[r].pc = "delete" => /\ tx'[req'[r].draft] = "unsent"
                                         /\ order'[req'[r].draft] \in {"none", "pending"}
           Known == \A d \in Draft : tx'[d] # "unsent" => order'[d] \in {"submitting", "completed"}
<1>g. ASSUME Known, \A r \in Req : Past(r) PROVE Written'
  BY <1>g DEF Written, KnownBeforeSent, Sending
<1>d. \A r \in Req : req[r].pc \in Executing => req[r].draft \in Draft
  BY DEF TypeOK, Ops, Executing
<1>w. \A r \in Req :
        /\ req[r].pc \in Sending => order[req[r].draft] \in {"submitting", "completed"}
        /\ req[r].pc = "delete" => /\ tx[req[r].draft] = "unsent"
                                   /\ order[req[r].draft] \in {"none", "pending"}
  BY DEF Written, Sending
<1>s. ASSUME order' = order, tx' = tx,
             \A r \in Req : req'[r] = req[r] \/ req'[r].pc \notin Sending \cup {"delete"}
      PROVE  Written'
  BY <1>g, <1>s, <1>w DEF Written, KnownBeforeSent
<1>1. CASE \E s \in Session : Taps(s)
  BY <1>1, <1>s, Tapped DEF store
<1>2. CASE \E s \in Session, r \in Req : Starts(s, r)
  <2>1. PICK s \in Session, r \in Req : Starts(s, r)
    BY <1>2
  <2> QED BY <1>s, <2>1, Started DEF store, OneMoves, Sending
<1>3. CASE \E r \in Req : Works(r)
  <2>1. PICK r \in Req : Works(r)
    BY <1>3
  <2> DEFINE d == req[r].draft
  <2>2. \A q \in Req \ {r} : req'[q] = req[q]
    BY <2>1, Worked
  <2>3. /\ \A e \in Draft : order'[e] = order[e] \/ e = d
        /\ \A e \in Draft : tx'[e] = tx[e] \/ e = d
        /\ req[r].pc \notin {"store", "delete", "ahead", "keep"} => order' = order
        /\ req[r].pc # "send" => tx' = tx
        /\ req'[r].pc \in Executing => req'[r].draft = d /\ req[r].pc \in Executing
    BY <2>1, Writes
  <2>4. CASE req[r].pc \in Executing
    <3>1. \A q \in Req \ {r} : req[q].pc \in Executing => req[q].draft # d
      BY <2>4, AloneExecuting
    <3>2. \A q \in Req \ {r} : Past(q)
      <4> SUFFICES ASSUME NEW q \in Req \ {r}, req[q].pc \in Sending \cup {"delete"} PROVE Past(q)
        BY <2>2
      <4>1. req[q].draft \in Draft /\ req[q].draft # d
        BY <1>d, <3>1 DEF Sending, Executing
      <4>2. order'[req[q].draft] = order[req[q].draft] /\ tx'[req[q].draft] = tx[req[q].draft]
        BY <2>3, <4>1
      <4> QED BY <1>w, <2>2, <4>2
    <3>3. d \in Draft
      BY <1>d, <2>4
    <3>4. ASSUME tx'[d] # "unsent" => order'[d] \in {"submitting", "completed"}, Past(r)
          PROVE  Written'
      BY <1>g, <2>3, <3>2, <3>4 DEF Written, KnownBeforeSent
    <3>5. tx[d] # "unsent" => order[d] \in {"submitting", "completed"}
      BY <3>3 DEF Written, KnownBeforeSent
    <3>6. CASE Read(r)
      BY <2>3, <3>3, <3>4, <3>5, <3>6, Moved DEF Read, At, store, Sending, TypeOK
    <3>7. CASE Delete(r)
      <4>1. tx'[d] = "unsent" /\ req'[r].pc = "release"
        BY <1>w, <3>7, Moved DEF Delete, At
      <4> QED BY <3>4, <4>1 DEF Sending
    <3>8. CASE Status(r)
      BY <2>3, <3>3, <3>4, <3>5, <3>8, Moved DEF Status, At, store, Sending
    <3>9. CASE Ahead(r)
      <4>1. order'[d] = "submitting" /\ req'[r].pc = "send" /\ req'[r].draft = d
        BY <3>3, <3>9, Moved DEF Ahead, TypeOK
      <4> QED BY <3>4, <4>1
    <3>10. CASE Send(r)
      <4>1. order'[d] \in {"submitting", "completed"} /\ req'[r].pc = "answer" /\ req'[r].draft = d
        BY <1>w, <3>10, Moved DEF Send, At, store, Sending
      <4> QED BY <3>4, <4>1
    <3>11. CASE Answered(r)
      <4>1. order'[d] \in {"submitting", "completed"} /\ req'[r].pc = "keep" /\ req'[r].draft = d
        BY <1>w, <3>11, Moved DEF Answered, At, store, Sending
      <4> QED BY <3>4, <4>1
    <3>12. CASE Keep(r)
      <4>1. order'[d] \in {"submitting", "completed"} /\ req'[r].pc = "release"
        BY <1>w, <3>3, <3>12, Moved DEF Keep, At, Sending, TypeOK
      <4> QED BY <3>4, <4>1 DEF Sending
    <3>13. CASE Throw(r) \/ Die(r)
      <4>1. order' = order /\ tx' = tx /\ req'[r].pc \in {"drop", "release", "idle"}
        BY <3>13, Moved DEF Throw, Thrown, Die, Idle, TypeOK, store
      <4> QED BY <3>4, <3>5, <4>1 DEF Sending
    <3>14. ~Lookup(r) /\ ~Redraft(r) /\ ~Reserve(r) /\ ~Build(r) /\ ~Store(r) /\ ~Drop(r)
      BY <2>4 DEF Lookup, Redraft, Reserve, Build, Store, Drop, At, Executing
    <3> QED BY <2>1, <3>6, <3>7, <3>8, <3>9, <3>10, <3>11, <3>12, <3>13, <3>14 DEF Works
  <2>5. CASE req[r].pc \notin Executing /\ req[r].pc # "store"
    <3>1. order' = order /\ tx' = tx /\ req'[r].pc \notin Sending \cup {"delete"}
      BY <2>3, <2>5 DEF Executing, Sending
    <3> QED BY <1>s, <2>2, <3>1
  <2>6. CASE req[r].pc = "store"
    <3>1. d \in Draft /\ tx[d] = "unsent" /\ \A q \in Req : req[q].pc \in Executing => req[q].draft # d
      BY <2>6, Fresh
    <3>2. tx' = tx /\ req'[r].pc \notin Sending \cup {"delete"}
      BY <2>3, <2>6 DEF Executing, Sending
    <3>3. \A q \in Req \ {r} : Past(q)
      <4> SUFFICES ASSUME NEW q \in Req \ {r}, req[q].pc \in Sending \cup {"delete"} PROVE Past(q)
        BY <2>2
      <4>1. req[q].draft \in Draft /\ req[q].draft # d
        BY <1>d, <3>1 DEF Sending, Executing
      <4>2. order'[req[q].draft] = order[req[q].draft] /\ tx'[req[q].draft] = tx[req[q].draft]
        BY <2>3, <4>1
      <4> QED BY <1>w, <2>2, <4>2
    <3> QED BY <1>g, <2>3, <3>1, <3>2, <3>3 DEF Written, KnownBeforeSent
  <2> QED BY <2>4, <2>5, <2>6
<1>4. CASE \E r \in Req : Ends(r)
  <2>1. PICK r \in Req : Ends(r)
    BY <1>4
  <2>2. order' = order /\ tx' = tx
    BY <2>1 DEF Ends, Acquire, Release
  <2>3. CASE Answer(r)
    BY <1>s, <2>2, <2>3, Ended DEF OneMoves, Idle, Sending
  <2>4. CASE Go(r, IF req[r].op = "create" THEN "lookup" ELSE "read")
    BY <1>s, <2>2, <2>4, Moved DEF Sending
  <2> QED BY <2>1, <2>3, <2>4, Ending
<1>5. CASE \E d \in Draft : Expire(d) \/ Settle(d)
  <2>1. PICK d \in Draft : Expire(d) \/ Settle(d)
    BY <1>5
  <2>2. CASE Expire(d)
    <3>1. /\ req' = req /\ tx' = tx /\ order[d] = "pending" /\ order'[d] = "none"
          /\ \A e \in Draft \ {d} : order'[e] = order[e]
      BY <2>2 DEF Expire, TypeOK
    <3> QED BY <1>d, <1>g, <1>w, <3>1 DEF Written, KnownBeforeSent, Sending, Executing
  <2>3. CASE Settle(d)
    <3>1. /\ req' = req /\ order' = order /\ tx[d] = "sent"
          /\ \A e \in Draft \ {d} : tx'[e] = tx[e]
      BY <2>3 DEF Settle, store, TypeOK
    <3> QED BY <1>d, <1>g, <1>w, <3>1 DEF Written, KnownBeforeSent, Sending, Executing
  <2> QED BY <2>1, <2>2, <2>3
<1>6. CASE \E n \in Key \cup Draft : LockExpires(n)
  BY <1>6, <1>s DEF LockExpires
<1>7. CASE UNCHANGED vars
  BY <1>7, <1>s DEF vars, store
<1> QED BY <1>1, <1>2, <1>3, <1>4, <1>5, <1>6, <1>7, Steps
-----------------------------------------------------------------------------
\* Of a draft that is gone nothing comes back.
LEMMA StaysGone ==
  ASSUME TypeOK, Ops, Locked, Given, [Next]_vars, NEW d \in Gone, d \in Named
  PROVE  d \in Gone'
<1>d. /\ d \in Draft /\ tx[d] = "unsent" /\ order[d] = "none"
      /\ \A r \in Req : req[r].pc \in Executing \ {"read"} => req[r].draft # d
  BY DEF Gone
<1>s. ASSUME order'[d] = order[d], tx'[d] = tx[d],
             \A r \in Req : req'[r] = req[r] \/ req'[r].pc \notin Executing \ {"read"}
                            \/ req'[r].draft # d
      PROVE  d \in Gone'
  BY <1>d, <1>s DEF Gone
<1>1. CASE \E s \in Session : Taps(s)
  BY <1>1, <1>s, Tapped DEF store
<1>2. CASE \E s \in Session, r \in Req : Starts(s, r)
  <2>1. PICK s \in Session, r \in Req : Starts(s, r)
    BY <1>2
  <2> QED BY <1>s, <2>1, Started DEF store, OneMoves, Executing
<1>3. CASE \E r \in Req : Works(r)
  <2>1. PICK r \in Req : Works(r)
    BY <1>3
  <2>2. \A q \in Req \ {r} : req'[q] = req[q]
    BY <2>1, Worked
  <2>3. /\ order'[d] = order[d] \/ d = req[r].draft
        /\ tx'[d] = tx[d] \/ d = req[r].draft
        /\ req[r].pc \notin {"store", "delete", "ahead", "keep"} => order' = order
        /\ req[r].pc # "send" => tx' = tx
        /\ req'[r].pc \in Executing => req'[r].draft = req[r].draft /\ req[r].pc \in Executing
    BY <1>d, <2>1, Writes
  <2>4. CASE req[r].draft # d
    BY <1>s, <2>2, <2>3, <2>4
  <2>5. CASE req[r].draft = d /\ req[r].pc = "read"
    <3>1. req'[r].pc \notin Executing
      <4>1. CASE Read(r)
        BY <1>d, <2>5, <4>1, Moved DEF Read, Executing
      <4>2. CASE Throw(r)
        BY <2>5, <4>2, Moved DEF Throw, Thrown, Owns, Executing
      <4>3. CASE Die(r)
        BY <4>3 DEF Die, Idle, Executing, TypeOK
      <4> QED BY <2>1, <2>5, <4>1, <4>2, <4>3
          DEF Works, Lookup, Redraft, Reserve, Build, Store, Drop, Delete, Status, Ahead, Send,
              Answered, Keep, At
    <3> QED BY <1>s, <2>2, <2>3, <2>5, <3>1
  <2>6. CASE req[r].draft = d /\ req[r].pc # "read"
    <3>1. req[r].pc \notin Executing
      BY <1>d, <2>6
    <3>2. req[r].pc # "store"
      BY <2>6, Fresh
    <3> QED BY <1>s, <2>2, <2>3, <3>1, <3>2 DEF Executing
  <2> QED BY <2>4, <2>5, <2>6
<1>4. CASE \E r \in Req : Ends(r)
  <2>1. PICK r \in Req : Ends(r)
    BY <1>4
  <2>2. order' = order /\ tx' = tx
    BY <2>1 DEF Ends, Acquire, Release
  <2>3. CASE Answer(r)
    BY <1>s, <2>2, <2>3, Ended DEF OneMoves, Idle, Executing
  <2>4. CASE Go(r, IF req[r].op = "create" THEN "lookup" ELSE "read")
    BY <1>s, <2>2, <2>4, Moved DEF Executing
  <2> QED BY <2>1, <2>3, <2>4, Ending
<1>5. CASE \E e \in Draft : Expire(e) \/ Settle(e)
  <2>1. req' = req /\ order'[d] = order[d] /\ tx'[d] = tx[d]
    BY <1>5, <1>d DEF Expire, Settle, store, TypeOK
  <2> QED BY <1>s, <2>1
<1>6. CASE \E n \in Key \cup Draft : LockExpires(n)
  BY <1>6, <1>s DEF LockExpires
<1>7. CASE UNCHANGED vars
  BY <1>7, <1>s DEF vars, store
<1> QED BY <1>1, <1>2, <1>3, <1>4, <1>5, <1>6, <1>7, Steps

\* A request comes to answer "expired" only of a draft that is gone.
LEMMA Expired ==
  ASSUME TypeOK, Ops, Locked, Written, NEW r \in Req, Works(r), req'[r].out = "expired"
  PROVE  req'[r].draft \in Gone'
<1> DEFINE d == req[r].draft
<1>1. Read(r) \/ Delete(r)
  <2>1. CASE Lookup(r)
    BY <2>1, LookedUp
  <2>2. CASE Reserve(r)
    BY <2>2, Reserved
  <2>3. CASE Die(r)
    BY <2>3 DEF Die, Idle, TypeOK
  <2>4. CASE Throw(r)
    BY <2>4, Moved DEF Throw, Thrown, Owns, Ops, Creating, Executing
  <2>5. CASE Redraft(r) \/ Build(r) \/ Store(r) \/ Drop(r)
    BY <2>5, Moved DEF Redraft, Build, Store, Drop, Thrown, Owns, At, Ops
  <2>6. CASE Status(r) \/ Ahead(r) \/ Send(r) \/ Answered(r) \/ Keep(r)
    BY <2>6, Moved DEF Status, Ahead, Send, Answered, Keep, At, Ops
  <2> QED BY <2>1, <2>2, <2>3, <2>4, <2>5, <2>6 DEF Works
<1>2. req[r].pc \in Executing /\ d \in Draft /\ req[r].out = "error"
  BY <1>1 DEF Read, Delete, At, Executing, TypeOK, Ops
<1>3. /\ req'[r].draft = d /\ req'[r].pc = "release" /\ order'[d] = "none" /\ tx'[d] = "unsent"
  <2>1. CASE Read(r)
    BY <1>2, <2>1, Moved DEF Read, At, store, Written, KnownBeforeSent, TypeOK
  <2>2. CASE Delete(r)
    BY <1>2, <2>2, Moved DEF Delete, At, Written, TypeOK
  <2> QED BY <1>1, <2>1, <2>2
<1>4. \A q \in Req \ {r} : req'[q].pc \in Executing => req'[q].draft # d
  BY <1>2, AloneExecuting, Worked
<1> QED BY <1>2, <1>3, <1>4 DEF Gone, Executing

\* A draft that was reported as expired is gone, so nothing sends it.
LEMMA OverInductive ==
  ASSUME TypeOK, Ops, Locked, Given, Written, Over, [Next]_vars
  PROVE  Over'
<1>g. ASSUME \A d \in Draft : "expired" \in told'[d] => d \in Gone',
             \A r \in Req : req'[r].out = "expired" => req'[r].draft \in Gone'
      PROVE  Over'
  BY <1>g DEF Over
<1>1. \A d \in Draft : "expired" \in told[d] => d \in Gone'
  BY StaysGone DEF Over, Given
<1>2. \A r \in Req : req[r].out = "expired" => req[r].draft \in Gone'
  <2> SUFFICES ASSUME NEW r \in Req, req[r].out = "expired" PROVE req[r].draft \in Gone'
    OBVIOUS
  <2>1. req[r].pc = "release" /\ req[r].op = "execute" /\ req[r].draft \in Draft
    BY DEF Ops, TypeOK, Request
  <2>2. req[r].draft \in Named
    BY <2>1 DEF Given
  <2> QED BY <2>1, <2>2, StaysGone DEF Over
<1>s. ASSUME told' = told, \A r \in Req : req'[r] = req[r] \/ req'[r].out # "expired"
      PROVE  Over'
  BY <1>1, <1>2, <1>g, <1>s
<1>3. CASE \E s \in Session : Taps(s)
  BY <1>3, <1>s, Tapped
<1>4. CASE \E s \in Session, r \in Req : Starts(s, r)
  <2>1. PICK s \in Session, r \in Req : Starts(s, r)
    BY <1>4
  <2> QED BY <1>s, <2>1, Started DEF OneMoves
<1>5. CASE \E r \in Req : Works(r)
  <2>1. PICK r \in Req : Works(r)
    BY <1>5
  <2>2. told' = told /\ \A q \in Req \ {r} : req'[q] = req[q]
    BY <2>1, Worked
  <2> QED BY <1>1, <1>2, <1>g, <2>1, <2>2, Expired
<1>6. CASE \E r \in Req : Ends(r)
  <2>1. PICK r \in Req : Ends(r)
    BY <1>6
  <2>2. CASE Answer(r)
    <3>1. /\ req'[r].out = "error" /\ \A q \in Req \ {r} : req'[q] = req[q]
          /\ \A d \in Draft : "expired" \in told'[d] =>
               "expired" \in told[d] \/ (d = req[r].draft /\ req[r].out = "expired")
      BY <2>2, Ended DEF OneMoves, Idle
    <3> QED BY <1>1, <1>2, <1>g, <3>1
  <2>3. CASE Go(r, IF req[r].op = "create" THEN "lookup" ELSE "read") /\ UNCHANGED device
            /\ At(r, "lock")
    BY <1>s, <2>3, Moved DEF device, Ops, At
  <2> QED BY <2>1, <2>2, <2>3, Ending
<1>7. CASE \E d \in Draft : Expire(d) \/ Settle(d)
  BY <1>7, <1>s DEF Expire, Settle, device
<1>8. CASE \E n \in Key \cup Draft : LockExpires(n)
  BY <1>8, <1>s DEF LockExpires, device
<1>9. CASE UNCHANGED vars
  BY <1>9, <1>s DEF vars, device
<1> QED BY <1>3, <1>4, <1>5, <1>6, <1>7, <1>8, <1>9, Steps
-----------------------------------------------------------------------------
\* At first nothing is reserved, built or sent.
LEMMA InitIInv == Init => IInv
<1> SUFFICES ASSUME Init PROVE IInv
  OBVIOUS
<1>1. TypeOK
  BY IdleType, NoFlowType DEF Init, TypeOK, Idle, NoFlow
<1>2. Ops /\ Placed
  BY RecurringOrderAssumption
  DEF Init, Ops, Placed, DoneIsPlaced, Idle, NoFlow, Creating, Executing
<1>3. Locked /\ Written /\ Over
  BY DEF Init, Locked, InSection, Written, KnownBeforeSent, Over, Idle, Creating, Executing
<1>4. Given
  BY RecurringOrderAssumption DEF Init, Given, Idle, NoFlow
<1> QED BY <1>1, <1>2, <1>3, <1>4 DEF IInv

\* Every step keeps all parts of the invariant.
LEMMA IInvInductive == IInv /\ [Next]_vars => IInv'
<1> SUFFICES ASSUME IInv, [Next]_vars PROVE IInv'
  OBVIOUS
<1>1. TypeOK' /\ Ops' /\ Placed'
  BY TypeInductive, OpsInductive, PlacedInductive DEF IInv
<1>2. CASE Outlives
  BY <1>1, <1>2 DEF IInv
<1>3. CASE ~Outlives
  BY <1>1, <1>3, LockedInductive, GivenInductive, WrittenInductive, OverInductive DEF IInv
<1> QED BY <1>2, <1>3

(***************************************************************************)
(* The inductive invariant holds throughout, for any number of sessions,   *)
(* requests, keys and drafts of the create and execute calls.              *)
(***************************************************************************)
THEOREM Invariance == Spec => []IInv
BY InitIInv, IInvInductive, PTL DEF Spec

(***************************************************************************)
(* Every state has the declared types.                                     *)
(***************************************************************************)
THEOREM TypeCorrect == Spec => []TypeOK
<1>1. IInv => TypeOK
  BY DEF IInv
<1> QED BY <1>1, Invariance, PTL

(***************************************************************************)
(* As long as no request outlives its lock, one idempotency key never puts *)
(* two orders' transactions into the provider's hands.                     *)
(***************************************************************************)
THEOREM OneOrder ==
  ASSUME ~Outlives
  PROVE  Spec => []OneOrderPerKey
<1>1. IInv => OneOrderPerKey
  BY DEF IInv, Given, Named, OneOrderPerKey
<1> QED BY <1>1, Invariance, PTL

(***************************************************************************)
(* Under the same condition whatever was sent is known to the store.       *)
(***************************************************************************)
THEOREM Known ==
  ASSUME ~Outlives
  PROVE  Spec => []KnownBeforeSent
<1>1. IInv => KnownBeforeSent
  BY DEF IInv, Written
<1> QED BY <1>1, Invariance, PTL

(***************************************************************************)
(* Locks or not, the device is told that an order is placed only when it   *)
(* is.                                                                     *)
(***************************************************************************)
THEOREM DonePlaced == Spec => []DoneIsPlaced
<1>1. IInv => DoneIsPlaced
  BY DEF IInv, Placed
<1> QED BY <1>1, Invariance, PTL

(***************************************************************************)
(* And, as long as no request outlives its lock, an order the device was   *)
(* told has expired is never sent.                                         *)
(***************************************************************************)
THEOREM ExpiredNeverSent ==
  ASSUME ~Outlives
  PROVE  Spec => []ExpiredIsNeverSent
<1>1. IInv => ExpiredIsNeverSent
  BY DEF IInv, Over, Gone, ExpiredIsNeverSent
<1> QED BY <1>1, Invariance, PTL
-----------------------------------------------------------------------------
(***************************************************************************)
(* The refinement of Submission.  Whatever of a key has left the worker,   *)
(* or was reported, is of the one draft that the key's record names.       *)
(***************************************************************************)
\* The operation's fate and answers are those of the draft it names.
LEMMA NamedFate ==
  ASSUME TypeOK, Given, NEW d \in Named
  PROVE  /\ d \in Draft /\ built[d] \in Key /\ Fate(built[d]) = End(tx[d])
         /\ Told(built[d]) = told[d]
         /\ \A e \in Under(built[d]) \ {d} : tx[e] = "unsent" /\ told[e] = {}
<1>1. d \in Draft /\ built[d] \in Key /\ d \in Under(built[d])
  BY DEF Named, Under
<1>2. \A e \in Under(built[d]) \ {d} : tx[e] = "unsent" /\ told[e] = {}
  BY DEF Given, Named, Under
<1>3. Fate(built[d]) = End(tx[d])
  <2>1. CASE tx[d] = "unsent"
    BY <1>2, <2>1 DEF Fate, Left, End
  <2>2. CASE tx[d] # "unsent"
    <3>1. Left(built[d]) = {d}
      BY <1>1, <1>2, <2>2 DEF Left
    <3> QED BY <3>1 DEF Fate
  <2> QED BY <2>1, <2>2
<1>4. Told(built[d]) = told[d]
  BY <1>1, <1>2 DEF Told
<1> QED BY <1>1, <1>2, <1>3, <1>4

\* A step that leaves the drafts alone is no step of the operation.
LEMMA NothingPlaced ==
  ASSUME UNCHANGED <<built, tx, told>>
  PROVE  UNCHANGED Placing!vars
BY DEF Placing!vars, Fate, Told, Left, Under, End

\* A step that changes the transaction of a named draft changes its key's fate.
LEMMA FateMoves ==
  ASSUME TypeOK, Given, NEW d \in Named, NEW k \in Key, built[d] = k, UNCHANGED <<built, told>>,
         \A e \in Draft \ {d} : tx'[e] = tx[e]
  PROVE  /\ Fate(k)' = End(tx'[d])
         /\ \A j \in Key \ {k} : Fate(j)' = Fate(j)
         /\ \A j \in Key : Told(j)' = Told(j) /\ Under(j)' = Under(j)
<1>1. \A j \in Key : Told(j)' = Told(j) /\ Under(j)' = Under(j)
  BY DEF Told, Under
<1>2. Fate(k)' = End(tx'[d])
  <2>1. d \in Under(k) /\ \A e \in Under(k) \ {d} : e \in Draft /\ tx[e] = "unsent"
    BY NamedFate DEF Under
  <2>2. CASE tx'[d] = "unsent"
    BY <1>1, <2>1, <2>2 DEF Fate, Left, End
  <2>3. CASE tx'[d] # "unsent"
    <3>1. Left(k)' = {d}
      BY <1>1, <2>1, <2>3 DEF Left
    <3> QED BY <3>1 DEF Fate
  <2> QED BY <2>2, <2>3
<1>3. ASSUME NEW j \in Key \ {k} PROVE Fate(j)' = Fate(j)
  <2>1. \A e \in Under(j) : e \in Draft \ {d}
    BY DEF Under
  <2>2. Left(j)' = Left(j) /\ \A e \in Left(j) : tx'[e] = tx[e]
    BY <1>1, <2>1 DEF Left
  <2> QED BY <2>2 DEF Fate
<1> QED BY <1>1, <1>2, <1>3

\* A reservation asks for its key: nothing was sent or said of the new draft.
LEMMA ReservePlaces ==
  ASSUME TypeOK, Ops, Given, NEW r \in Req, Reserve(r)
  PROVE  \E k \in Key : Placing!Ask(k)
<1>1. PICK d \in Draft : built[d] = NoKey /\ built' = [built EXCEPT ![d] = req[r].key]
  BY DEF Reserve
<1>2. req[r].key \in Key /\ tx' = tx /\ told' = told
  BY DEF Reserve, At, TypeOK, Ops, Creating, device
<1>3. tx[d] = "unsent" /\ told[d] = {}
  BY <1>1, RecurringOrderAssumption DEF Given, Named
<1>4. \A k \in Key : Under(k)' = Under(k) \cup {e \in {d} : k = req[r].key}
  BY <1>1, <1>2, RecurringOrderAssumption DEF Under, TypeOK
<1>5. ASSUME NEW k \in Key PROVE Fate(k)' = Fate(k)
  <2>1. Left(k)' = Left(k)
    BY <1>2, <1>3, <1>4 DEF Left
  <2> QED BY <1>2, <2>1 DEF Fate
<1>6. \A k \in Key : Told(k)' = Told(k)
  BY <1>2, <1>3, <1>4 DEF Told
<1>7. {k \in Key : Under(k) # {}}' = {k \in Key : Under(k) # {}} \cup {req[r].key}
  BY <1>2, <1>4
<1> QED BY <1>2, <1>5, <1>6, <1>7 DEF Placing!Ask

\* What the provider is handed is new to the key, and the key has not expired.
LEMMA SendPlaces ==
  ASSUME TypeOK, Ops, Given, Over, NEW r \in Req, Send(r)
  PROVE  [Placing!Next]_(Placing!vars)
<1> PICK d \in Named, k \in Key : d = req[r].draft /\ k = built[d]
  BY DEF Send, At, Given, Ops, Named, Executing
<1>1. d \in Draft /\ d \notin Gone
  BY DEF Send, At, Named, Gone, Executing
<1>2. UNCHANGED <<built, told>> /\ tx' = [tx EXCEPT ![d] = IF @ = "unsent" THEN "sent" ELSE @]
  BY DEF Send, device, store
<1>3. CASE tx[d] # "unsent"
  BY <1>1, <1>2, <1>3, NothingPlaced DEF TypeOK
<1>4. CASE tx[d] = "unsent"
  <2>1. Fate(k) = "unsent" /\ "expired" \notin Told(k)
    BY <1>1, <1>4, NamedFate DEF Over, End
  <2>2. tx'[d] = "sent" /\ \A e \in Draft \ {d} : tx'[e] = tx[e]
    BY <1>1, <1>2, <1>4 DEF TypeOK
  <2>3. /\ Fate(k)' = "sent" /\ \A j \in Key \ {k} : Fate(j)' = Fate(j)
        /\ \A j \in Key : Told(j)' = Told(j) /\ Under(j)' = Under(j)
    BY <1>1, <1>2, <2>2, FateMoves DEF End
  <2>4. d \in Under(k)
    BY <1>1 DEF Under
  <2>5. Placing!Submit(k)
    BY <1>1, <2>1, <2>3, <2>4 DEF Placing!Submit
  <2> QED BY <1>1, <2>5 DEF Placing!Next
<1> QED BY <1>3, <1>4

\* The end of a draft's transaction is that of its key's.
LEMMA SettlePlaces ==
  ASSUME TypeOK, Given, NEW d \in Draft, Settle(d)
  PROVE  \E k \in Key : Placing!Settle(k)
<1>1. d \in Named /\ tx[d] = "sent" /\ UNCHANGED <<built, told>>
  BY DEF Settle, Given, device, store
<1> PICK k \in Key : k = built[d]
  BY <1>1 DEF Named
<1>2. Fate(k) = "sent"
  BY <1>1, NamedFate DEF End
<1>3. PICK end \in {"landed", "failed"} : tx' = [tx EXCEPT ![d] = end]
  BY DEF Settle
<1>4. tx'[d] = end /\ \A e \in Draft \ {d} : tx'[e] = tx[e]
  BY <1>3 DEF TypeOK
<1>5. /\ Fate(k)' \in {"landed", "dead"} /\ \A j \in Key \ {k} : Fate(j)' = Fate(j)
      /\ \A j \in Key : Told(j)' = Told(j) /\ Under(j)' = Under(j)
  BY <1>1, <1>4, FateMoves DEF End
<1> QED BY <1>2, <1>5 DEF Placing!Settle

\* What the device hears is true of its key: it was placed, or nothing was sent.
LEMMA AnswerPlaces ==
  ASSUME TypeOK, Ops, Given, Placed, Over, NEW r \in Req, Answer(r), UNCHANGED <<built, tx>>
  PROVE  [Placing!Next]_(Placing!vars)
<1>1. CASE told' = told
  BY <1>1, NothingPlaced
<1>2. CASE told' # told
  <2> PICK d : d = req[r].draft
    OBVIOUS
  <2>1. /\ req[r].out \in {"done", "expired"}
        /\ told' = [told EXCEPT ![d] = @ \cup {req[r].out}]
    BY <1>2 DEF Answer
  <2>r. req[r].pc = "release" /\ req[r].op = "execute"
    BY <2>1 DEF Ops, TypeOK, Request
  <2>2. d \in Named /\ d \in Draft
    BY <2>r DEF Given, Named
  <2> PICK k \in Key : k = built[d]
    BY <2>2 DEF Named
  <2>3. \A j \in Key : Under(j)' = Under(j) /\ Fate(j)' = Fate(j)
    BY DEF Under, Fate, Left
  <2>4. /\ told'[d] = told[d] \cup {req[r].out}
        /\ \A e \in Draft \ {d} : told'[e] = told[e]
    BY <2>1, <2>2 DEF TypeOK
  <2>5. \A j \in Key \ {k} : Told(j)' = Told(j)
    BY <2>3, <2>4 DEF Told, Under
  <2>6. Told(k)' = Told(k) \cup {req[r].out}
    <3>1. d \in Under(k) /\ \A e \in Under(k) \ {d} : e \in Draft /\ told[e] = {}
      BY <2>2, NamedFate DEF Under
    <3>2. told'[d] = told[d] \cup {req[r].out} /\ \A e \in Under(k) \ {d} : told'[e] = {}
      BY <2>4, <3>1
    <3> QED BY <2>3, <3>1, <3>2 DEF Told
  <2>7. CASE req[r].out = "done"
    <3>1. Fate(k) = "landed"
      BY <2>2, <2>7, NamedFate DEF Placed, End
    <3>2. Placing!TellDone(k)
      BY <2>2, <2>3, <2>5, <2>6, <2>7, <3>1 DEF Placing!TellDone
    <3> QED BY <2>2, <3>2 DEF Placing!Next
  <2>8. CASE req[r].out = "expired"
    <3>1. Fate(k) = "unsent"
      BY <2>2, <2>8, NamedFate DEF Over, Gone, End
    <3>2. Placing!TellExpired(k)
      BY <2>2, <2>3, <2>5, <2>6, <2>8, <3>1 DEF Placing!TellExpired
    <3> QED BY <2>2, <3>2 DEF Placing!Next
  <2> QED BY <2>1, <2>7, <2>8
<1> QED BY <1>1, <1>2

\* Every step is a step of Submission or leaves what it sees alone.
LEMMA StepPlaces ==
  ASSUME ~Outlives, IInv, [Next]_vars
  PROVE  [Placing!Next]_(Placing!vars)
<1>i. TypeOK /\ Ops /\ Placed /\ Given /\ Over
  BY DEF IInv
<1>1. CASE \E s \in Session : Taps(s)
  BY <1>i, <1>1, Tapped, NothingPlaced DEF store
<1>2. CASE \E s \in Session, r \in Req : Starts(s, r)
  BY <1>i, <1>2, Started, NothingPlaced DEF store
<1>3. CASE \E r \in Req : Works(r)
  <2>1. PICK r \in Req : Works(r)
    BY <1>3
  <2>2. CASE Reserve(r)
    BY <1>i, <2>2, ReservePlaces DEF Placing!Next
  <2>3. CASE Send(r)
    BY <1>i, <2>3, SendPlaces
  <2>4. CASE ~Reserve(r) /\ ~Send(r)
    <3>1. UNCHANGED <<built, tx, told>>
      BY <2>1, <2>4
         DEF Works, Throw, Die, Lookup, Redraft, Build, Store, Drop, Read, Delete, Status, Ahead,
             Answered, Keep, device, store
    <3> QED BY <3>1, NothingPlaced
  <2> QED BY <2>2, <2>3, <2>4
<1>4. CASE \E r \in Req : Ends(r)
  <2>1. PICK r \in Req : Ends(r)
    BY <1>4
  <2>2. UNCHANGED <<built, tx>>
    BY <2>1 DEF Ends, Acquire, Release
  <2>3. CASE Answer(r)
    BY <1>i, <2>2, <2>3, AnswerPlaces
  <2>4. CASE UNCHANGED device
    BY <2>2, <2>4, NothingPlaced DEF device
  <2> QED BY <1>i, <2>1, <2>3, <2>4, Ending
<1>5. CASE \E d \in Draft : Expire(d)
  BY <1>5, NothingPlaced DEF Expire, device
<1>6. CASE \E d \in Draft : Settle(d)
  BY <1>i, <1>6, SettlePlaces DEF Placing!Next
<1>7. CASE \E n \in Key \cup Draft : LockExpires(n)
  BY <1>7, NothingPlaced DEF LockExpires, device
<1>8. CASE UNCHANGED vars
  BY <1>8, NothingPlaced DEF vars, device, store
<1> QED BY <1>1, <1>2, <1>3, <1>4, <1>5, <1>6, <1>7, <1>8, Steps

\* The initial states are Submission's.
LEMMA InitPlaces == Init => Placing!Init
<1> SUFFICES ASSUME Init PROVE Placing!Init
  OBVIOUS
<1>1. \A k \in Key : Under(k) = {}
  BY RecurringOrderAssumption DEF Init, Under
<1> QED BY <1>1 DEF Placing!Init, Fate, Told, Left

(***************************************************************************)
(* As long as no request outlives its lock, create and execute implement   *)
(* Submission: whatever is retried, killed or lost, a key is submitted at  *)
(* most once, never once reported as expired, and no answer given under it *)
(* is contradicted later.                                                  *)
(***************************************************************************)
THEOREM ImplementsSubmission ==
  ASSUME ~Outlives
  PROVE  Spec => SubmittedOnce
<1>1. IInv /\ [Next]_vars => [Placing!Next]_(Placing!vars)
  BY StepPlaces
<1> QED BY <1>1, InitPlaces, Invariance, PTL DEF Spec, SubmittedOnce, Placing!Spec
=============================================================================
