--------------------------- MODULE SwapQuote_proofs ---------------------------
(***************************************************************************)
(* Proofs about SwapQuote, for any number of quotes and requests: types;   *)
(* only what was reviewed is swapped; what was reported is true; and all   *)
(* of it implements Submission.                                            *)
(***************************************************************************)
EXTENDS SwapQuote, TLAPS

\* Whatever is confirmed, asked for or sent was reviewed, and exists.
Reviewed ==
  /\ SwappedWasReviewed
  /\ \A q \in confirmed : tx[q] # "unmade"
  /\ run.stage \in {"sign", "wait"} => run.quote \in confirmed
  /\ \A r \in Req : req[r].pc # "idle" => req[r].quote \in confirmed

\* The quotes of which "done" is true.
Swaps == {q \in Quote : Swapped(q)}

\* A request has its verdict when it is done; a good one is true.
Verdicts ==
  /\ \A q \in Quote : state[q] = "completed" => q \in Swaps
  /\ \A r \in Req :
       /\ req[r].out # "error" => req[r].pc = "release"
       /\ req[r].pc = "answer" => tx[req[r].quote] # "unsent"
       /\ req[r].pc = "keep" \/ req[r].out = "done" => req[r].quote \in Swaps

\* Who is in the section holds the lock of its quote.
Locked == \A r \in Req : InSection(r) => lock[req[r].quote] = r

\* The stored status and the request that has read it agree.
Order ==
  /\ \A q \in Quote :
       tx[q] \in {"sent", "landed", "dead"} => state[q] \in {"submitting", "completed"} \/ q \in gone
  /\ \A r \in Req :
       LET q == req[r].quote
       IN  /\ req[r].pc = "delete" =>
                state[q] \in {"prepared", "none"} /\ (tx[q] = "unsent" \/ q \in gone)
           /\ req[r].pc = "ahead" => state[q] # "completed"
           /\ req[r].pc \in {"status", "send", "answer", "refuse"} => state[q] = "submitting"
           /\ req[r].pc = "refuse" => q \in gone

\* Past reading the state, before the verdict.
Working == {"delete", "status", "ahead", "send", "answer", "refuse", "keep"}

\* Nothing of the quote is left, and nobody is past reading it.
Over ==
  {q \in Quote :
     /\ tx[q] = "unsent" /\ state[q] = "none"
     /\ \A r \in Req : req[r].pc \in Working => req[r].quote # q}

Lapsing ==
  /\ lapsed \subseteq Over \cup gone
  /\ \A r \in Req : req[r].out = "lapsed" => req[r].quote \in Over \cup gone

IInv == TypeOK /\ Reviewed /\ Verdicts /\ (~Outlives => Locked /\ Order /\ Lapsing)
-----------------------------------------------------------------------------
(***************************************************************************)
(* The types, one by one.                                                  *)
(***************************************************************************)
LEMMA Types ==
  TypeOK <=>
    /\ shown \in Quote \cup {NoQuote} /\ review \in Quote \cup {NoQuote}
    /\ run \in Run /\ (run.stage # "none") = (run.quote # NoQuote)
    /\ (run.stage = "wait") = (run.call # NoReq)
    /\ confirmed \subseteq Quote /\ lapsed \subseteq Quote
    /\ expired \subseteq Quote /\ gone \subseteq Quote
    /\ state \in [Quote -> {"none", "prepared", "submitting", "completed"}]
    /\ lock \in [Quote -> Req \cup {NoReq}]
    /\ req \in [Req -> Request]
    /\ \A r \in Req : req[r].pc # "idle" => req[r].quote # NoQuote
    /\ tx \in [Quote -> {"unmade", "unsent", "sent", "landed", "dead"}]
    /\ shown # NoQuote => tx[shown] # "unmade"
    /\ review # NoQuote => tx[review] # "unmade"
<1>1. UNION {confirmed, lapsed, expired, gone} \subseteq Quote <=>
        /\ confirmed \subseteq Quote /\ lapsed \subseteq Quote
        /\ expired \subseteq Quote /\ gone \subseteq Quote
  OBVIOUS
<1> QED BY <1>1 DEF TypeOK

\* The empty mutation is a run.
LEMMA NoRunType == NoRun \in Run
BY DEF NoRun, Run

\* The idle record is a request.
LEMMA IdleType == Idle \in Request
BY DEF Idle, Request

\* A request other than an idle one has a quote.
Good(new) == new \in Request /\ (new.pc # "idle" => new.quote # NoQuote)

\* A step of r gives it a record of the right shape and leaves the others.
OneMoves(r) ==
  /\ req' \in [Req -> Request]
  /\ \A q \in Req \ {r} : req'[q] = req[q]
  /\ Good(req'[r])

\* Replacing one record by a good one is a step of that request only.
LEMMA Becomes ==
  ASSUME TypeOK, NEW r \in Req, NEW new, Good(new), req' = [req EXCEPT ![r] = new]
  PROVE  OneMoves(r) /\ req'[r] = new
BY DEF TypeOK, OneMoves, Good

\* What the assignments to a request do to it.
LEMMA Moved ==
  ASSUME TypeOK, NEW r \in Req, req[r].pc # "idle"
  PROVE  /\ \A pc \in {"read"} \cup Working : Go(r, pc) =>
              /\ OneMoves(r) /\ req'[r].pc = pc
              /\ req'[r].quote = req[r].quote /\ req'[r].out = req[r].out
         /\ \A out \in {"error", "done", "refresh", "lapsed"} : Out(r, out) =>
              /\ OneMoves(r) /\ req'[r].pc = "release"
              /\ req'[r].quote = req[r].quote /\ req'[r].out = out
<1>0. req[r] \in Request /\ req[r].quote # NoQuote
  BY DEF TypeOK
<1>1. ASSUME NEW pc \in {"read"} \cup Working, Go(r, pc)
      PROVE  /\ OneMoves(r) /\ req'[r].pc = pc
             /\ req'[r].quote = req[r].quote /\ req'[r].out = req[r].out
  <2> DEFINE new == [req[r] EXCEPT !.pc = pc]
  <2>1. Good(new) /\ new.pc = pc /\ new.quote = req[r].quote /\ new.out = req[r].out
    BY <1>0 DEF Good, Request, Working
  <2>2. req' = [req EXCEPT ![r] = new]
    BY <1>1 DEF Go
  <2> QED BY <2>1, <2>2, Becomes
<1>2. ASSUME NEW out \in {"error", "done", "refresh", "lapsed"}, Out(r, out)
      PROVE  /\ OneMoves(r) /\ req'[r].pc = "release"
             /\ req'[r].quote = req[r].quote /\ req'[r].out = out
  <2> DEFINE new == [req[r] EXCEPT !.pc = "release", !.out = out]
  <2>1. Good(new) /\ new.pc = "release" /\ new.quote = req[r].quote /\ new.out = out
    BY <1>0 DEF Good, Request
  <2>2. req' = [req EXCEPT ![r] = new]
    BY <1>2 DEF Out
  <2> QED BY <2>1, <2>2, Becomes
<1> QED BY <1>1, <1>2
-----------------------------------------------------------------------------
(***************************************************************************)
(* The kinds of steps.                                                     *)
(***************************************************************************)
Taps == Review \/ CloseReview \/ Confirm \/ Fail \/ Relaunch
Quotes(q) == Fetch(q) \/ Fresh(q)
Ends(r) == Acquire(r) \/ Release(r)

\* The steps of a request that neither begin nor answer it.
Works(r) ==
  \/ Throw(r) \/ Die(r)
  \/ Read(r) \/ Delete(r) \/ Status(r) \/ Ahead(r) \/ Send(r) \/ Refuse(r) \/ Forget(r)
  \/ Answered(r) \/ Rejected(r) \/ Keep(r)

\* Every step is one of the device, of a request, of the store or of the chain.
LEMMA Steps ==
  ASSUME [Next]_vars
  PROVE  \/ Taps
         \/ \E r \in Req : Sign(r)
         \/ \E r \in Req : Ends(r)
         \/ \E r \in Req : Works(r)
         \/ \E q \in Quote : Quotes(q)
         \/ \E q \in Quote : Expire(q) \/ Evaporate(q) \/ Settle(q) \/ LockExpires(q)
         \/ UNCHANGED vars
BY DEF Next, Taps, Quotes, Ends, Works

\* What the user does and what goes wrong on the device stays there.
LEMMA Tapped ==
  ASSUME TypeOK, Taps
  PROVE  /\ UNCHANGED <<lapsed, store, req, chain>>
         /\ shown' \in {shown, NoQuote} /\ review' \in {review, shown, NoQuote}
         /\ run' \in Run /\ (run'.stage # "none") = (run'.quote # NoQuote)
         /\ run'.call \in {run.call, NoReq} /\ (run'.stage = "wait") = (run'.call # NoReq)
         /\ confirmed \subseteq confirmed' /\ confirmed' \subseteq confirmed \cup ({review} \ {NoQuote})
         /\ run'.stage \in {"sign", "wait"} => run' = run \/ run'.quote \in confirmed'
<1>1. CASE Review \/ CloseReview
  BY <1>1, Types DEF Review, CloseReview, history
<1>2. CASE Confirm
  <2>1. \A stage \in {"refresh", "sign"} :
          LET new == [NoRun EXCEPT !.stage = stage, !.quote = review]
          IN  new \in Run /\ new.stage = stage /\ new.quote = review /\ new.call = NoReq
    BY <1>2, Types DEF Confirm, Run, NoRun
  <2>2. PICK stage \in {"refresh", "sign"} :
          /\ run' = [NoRun EXCEPT !.stage = stage, !.quote = review]
          /\ confirmed' = IF stage = "sign" THEN confirmed \cup {review} ELSE confirmed
    BY <1>2 DEF Confirm
  <2>3. review # NoQuote /\ UNCHANGED <<shown, review, lapsed, store, req, chain>>
    BY <1>2 DEF Confirm
  <2>4. run' \in Run /\ run'.stage = stage /\ run'.quote = review /\ run'.call = NoReq
    BY <2>1, <2>2
  <2>5. confirmed \subseteq confirmed' /\ confirmed' \subseteq confirmed \cup ({review} \ {NoQuote})
    BY <2>2, <2>3
  <2>6. stage = "sign" => review \in confirmed'
    BY <2>2
  <2> QED BY <2>3, <2>4, <2>5, <2>6
<1>3. CASE Fail \/ Relaunch
  BY <1>3, Types, NoRunType DEF Fail, Relaunch, history, NoRun
<1> QED BY <1>1, <1>2, <1>3 DEF Taps

\* The request that leaves asks for the quote of the mutation.
LEMMA Signed ==
  ASSUME TypeOK, NEW r \in Req, Sign(r)
  PROVE  /\ UNCHANGED <<shown, review, history, store, chain>>
         /\ run.stage = "sign" /\ run' \in Run /\ run'.stage = "wait" /\ run'.call = r
         /\ run'.quote = run.quote /\ run.quote \in Quote
         /\ req[r].pc = "idle" /\ OneMoves(r) /\ req'[r].pc = "lock" /\ req'[r].out = "error"
         /\ req'[r].quote = run.quote
<1>1. run \in Run /\ run.quote \in Quote
  BY DEF TypeOK, Sign, Run
<1>2. LET new == [run EXCEPT !.stage = "wait", !.call = r]
      IN  new \in Run /\ new.stage = "wait" /\ new.call = r /\ new.quote = run.quote
  BY <1>1 DEF Run
<1> DEFINE new == [Idle EXCEPT !.pc = "lock", !.quote = run.quote]
<1>3. Good(new) /\ new.pc = "lock" /\ new.out = "error" /\ new.quote = run.quote
  BY <1>1, SwapQuoteAssumption DEF Good, Request, Idle
<1>4. req' = [req EXCEPT ![r] = new]
  BY DEF Sign
<1>5. OneMoves(r) /\ req'[r] = new
  BY <1>3, <1>4, Becomes
<1> QED BY <1>1, <1>2, <1>3, <1>5 DEF Sign, At

\* An answer ends the request; the mutation hears it if it waits for it.
LEMMA Heard ==
  ASSUME TypeOK, NEW r \in Req, req[r].pc # "idle", NEW out, Answer(r, out)
  PROVE  /\ UNCHANGED <<shown, confirmed>> /\ review' \in {review, NoQuote}
         /\ OneMoves(r) /\ req'[r] = Idle
         /\ run' \in Run /\ (run'.stage # "none") = (run'.quote # NoQuote)
         /\ (run'.stage = "wait") = (run'.call # NoReq)
         /\ run'.stage \in {"sign", "wait"} => run' = run
         /\ lapsed' \subseteq lapsed \cup (IF out = "lapsed" THEN {req[r].quote} ELSE {})
         /\ lapsed \subseteq lapsed'
<1> DEFINE q == req[r].quote
<1>1. q \in Quote
  BY DEF TypeOK, Request
<1>2. OneMoves(r) /\ req'[r] = Idle
  <2>1. Good(Idle)
    BY IdleType DEF Good, Idle
  <2>2. req' = [req EXCEPT ![r] = Idle]
    BY DEF Answer
  <2> QED BY <2>1, <2>2, Becomes
<1>3. LET new == [NoRun EXCEPT !.stage = "refresh", !.quote = q]
      IN  new \in Run /\ new.stage = "refresh" /\ new.quote = q /\ new.call = NoReq
  BY <1>1 DEF NoRun, Run
<1>4. NoRun \in Run /\ NoRun.stage = "none" /\ NoRun.quote = NoQuote /\ NoRun.call = NoReq
  BY NoRunType DEF NoRun
<1>5. run' \in {run, NoRun, [NoRun EXCEPT !.stage = "refresh", !.quote = q]}
  BY DEF Answer
<1>6. q # NoQuote
  BY DEF TypeOK
<1>7. /\ run' \in Run /\ (run'.stage # "none") = (run'.quote # NoQuote)
      /\ (run'.stage = "wait") = (run'.call # NoReq)
      /\ run'.stage \in {"sign", "wait"} => run' = run
  BY <1>3, <1>4, <1>5, <1>6, Types
<1> QED BY <1>2, <1>7 DEF Answer

\* The two steps that may answer.
LEMMA Ending ==
  ASSUME TypeOK, NEW r \in Req, Ends(r)
  PROVE  /\ UNCHANGED <<state, expired, chain>> /\ req[r].pc # "idle"
         /\ \/ /\ req[r].pc = "lock" /\ lock[req[r].quote] = NoReq
               /\ lock' = [lock EXCEPT ![req[r].quote] = r]
               /\ Go(r, "read") /\ UNCHANGED device
            \/ /\ \E out \in {"error", "refresh"} \cup (IF req[r].pc = "release" THEN {req[r].out} ELSE {}) :
                    Answer(r, out)
               /\ lock' = lock
            \/ /\ req[r].pc = "lock" /\ Answer(r, "error") /\ lock[req[r].quote] = NoReq
               /\ lock' = [lock EXCEPT ![req[r].quote] = r]
            \/ /\ req[r].pc = "release" /\ Answer(r, req[r].out) /\ lock[req[r].quote] = r
               /\ lock' = [lock EXCEPT ![req[r].quote] = NoReq]
BY DEF Ends, Acquire, Release, At

\* What a request's work does: its own record, its own quote, nothing else.
LEMMA Worked ==
  ASSUME TypeOK, NEW r \in Req, Works(r)
  PROVE  /\ UNCHANGED <<device, lock, expired>>
         /\ req[r].pc # "idle" /\ req[r].quote \in Quote
         /\ OneMoves(r)
         /\ req'[r] = Idle \/ req'[r].quote = req[r].quote
         /\ req'[r] = Idle \/ req'[r].pc \in {"release"} \cup Working
         /\ req'[r].out # "error" => req'[r].pc = "release" \/ req'[r].out = req[r].out
         /\ state' \in [Quote -> {"none", "prepared", "submitting", "completed"}]
         /\ tx' \in [Quote -> {"unmade", "unsent", "sent", "landed", "dead"}]
         /\ \A q \in Quote \ {req[r].quote} : state'[q] = state[q] /\ tx'[q] = tx[q]
         /\ \/ tx' = tx
            \/ req[r].pc = "send" /\ tx[req[r].quote] = "unsent" /\ tx'[req[r].quote] = "sent"
         /\ gone \subseteq gone' /\ gone' \subseteq gone \cup {req[r].quote}
<1>0. req[r].pc # "idle" /\ req[r].quote \in Quote
  BY DEF Works, Throw, Die, Read, Delete, Status, Ahead, Send, Refuse, Forget, Answered,
         Rejected, Keep, At, TypeOK, Request
<1>t. /\ state \in [Quote -> {"none", "prepared", "submitting", "completed"}]
      /\ tx \in [Quote -> {"unmade", "unsent", "sent", "landed", "dead"}]
  BY Types
<1>1. CASE Die(r)
  <2>1. OneMoves(r) /\ req'[r] = Idle
    <3>1. Good(Idle)
      BY IdleType DEF Good, Idle
    <3> QED BY <1>1, <3>1, Becomes DEF Die
  <2> QED BY <1>0, <1>t, <1>1, <2>1 DEF Die, store, chain, Idle
<1>2. CASE Throw(r) \/ Read(r) \/ Rejected(r)
  BY <1>0, <1>t, <1>2, Moved DEF Throw, Read, Rejected, store, chain, Working
<1>3. CASE Delete(r) \/ Forget(r) \/ Keep(r)
  BY <1>0, <1>t, <1>3, Moved DEF Delete, Forget, Keep, chain
<1>4. CASE Ahead(r)
  BY <1>0, <1>t, <1>4, Moved DEF Ahead, chain, Working
<1>5. CASE Status(r) \/ Answered(r)
  BY <1>0, <1>t, <1>5, Moved DEF Status, Answered, store, chain, Working
<1>6. CASE Send(r)
  BY <1>0, <1>t, <1>6, Moved DEF Send, store, At, Working
<1>7. CASE Refuse(r)
  BY <1>0, <1>t, <1>7, Moved DEF Refuse, store, Working
<1> QED BY <1>1, <1>2, <1>3, <1>4, <1>5, <1>6, <1>7 DEF Works

\* A quote that is fetched did not exist before.
LEMMA Quoted ==
  ASSUME TypeOK, NEW q \in Quote, Quotes(q)
  PROVE  /\ UNCHANGED <<history, req, lock, expired, gone>>
         /\ tx[q] = "unmade" /\ tx' = [tx EXCEPT ![q] = "unsent"]
         /\ state' = [state EXCEPT ![q] = "prepared"]
         /\ shown' \in {shown, q} /\ review' \in {review, q} /\ run' \in {run, NoRun}
BY DEF Quotes, Fetch, Fresh, Made
-----------------------------------------------------------------------------
\* Every step keeps the types.
LEMMA TypeInductive == TypeOK /\ [Next]_vars => TypeOK'
<1> SUFFICES ASSUME TypeOK, [Next]_vars PROVE TypeOK'
  OBVIOUS
<1> DEFINE Screen ==
             /\ shown' \in Quote \cup {NoQuote} /\ review' \in Quote \cup {NoQuote}
             /\ run' \in Run /\ (run'.stage # "none") = (run'.quote # NoQuote)
             /\ (run'.stage = "wait") = (run'.call # NoReq)
             /\ confirmed' \subseteq Quote /\ lapsed' \subseteq Quote
             /\ shown' # NoQuote => tx'[shown'] # "unmade"
             /\ review' # NoQuote => tx'[review'] # "unmade"
           Requests ==
             /\ req' \in [Req -> Request]
             /\ \A r \in Req : req'[r].pc # "idle" => req'[r].quote # NoQuote
           Stored ==
             /\ expired' \subseteq Quote /\ gone' \subseteq Quote
             /\ state' \in [Quote -> {"none", "prepared", "submitting", "completed"}]
             /\ lock' \in [Quote -> Req \cup {NoReq}]
             /\ tx' \in [Quote -> {"unmade", "unsent", "sent", "landed", "dead"}]
<1>q. ASSUME Screen, Requests, Stored PROVE TypeOK'
  <2>1. UNION {confirmed', lapsed', expired', gone'} \subseteq Quote
    BY <1>q
  <2> QED BY <1>q, <2>1 DEF TypeOK
<1>s. ASSUME UNCHANGED device, \A q \in Quote : tx[q] # "unmade" => tx'[q] # "unmade"
      PROVE  Screen
  BY <1>s, Types DEF device, history
<1>r. ASSUME req' = req PROVE Requests
  BY <1>r, Types
<1>m. ASSUME NEW r \in Req, OneMoves(r) PROVE Requests
  BY <1>m, Types DEF OneMoves, Good
<1>t. ASSUME UNCHANGED <<store, chain>> PROVE Stored
  BY <1>t, Types DEF store, chain
<1>1. CASE Taps
  <2>1. Screen
    BY <1>1, Tapped, Types DEF chain
  <2> QED BY <1>1, <1>q, <1>r, <1>t, <2>1, Tapped
<1>2. CASE \E r \in Req : Sign(r)
  <2>1. PICK r \in Req : Sign(r)
    BY <1>2
  <2>2. Screen
    BY <2>1, Signed, Types, SwapQuoteAssumption DEF chain, history
  <2> QED BY <1>q, <1>m, <1>t, <2>1, <2>2, Signed
<1>3. CASE \E r \in Req : Ends(r)
  <2>1. PICK r \in Req : Ends(r)
    BY <1>3
  <2>2. req[r].pc # "idle" /\ req[r].quote \in Quote /\ UNCHANGED <<state, expired, chain>>
    BY <2>1, Ending DEF TypeOK, Request
  <2>3. Stored
    BY <2>1, <2>2, Ending, Types DEF chain
  <2>4. CASE Go(r, "read") /\ UNCHANGED device
    BY <1>q, <1>m, <1>s, <2>2, <2>3, <2>4, Moved DEF chain
  <2>5. ASSUME NEW out, Answer(r, out) PROVE TypeOK'
    <3>1. Screen
      BY <2>2, <2>5, Heard, Types DEF chain
    <3> QED BY <1>q, <1>m, <2>2, <2>3, <2>5, <3>1, Heard
  <2> QED BY <2>1, <2>4, <2>5, Ending
<1>4. CASE \E r \in Req : Works(r)
  <2>1. PICK r \in Req : Works(r)
    BY <1>4
  <2>2. Screen
    <3>1. \A q \in Quote : tx[q] # "unmade" => tx'[q] # "unmade"
      BY <2>1, Worked
    <3> QED BY <1>s, <2>1, <3>1, Worked
  <2>3. Stored
    BY <2>1, Worked, Types
  <2> QED BY <1>q, <1>m, <2>1, <2>2, <2>3, Worked
<1>5. CASE \E q \in Quote : Quotes(q)
  <2>1. PICK q \in Quote : Quotes(q)
    BY <1>5
  <2>2. Screen
    BY <2>1, Quoted, Types, NoRunType DEF history, NoRun
  <2>3. Stored
    BY <2>1, Quoted, Types
  <2> QED BY <1>q, <1>r, <2>1, <2>2, <2>3, Quoted
<1>6. CASE \E q \in Quote : Expire(q) \/ Evaporate(q) \/ Settle(q) \/ LockExpires(q)
  <2>1. PICK q \in Quote : Expire(q) \/ Evaporate(q) \/ Settle(q) \/ LockExpires(q)
    BY <1>6
  <2>2. /\ UNCHANGED <<device, req>>
        /\ tx' = tx \/ (tx[q] = "sent" /\ \E end \in {"landed", "dead"} : tx' = [tx EXCEPT ![q] = end])
    BY <2>1 DEF Expire, Evaporate, Settle, LockExpires, chain
  <2>3. \A p \in Quote : tx[p] # "unmade" => tx'[p] # "unmade"
    BY <2>2, Types
  <2>4. Stored
    BY <2>1, <2>2, Types DEF Expire, Evaporate, Settle, LockExpires, chain, store
  <2> QED BY <1>q, <1>r, <1>s, <2>2, <2>3, <2>4
<1>7. CASE UNCHANGED vars
  BY <1>7, <1>q, <1>r, <1>s, <1>t DEF vars, chain
<1> QED BY <1>1, <1>2, <1>3, <1>4, <1>5, <1>6, <1>7, Steps
-----------------------------------------------------------------------------
\* What is signed, asked for or sent was reviewed and confirmed.
LEMMA ReviewedInductive ==
  ASSUME TypeOK, Reviewed, [Next]_vars
  PROVE  Reviewed'
<1>t. tx \in [Quote -> {"unmade", "unsent", "sent", "landed", "dead"}] /\ confirmed \subseteq Quote
  BY Types
<1>s. ASSUME UNCHANGED device,
             \A q \in Quote : \/ tx'[q] = tx[q]
                              \/ tx[q] # "unmade" /\ tx'[q] # "unmade" /\ q \in confirmed
                              \/ tx'[q] = "unsent",
             \A r \in Req : \/ req'[r] = req[r]
                            \/ req'[r].pc = "idle"
                            \/ req[r].pc # "idle" /\ req'[r].quote = req[r].quote
      PROVE  Reviewed'
  BY <1>s, <1>t DEF Reviewed, SwappedWasReviewed, device, history
<1>1. CASE Taps
  <2>1. /\ req' = req /\ tx' = tx /\ confirmed \subseteq confirmed'
        /\ confirmed' \subseteq confirmed \cup ({review} \ {NoQuote})
        /\ review # NoQuote => tx[review] # "unmade"
        /\ run'.stage \in {"sign", "wait"} => run' = run \/ run'.quote \in confirmed'
    BY <1>1, Tapped, Types DEF chain
  <2> QED BY <2>1 DEF Reviewed, SwappedWasReviewed
<1>2. CASE \E r \in Req : Sign(r)
  BY <1>2, Signed DEF Reviewed, SwappedWasReviewed, chain, history, OneMoves
<1>3. CASE \E r \in Req : Ends(r)
  <2>1. PICK r \in Req : Ends(r)
    BY <1>3
  <2>2. req[r].pc # "idle" /\ tx' = tx
    BY <2>1, Ending DEF chain
  <2>3. CASE Go(r, "read") /\ UNCHANGED device
    BY <1>s, <2>2, <2>3, Moved DEF OneMoves
  <2>4. ASSUME NEW out, Answer(r, out) PROVE Reviewed'
    BY <2>2, <2>4, Heard DEF Reviewed, SwappedWasReviewed, OneMoves, Idle
  <2> QED BY <2>1, <2>3, <2>4, Ending
<1>4. CASE \E r \in Req : Works(r)
  <2>1. PICK r \in Req : Works(r)
    BY <1>4
  <2>2. /\ req[r].pc # "idle" /\ req[r].quote \in confirmed
        /\ UNCHANGED device
        /\ req'[r].pc = "idle" \/ req'[r].quote = req[r].quote
        /\ \A q \in Req \ {r} : req'[q] = req[q]
    BY <2>1, Worked DEF Reviewed, Idle, OneMoves
  <2>3. \A q \in Quote : tx'[q] = tx[q] \/ (tx[q] = "unsent" /\ tx'[q] = "sent" /\ q = req[r].quote)
    BY <2>1, Worked
  <2> QED BY <1>s, <2>2, <2>3
<1>5. CASE \E q \in Quote : Quotes(q)
  <2>1. PICK q \in Quote : Quotes(q)
    BY <1>5
  <2>2. /\ req' = req /\ confirmed' = confirmed /\ q \notin confirmed
        /\ \A p \in Quote \ {q} : tx'[p] = tx[p]
        /\ tx'[q] = "unsent" /\ run' \in {run, NoRun}
    BY <1>t, <2>1, Quoted DEF history, Reviewed
  <2> QED BY <1>t, <2>2 DEF Reviewed, SwappedWasReviewed, NoRun
<1>6. CASE \E q \in Quote : Expire(q) \/ Evaporate(q) \/ Settle(q) \/ LockExpires(q)
  <2>1. PICK q \in Quote : Expire(q) \/ Evaporate(q) \/ Settle(q) \/ LockExpires(q)
    BY <1>6
  <2>2. UNCHANGED <<device, req>>
    BY <2>1 DEF Expire, Evaporate, Settle, LockExpires
  <2>3. CASE tx' = tx
    BY <1>s, <2>2, <2>3
  <2>4. CASE Settle(q)
    <3>1. q \in confirmed
      BY <2>4 DEF Settle, Reviewed, SwappedWasReviewed
    <3> QED BY <1>s, <1>t, <2>2, <2>4, <3>1 DEF Settle
  <2> QED BY <2>1, <2>3, <2>4 DEF Expire, Evaporate, LockExpires, chain
<1>7. CASE UNCHANGED vars
  BY <1>7, <1>s DEF vars, chain
<1> QED BY <1>1, <1>2, <1>3, <1>4, <1>5, <1>6, <1>7, Steps
-----------------------------------------------------------------------------
\* What was swapped stays so.
LEMMA StaysSwapped ==
  ASSUME TypeOK, [Next]_vars, NEW q \in Quote
  PROVE  /\ q \in Swaps => q \in Swaps'
         /\ tx[q] \notin {"unmade", "unsent"} => tx'[q] \notin {"unmade", "unsent"}
         /\ tx[q] # "unmade" => tx'[q] # "unmade"
<1>0. tx \in [Quote -> {"unmade", "unsent", "sent", "landed", "dead"}]
  BY Types
<1>1. \/ tx'[q] = tx[q]
      \/ tx[q] = "unmade" /\ tx'[q] = "unsent"
      \/ tx[q] = "unsent" /\ tx'[q] = "sent"
      \/ tx[q] = "sent" /\ tx'[q] \in {"landed", "dead"}
  <2>1. CASE Taps \/ \E r \in Req : Sign(r) \/ Ends(r)
    BY <2>1, Tapped, Signed, Ending DEF chain
  <2>2. CASE \E r \in Req : Works(r)
    BY <2>2, Worked
  <2>3. CASE \E p \in Quote : Quotes(p)
    BY <1>0, <2>3, Quoted
  <2>4. CASE \E p \in Quote : Expire(p) \/ Evaporate(p) \/ Settle(p) \/ LockExpires(p)
    BY <1>0, <2>4 DEF Expire, Evaporate, Settle, LockExpires, chain
  <2>5. CASE UNCHANGED vars
    BY <2>5 DEF vars, chain
  <2> QED BY <2>1, <2>2, <2>3, <2>4, <2>5, Steps
<1> QED BY <1>1 DEF Swaps, Swapped

\* A request comes to answer, or to keep, a swap only when it is one.
LEMMA WorkedTrue ==
  ASSUME TypeOK, Reviewed, Verdicts, NEW r \in Req, Works(r)
  PROVE  /\ req'[r].out # "error" => req'[r].pc = "release"
         /\ req'[r].pc = "answer" => tx'[req[r].quote] # "unsent"
         /\ req'[r].pc = "keep" \/ req'[r].out = "done" => req[r].quote \in Swaps
         /\ \A q \in Quote : state'[q] = "completed" => q \in Swaps
<1> DEFINE q == req[r].quote
<1>0. /\ req[r].pc # "idle" /\ q \in Quote /\ tx[q] # "unmade"
      /\ \A p \in Quote \ {q} : state'[p] = state[p]
  BY Worked DEF Reviewed
<1>1. tx \in [Quote -> {"unmade", "unsent", "sent", "landed", "dead"}]
        /\ state \in [Quote -> {"none", "prepared", "submitting", "completed"}]
  BY Types
<1>2. CASE Die(r)
  <2>1. req'[r] = Idle /\ state' = state
    BY <1>2 DEF Die, store, TypeOK
  <2> QED BY <2>1 DEF Idle, Verdicts
<1>3. CASE Throw(r) \/ Rejected(r)
  BY <1>0, <1>3, Moved DEF Throw, Rejected, store, Verdicts
<1>4. CASE Read(r)
  BY <1>0, <1>4, Moved DEF Read, store, Verdicts, At, Working
<1>5. CASE Delete(r) \/ Forget(r)
  BY <1>0, <1>1, <1>5, Moved DEF Delete, Forget, Verdicts
<1>6. CASE Ahead(r)
  <2>1. \/ req'[r].pc = "send" /\ req'[r].out = req[r].out
        \/ req'[r].pc = "release" /\ req'[r].out = "error"
    BY <1>0, <1>6, Moved DEF Ahead, Working
  <2>2. state'[q] = "submitting" /\ req[r].pc = "ahead"
    BY <1>0, <1>1, <1>6 DEF Ahead, At
  <2> QED BY <1>0, <2>1, <2>2 DEF Verdicts
<1>7. CASE Status(r)
  BY <1>0, <1>7, Moved DEF Status, store, Verdicts, Swaps, Swapped, At, Working
<1>8. CASE Send(r)
  <2>1. /\ req'[r].pc = "answer" /\ req'[r].out = req[r].out /\ req[r].pc = "send"
        /\ tx'[q] # "unsent" /\ state' = state
    BY <1>0, <1>1, <1>8, Moved DEF Send, At, store, Working
  <2> QED BY <2>1 DEF Verdicts
<1>9. CASE Refuse(r)
  BY <1>0, <1>9, Moved DEF Refuse, store, Verdicts, At, Working
<1>10. CASE Answered(r)
  <2>1. /\ req'[r].pc = "keep" /\ req'[r].out = req[r].out /\ req[r].pc = "answer"
        /\ q \in Metis \/ tx[q] = "landed"
    BY <1>0, <1>10, Moved DEF Answered, At, Working
  <2>2. q \in Swaps
    BY <1>0, <1>1, <2>1 DEF Verdicts, Swaps, Swapped
  <2>3. state' = state
    BY <1>10 DEF Answered, store
  <2> QED BY <2>1, <2>2, <2>3 DEF Verdicts
<1>11. CASE Keep(r)
  <2>1. q \in Swaps /\ req'[r].pc = "release" /\ req'[r].out = "done"
    BY <1>0, <1>11, Moved DEF Keep, At, Verdicts
  <2> QED BY <1>0, <2>1 DEF Verdicts
<1> QED BY <1>2, <1>3, <1>4, <1>5, <1>6, <1>7, <1>8, <1>9, <1>10, <1>11 DEF Works

\* A good answer is stored and given only of a quote that was swapped.
LEMMA VerdictsInductive ==
  ASSUME TypeOK, Reviewed, Verdicts, [Next]_vars
  PROVE  Verdicts'
<1>q. \A r \in Req : req[r].pc # "idle" => req[r].quote \in Quote
  BY DEF TypeOK, Request
<1>k. ASSUME NEW r \in Req, req'[r] = req[r]
      PROVE  /\ req'[r].out # "error" => req'[r].pc = "release"
             /\ req'[r].pc = "answer" => tx'[req'[r].quote] # "unsent"
             /\ req'[r].pc = "keep" \/ req'[r].out = "done" => req'[r].quote \in Swaps'
  <2>1. req[r].pc = "answer" => tx'[req[r].quote] # "unsent"
    BY <1>q, StaysSwapped DEF Verdicts, Reviewed
  <2>2. req[r].pc = "keep" \/ req[r].out = "done" => req[r].quote \in Swaps'
    BY StaysSwapped DEF Verdicts, Swaps
  <2> QED BY <1>k, <2>1, <2>2 DEF Verdicts
<1>s. ASSUME \A q \in Quote : state'[q] = "completed" => q \in Swaps,
             \A r \in Req : \/ req'[r] = req[r]
                            \/ req'[r].out = "error" /\ req'[r].pc \notin {"answer", "keep"}
      PROVE  Verdicts'
  <2>1. \A q \in Quote : state'[q] = "completed" => q \in Swaps'
    BY <1>s, StaysSwapped
  <2> QED BY <1>k, <1>s, <2>1 DEF Verdicts
<1>1. CASE Taps
  BY <1>1, <1>s, Tapped DEF store, Verdicts
<1>2. CASE \E r \in Req : Sign(r)
  BY <1>2, <1>s, Signed DEF store, OneMoves, Verdicts
<1>3. CASE \E r \in Req : Ends(r)
  <2>1. PICK r \in Req : Ends(r)
    BY <1>3
  <2>2. req[r].pc # "idle" /\ state' = state
    BY <2>1, Ending
  <2>3. CASE Go(r, "read") /\ req[r].pc = "lock"
    <3>1. req'[r].pc = "read" /\ req'[r].out = "error" /\ \A p \in Req \ {r} : req'[p] = req[p]
      BY <2>2, <2>3, Moved DEF OneMoves, Verdicts
    <3> QED BY <1>s, <2>2, <3>1 DEF Verdicts
  <2>4. ASSUME NEW out, Answer(r, out) PROVE Verdicts'
    BY <1>s, <2>2, <2>4, Heard DEF OneMoves, Idle, Verdicts
  <2> QED BY <2>1, <2>3, <2>4, Ending
<1>4. CASE \E r \in Req : Works(r)
  <2>1. PICK r \in Req : Works(r)
    BY <1>4
  <2>2. \A q \in Req \ {r} : req'[q] = req[q]
    BY <2>1, Worked DEF OneMoves
  <2>3. \A q \in Quote : state'[q] = "completed" => q \in Swaps'
    BY <2>1, WorkedTrue, StaysSwapped
  <2>4. /\ req'[r].out # "error" => req'[r].pc = "release"
        /\ req'[r].pc = "answer" => tx'[req'[r].quote] # "unsent"
        /\ req'[r].pc = "keep" \/ req'[r].out = "done" => req'[r].quote \in Swaps'
    <3>1. CASE req'[r] = Idle
      BY <3>1 DEF Idle
    <3>2. CASE req'[r].quote = req[r].quote
      <4>1. req[r].quote \in Swaps => req[r].quote \in Swaps'
        BY StaysSwapped DEF Swaps
      <4> QED BY <2>1, <3>2, <4>1, WorkedTrue
    <3> QED BY <2>1, <3>1, <3>2, Worked
  <2> QED BY <1>k, <2>2, <2>3, <2>4 DEF Verdicts
<1>5. CASE \E q \in Quote : Quotes(q)
  <2>1. PICK q \in Quote : Quotes(q)
    BY <1>5
  <2>2. req' = req /\ \A p \in Quote : state'[p] = "completed" => state[p] = "completed"
    BY <2>1, Quoted, Types
  <2> QED BY <1>s, <2>2 DEF Verdicts
<1>6. CASE \E q \in Quote : Expire(q) \/ Evaporate(q) \/ Settle(q) \/ LockExpires(q)
  <2>1. PICK q \in Quote : Expire(q) \/ Evaporate(q) \/ Settle(q) \/ LockExpires(q)
    BY <1>6
  <2>2. req' = req /\ \A p \in Quote : state'[p] = "completed" => state[p] = "completed"
    BY <2>1, Types DEF Expire, Evaporate, Settle, LockExpires, store
  <2> QED BY <1>s, <2>2 DEF Verdicts
<1>7. CASE UNCHANGED vars
  BY <1>7, <1>s DEF vars, store, Verdicts
<1> QED BY <1>1, <1>2, <1>3, <1>4, <1>5, <1>6, <1>7, Steps
-----------------------------------------------------------------------------
\* A lock that nobody outlives is taken by one and released by its holder.
LEMMA LockedInductive ==
  ASSUME ~Outlives, TypeOK, Locked, [Next]_vars
  PROVE  Locked'
<1>q. /\ \A r \in Req : InSection(r) => lock[req[r].quote] = r /\ req[r].quote \in Quote
      /\ lock \in [Quote -> Req \cup {NoReq}]
  BY DEF Locked, InSection, TypeOK, Request
<1>s. ASSUME lock' = lock,
             \A r \in Req : \/ req'[r] = req[r]
                            \/ req'[r].pc \in {"idle", "lock"}
                            \/ InSection(r) /\ req'[r].quote = req[r].quote
      PROVE  Locked'
  BY <1>s, <1>q DEF Locked, InSection
<1>1. CASE Taps
  BY <1>1, <1>s, Tapped DEF store
<1>2. CASE \E r \in Req : Sign(r)
  BY <1>2, <1>s, Signed DEF store, OneMoves
<1>3. CASE \E r \in Req : Ends(r)
  <2>1. PICK r \in Req : Ends(r)
    BY <1>3
  <2>2. req[r].pc # "idle" /\ req[r].quote \in Quote
    BY <2>1, Ending DEF TypeOK, Request
  <2>3. CASE lock' = [lock EXCEPT ![req[r].quote] = r] /\ lock[req[r].quote] = NoReq
    <3>1. \A p \in Req : InSection(p) => req[p].quote # req[r].quote
      BY <1>q, <2>3, SwapQuoteAssumption
    <3>2. \A p \in Req \ {r} : req'[p] = req[p]
      BY <2>1, <2>2, Ending, Moved, Heard DEF OneMoves
    <3>3. req'[r].pc = "idle" \/ req'[r].quote = req[r].quote
      BY <2>1, <2>2, Ending, Moved, Heard DEF Idle
    <3> QED BY <1>q, <2>2, <2>3, <3>1, <3>2, <3>3 DEF Locked, InSection
  <2>4. ASSUME NEW out, Answer(r, out), lock' = lock PROVE Locked'
    BY <1>s, <2>2, <2>4, Heard DEF OneMoves, Idle
  <2>5. ASSUME NEW out, Answer(r, out), lock[req[r].quote] = r,
               lock' = [lock EXCEPT ![req[r].quote] = NoReq]
        PROVE  Locked'
    <3>1. \A p \in Req \ {r} : req'[p] = req[p] /\ (InSection(p) => req[p].quote # req[r].quote)
      BY <1>q, <2>2, <2>5, Heard DEF OneMoves
    <3>2. req'[r].pc = "idle"
      BY <2>2, <2>5, Heard DEF Idle
    <3> QED BY <1>q, <2>5, <3>1, <3>2 DEF Locked, InSection
  <2> QED BY <2>1, <2>3, <2>4, <2>5, Ending
<1>4. CASE \E r \in Req : Works(r)
  <2>1. PICK r \in Req : Works(r)
    BY <1>4
  <2>2. InSection(r) \/ req'[r].pc = "idle"
    BY <2>1 DEF Works, Throw, Die, Read, Delete, Status, Ahead, Send, Refuse, Forget, Answered,
                Rejected, Keep, At, InSection, TypeOK, Idle
  <2> QED BY <1>s, <2>1, <2>2, Worked DEF OneMoves, Idle
<1>5. CASE \E q \in Quote : Quotes(q)
  BY <1>5, <1>s, Quoted
<1>6. CASE \E q \in Quote : Expire(q) \/ Evaporate(q) \/ Settle(q) \/ LockExpires(q)
  <2>1. PICK q \in Quote : Expire(q) \/ Evaporate(q) \/ Settle(q) \/ LockExpires(q)
    BY <1>6
  <2>2. CASE Expire(q) \/ Evaporate(q) \/ Settle(q)
    BY <1>s, <2>2 DEF Expire, Evaporate, Settle, store
  <2>3. CASE LockExpires(q)
    <3>1. /\ req' = req /\ lock' = [lock EXCEPT ![q] = NoReq]
          /\ ~(InSection(lock[q]) /\ req[lock[q]].quote = q)
      BY <2>3 DEF LockExpires
    <3> QED BY <1>q, <3>1 DEF Locked, InSection
  <2> QED BY <2>1, <2>2, <2>3
<1>7. CASE UNCHANGED vars
  BY <1>7, <1>s DEF vars, store
<1> QED BY <1>1, <1>2, <1>3, <1>4, <1>5, <1>6, <1>7, Steps

\* Nobody else is in the section of the quote that a request works on.
LEMMA Alone ==
  ASSUME TypeOK, Locked, NEW r \in Req, Works(r)
  PROVE  \A p \in Req \ {r} : req'[p] = req[p] /\
           (InSection(p) /\ InSection(r) => req[p].quote # req[r].quote)
BY Worked DEF Locked, OneMoves
-----------------------------------------------------------------------------
\* The part of Order about a request, and about a quote.
Agrees(r) ==
  LET q == req[r].quote
  IN  /\ req[r].pc = "delete" =>
           state[q] \in {"prepared", "none"} /\ (tx[q] = "unsent" \/ q \in gone)
      /\ req[r].pc = "ahead" => state[q] # "completed"
      /\ req[r].pc \in {"status", "send", "answer", "refuse"} => state[q] = "submitting"
      /\ req[r].pc = "refuse" => q \in gone

Known(q) ==
  tx[q] \in {"sent", "landed", "dead"} => state[q] \in {"submitting", "completed"} \/ q \in gone

\* Order speaks of every quote and of every request by itself.
LEMMA Parts == Order <=> (\A q \in Quote : Known(q)) /\ (\A r \in Req : Agrees(r))
BY DEF Order, Known, Agrees

\* What the work of a request does to its quote's status.
LEMMA WorkedInOrder ==
  ASSUME TypeOK, Reviewed, Verdicts, Order, NEW r \in Req, Works(r), NEW q, q = req[r].quote
  PROVE  /\ q \in Quote /\ Known(q)'
         /\ req'[r].pc = "delete" =>
              state'[q] \in {"prepared", "none"} /\ (tx'[q] = "unsent" \/ q \in gone')
         /\ req'[r].pc = "ahead" => state'[q] # "completed"
         /\ req'[r].pc \in {"status", "send", "answer", "refuse"} => state'[q] = "submitting"
         /\ req'[r].pc = "refuse" => q \in gone'
         /\ state[q] = "completed" => state'[q] = "completed"
         /\ req'[r].out = "lapsed" => state'[q] = "none" /\ (tx'[q] = "unsent" \/ q \in gone')
<1>0. /\ req[r].pc # "idle" /\ q \in Quote /\ tx[q] # "unmade"
      /\ req[r].out # "error" => req[r].pc = "release"
  BY Worked DEF Reviewed, Verdicts
<1>1. tx \in [Quote -> {"unmade", "unsent", "sent", "landed", "dead"}]
        /\ state \in [Quote -> {"none", "prepared", "submitting", "completed"}]
  BY Types
<1>2. Known(q) /\ Agrees(r)
  BY <1>0, Parts
<1> USE <1>0
<1>3. CASE Die(r)
  <2>1. req'[r] = Idle /\ UNCHANGED <<state, chain>>
    BY <1>3 DEF Die, store, TypeOK
  <2> QED BY <1>2, <2>1 DEF Idle, Known, chain
<1>4. CASE Throw(r) \/ Rejected(r)
  <2>1. req'[r].pc = "release" /\ req'[r].out # "lapsed" /\ UNCHANGED <<state, chain>>
    BY <1>4, Moved DEF Throw, Rejected, store
  <2> QED BY <1>2, <2>1 DEF Known, chain
<1>5. CASE Read(r)
  <2>1. /\ UNCHANGED <<state, chain>>
        /\ \/ state[q] = "none" /\ req'[r].pc = "release" /\ req'[r].out = "lapsed"
           \/ state[q] = "completed" /\ req'[r].pc = "release" /\ req'[r].out = "done"
           \/ state[q] = "prepared" /\ req'[r].pc \in {"delete", "ahead"} /\ req'[r].out = req[r].out
           \/ state[q] = "submitting" /\ req'[r].pc = "status" /\ req'[r].out = req[r].out
        /\ req[r].out = "error"
    BY <1>5, Moved DEF Read, store, At, Working
  <2> QED BY <1>1, <1>2, <2>1 DEF Known, chain
<1>6. CASE Delete(r) \/ Forget(r)
  <2>1. /\ UNCHANGED chain /\ state'[q] = "none" /\ req'[r].pc = "release"
        /\ req[r].pc \in {"delete", "refuse"}
    BY <1>1, <1>6, Moved DEF Delete, Forget, At
  <2> QED BY <1>2, <2>1 DEF Known, Agrees, chain
<1>7. CASE Ahead(r)
  <2>1. /\ UNCHANGED chain /\ state'[q] = "submitting" /\ req[r].pc = "ahead"
        /\ req'[r].pc \in {"send", "release"} /\ req'[r].out = "error"
    BY <1>1, <1>7, Moved DEF Ahead, At, Working
  <2> QED BY <1>2, <2>1 DEF Known, Agrees, chain
<1>8. CASE Status(r)
  <2>1. /\ UNCHANGED <<state, chain>> /\ req[r].pc = "status"
        /\ req'[r].pc \in {"keep", "ahead"} /\ req'[r].out = "error"
    BY <1>8, Moved DEF Status, At, store, Working
  <2> QED BY <1>2, <2>1 DEF Known, Agrees, chain
<1>9. CASE Send(r)
  <2>1. /\ UNCHANGED <<state, gone>> /\ req[r].pc = "send"
        /\ req'[r].pc = "answer" /\ req'[r].out = "error"
    BY <1>9, Moved DEF Send, At, store, Working
  <2> QED BY <1>2, <2>1 DEF Known, Agrees
<1>10. CASE Refuse(r)
  <2>1. /\ UNCHANGED <<state, tx>> /\ req[r].pc = "send" /\ q \in gone'
        /\ req'[r].pc = "refuse" /\ req'[r].out = "error"
    BY <1>10, Moved DEF Refuse, At, store, Working
  <2> QED BY <1>2, <2>1 DEF Known, Agrees
<1>11. CASE Answered(r)
  <2>1. /\ UNCHANGED <<state, chain>> /\ req'[r].pc = "keep" /\ req'[r].out = "error"
    BY <1>11, Moved DEF Answered, At, store, Working
  <2> QED BY <1>2, <2>1 DEF Known, chain
<1>12. CASE Keep(r)
  <2>1. /\ UNCHANGED chain /\ state'[q] \in {state[q], "completed"}
        /\ req'[r].pc = "release" /\ req'[r].out = "done"
    BY <1>1, <1>12, Moved DEF Keep, At
  <2> QED BY <1>2, <2>1 DEF Known, chain
<1> QED BY <1>3, <1>4, <1>5, <1>6, <1>7, <1>8, <1>9, <1>10, <1>11, <1>12 DEF Works

\* Whoever changes the status of a quote is in its section, or is the store
\* that drops a prepared one, or made it.
LEMMA OrderInductive ==
  ASSUME TypeOK, Reviewed, Verdicts, Locked, Order, [Next]_vars
  PROVE  Order'
<1>0. tx \in [Quote -> {"unmade", "unsent", "sent", "landed", "dead"}]
        /\ state \in [Quote -> {"none", "prepared", "submitting", "completed"}]
  BY Types
<1>q. \A r \in Req : req[r].pc # "idle" => req[r].quote \in Quote /\ tx[req[r].quote] # "unmade"
  BY DEF TypeOK, Request, Reviewed
<1>i. \A r \in Req : req[r].pc \in Working => InSection(r)
  BY DEF Working, InSection
<1>s. ASSUME UNCHANGED <<state, chain>>,
             \A r \in Req : req'[r] = req[r] \/ req'[r].pc \notin Working
      PROVE  Order'
  BY <1>s DEF Order, chain, Working
<1>1. CASE Taps
  BY <1>1, <1>s, Tapped DEF store
<1>2. CASE \E r \in Req : Sign(r)
  BY <1>2, <1>s, Signed DEF store, OneMoves, Working
<1>3. CASE \E r \in Req : Ends(r)
  <2>1. PICK r \in Req : Ends(r)
    BY <1>3
  <2>2. req[r].pc # "idle" /\ UNCHANGED <<state, chain>>
    BY <2>1, Ending
  <2>3. CASE Go(r, "read")
    BY <1>s, <2>2, <2>3, Moved DEF OneMoves, Working
  <2>4. ASSUME NEW out, Answer(r, out) PROVE Order'
    BY <1>s, <2>2, <2>4, Heard DEF OneMoves, Idle, Working
  <2> QED BY <2>1, <2>3, <2>4, Ending
<1>4. CASE \E r \in Req : Works(r)
  <2>1. PICK r \in Req : Works(r)
    BY <1>4
  <2> DEFINE q == req[r].quote
  <2>2. /\ \A p \in Quote \ {q} : state'[p] = state[p] /\ tx'[p] = tx[p]
        /\ gone \subseteq gone'
    BY <2>1, Worked
  <2>3. ASSUME NEW p \in Quote PROVE Known(p)'
    <3>1. CASE p = q
      BY <2>1, <3>1, WorkedInOrder
    <3>2. CASE p # q
      BY <2>2, <3>2 DEF Known, Order
    <3> QED BY <3>1, <3>2
  <2>4. Agrees(r)'
    <3>1. req'[r] = Idle \/ req'[r].quote = q
      BY <2>1, Worked
    <3>2. CASE req'[r] = Idle
      BY <3>2 DEF Agrees, Idle
    <3>3. CASE req'[r].quote = q
      BY <2>1, <3>3, WorkedInOrder DEF Agrees
    <3> QED BY <3>1, <3>2, <3>3
  <2>5. ASSUME NEW p \in Req \ {r} PROVE Agrees(p)'
    <3>1. req'[p] = req[p] /\ (InSection(p) /\ InSection(r) => req[p].quote # q)
      BY <2>1, Alone
    <3>2. CASE req[p].pc \in Working /\ req[p].quote # q
      BY <1>q, <2>2, <3>1, <3>2 DEF Agrees, Order, Working
    <3>3. CASE ~InSection(r)
      <4>1. UNCHANGED <<state, chain>>
        BY <2>1, <3>3 DEF Works, Throw, Die, Read, Delete, Status, Ahead, Send, Refuse, Forget,
                          Answered, Rejected, Keep, At, InSection, store
      <4> QED BY <3>1, <4>1, Parts DEF Agrees, chain
    <3>4. CASE req[p].pc \notin Working
      BY <3>1, <3>4 DEF Agrees, Working
    <3> QED BY <1>i, <3>1, <3>2, <3>3, <3>4
  <2>6. \A p \in Req : Agrees(p)'
    BY <2>4, <2>5
  <2> QED BY <2>3, <2>6 DEF Order, Known, Agrees
<1>5. CASE \E q \in Quote : Quotes(q)
  <2>1. PICK q \in Quote : Quotes(q)
    BY <1>5
  <2>2. /\ req' = req /\ gone' = gone /\ tx[q] = "unmade" /\ tx'[q] = "unsent"
        /\ \A p \in Quote \ {q} : state'[p] = state[p] /\ tx'[p] = tx[p]
    BY <1>0, <2>1, Quoted
  <2>3. \A r \in Req : req[r].pc # "idle" => req[r].quote \in Quote \ {q}
    BY <1>q, <2>2
  <2> QED BY <2>2, <2>3 DEF Order
<1>6. CASE \E q \in Quote : Expire(q) \/ Evaporate(q) \/ Settle(q) \/ LockExpires(q)
  <2>1. PICK q \in Quote : Expire(q) \/ Evaporate(q) \/ Settle(q) \/ LockExpires(q)
    BY <1>6
  <2>2. CASE Expire(q) \/ LockExpires(q)
    BY <1>s, <2>2 DEF Expire, LockExpires
  <2>3. CASE Evaporate(q)
    <3>1. /\ UNCHANGED <<req, chain>> /\ state[q] = "prepared" /\ state'[q] = "none"
          /\ \A p \in Quote \ {q} : state'[p] = state[p]
      BY <1>0, <2>3 DEF Evaporate
    <3> QED BY <1>q, <3>1 DEF Order, chain
  <2>4. CASE Settle(q)
    <3>1. /\ UNCHANGED <<req, state, gone>> /\ tx[q] = "sent"
          /\ \A p \in Quote \ {q} : tx'[p] = tx[p]
      BY <1>0, <2>4 DEF Settle, store
    <3> QED BY <1>q, <3>1 DEF Order
  <2> QED BY <2>1, <2>2, <2>3, <2>4
<1>7. CASE UNCHANGED vars
  BY <1>7, <1>s DEF vars, store
<1> QED BY <1>1, <1>2, <1>3, <1>4, <1>5, <1>6, <1>7, Steps
-----------------------------------------------------------------------------
\* Of a quote that is over nothing comes back.
LEMMA StaysOver ==
  ASSUME TypeOK, [Next]_vars, NEW q \in Over
  PROVE  q \in Over'
<1>d. /\ q \in Quote /\ tx[q] = "unsent" /\ state[q] = "none"
      /\ \A r \in Req : req[r].pc \in Working => req[r].quote # q
  BY DEF Over
<1>s. ASSUME state'[q] = state[q], tx'[q] = tx[q],
             \A r \in Req : req'[r] = req[r] \/ req'[r].pc \notin Working \/ req'[r].quote # q
      PROVE  q \in Over'
  BY <1>d, <1>s DEF Over
<1>1. CASE Taps
  BY <1>1, <1>s, Tapped DEF store, chain
<1>2. CASE \E r \in Req : Sign(r)
  BY <1>2, <1>s, Signed DEF store, chain, OneMoves, Working
<1>3. CASE \E r \in Req : Ends(r)
  <2>1. PICK r \in Req : Ends(r)
    BY <1>3
  <2>2. req[r].pc # "idle" /\ UNCHANGED <<state, tx>>
    BY <2>1, Ending DEF chain
  <2>3. CASE Go(r, "read")
    BY <1>s, <2>2, <2>3, Moved DEF OneMoves, Working
  <2>4. ASSUME NEW out, Answer(r, out) PROVE q \in Over'
    BY <1>s, <2>2, <2>4, Heard DEF OneMoves, Idle, Working
  <2> QED BY <2>1, <2>3, <2>4, Ending
<1>4. CASE \E r \in Req : Works(r)
  <2>1. PICK r \in Req : Works(r)
    BY <1>4
  <2>2. \A p \in Req \ {r} : req'[p] = req[p]
    BY <2>1, Alone, Worked DEF OneMoves
  <2>3. CASE req[r].quote # q
    <3>1. req'[r].pc = "idle" \/ req'[r].quote # q
      BY <2>1, <2>3, Worked DEF Idle
    <3>2. state'[q] = state[q] /\ tx'[q] = tx[q]
      BY <1>d, <2>1, <2>3, Worked
    <3> QED BY <1>s, <2>2, <3>1, <3>2 DEF Working
  <2>4. CASE req[r].quote = q
    <3>1. Read(r) \/ Throw(r) \/ Die(r)
      BY <1>d, <2>1, <2>4 DEF Works, Delete, Status, Ahead, Send, Refuse, Forget, Answered,
                              Rejected, Keep, At, Working
    <3>2. UNCHANGED <<state, tx>>
      BY <3>1 DEF Read, Throw, Die, store, chain
    <3>3. req'[r].pc \in {"release", "idle"}
      <4>1. req[r].pc # "idle"
        BY <2>1, Worked
      <4>2. CASE Read(r)
        BY <1>d, <2>4, <4>1, <4>2, Moved DEF Read
      <4>3. CASE Throw(r)
        BY <4>1, <4>3, Moved DEF Throw
      <4>4. CASE Die(r)
        BY <4>4 DEF Die, Idle, TypeOK
      <4> QED BY <3>1, <4>2, <4>3, <4>4
    <3> QED BY <1>s, <2>2, <3>2, <3>3 DEF Working
  <2> QED BY <2>3, <2>4
<1>5. CASE \E p \in Quote : Quotes(p)
  <2>1. PICK p \in Quote : Quotes(p)
    BY <1>5
  <2>2. req' = req /\ state'[q] = state[q] /\ tx'[q] = tx[q]
    BY <1>d, <2>1, Quoted, Types
  <2> QED BY <1>s, <2>2
<1>6. CASE \E p \in Quote : Expire(p) \/ Evaporate(p) \/ Settle(p) \/ LockExpires(p)
  <2>1. PICK p \in Quote : Expire(p) \/ Evaporate(p) \/ Settle(p) \/ LockExpires(p)
    BY <1>6
  <2>2. req' = req /\ state'[q] = state[q] /\ tx'[q] = tx[q]
    BY <1>d, <2>1, Types DEF Expire, Evaporate, Settle, LockExpires, store, chain
  <2> QED BY <1>s, <2>2
<1>7. CASE UNCHANGED vars
  BY <1>7, <1>s DEF vars, store, chain
<1> QED BY <1>1, <1>2, <1>3, <1>4, <1>5, <1>6, <1>7, Steps

\* Jupiter does not take back that it gave a quote up.
LEMMA StaysGone ==
  ASSUME TypeOK, [Next]_vars
  PROVE  gone \subseteq gone'
<1>1. CASE \E r \in Req : Works(r)
  BY <1>1, Worked
<1>2. CASE ~\E r \in Req : Works(r)
  BY <1>2, Steps, Tapped, Signed, Ending, Quoted
  DEF Expire, Evaporate, Settle, LockExpires, chain, vars
<1> QED BY <1>1, <1>2

\* A request comes to answer "expired" only of a quote that is over.
LEMMA WorkedLapsing ==
  ASSUME TypeOK, Reviewed, Verdicts, Locked, Order, NEW r \in Req, Works(r),
         req'[r].out = "lapsed"
  PROVE  req'[r].quote \in Over' \cup gone'
<1> DEFINE q == req[r].quote
<1>1. /\ q \in Quote /\ req'[r].quote = q /\ req'[r].pc \notin Working
      /\ state'[q] = "none" /\ (tx'[q] = "unsent" \/ q \in gone')
  <2>1. req'[r].quote = q
    BY Worked DEF Idle
  <2>2. req'[r].pc = "release"
    BY WorkedTrue
  <2> QED BY <2>1, <2>2, WorkedInOrder DEF Working
<1>2. InSection(r)
  <2>1. ~Die(r)
    BY DEF Die, Idle, TypeOK
  <2> QED BY <2>1 DEF Works, Throw, Read, Delete, Status, Ahead, Send, Refuse, Forget, Answered,
                      Rejected, Keep, At, InSection
<1>3. \A p \in Req \ {r} : req'[p].pc \in Working => req'[p].quote # q
  <2>1. \A p \in Req \ {r} : req'[p] = req[p] /\ (InSection(p) => req[p].quote # q)
    BY <1>2, Alone
  <2> QED BY <2>1 DEF InSection, Working
<1> QED BY <1>1, <1>3 DEF Over

\* A quote that was reported as lapsed is over, or Jupiter gave it up.
LEMMA LapsingInductive ==
  ASSUME TypeOK, Reviewed, Verdicts, Locked, Order, Lapsing, [Next]_vars
  PROVE  Lapsing'
<1>1. Over \cup gone \subseteq Over' \cup gone'
  BY StaysOver, StaysGone
<1>s. ASSUME lapsed' \subseteq lapsed \cup Over' \cup gone',
             \A r \in Req : \/ req'[r] = req[r] \/ req'[r].out # "lapsed"
                            \/ req'[r].quote \in Over' \cup gone'
      PROVE  Lapsing'
  BY <1>1, <1>s DEF Lapsing
<1>2. CASE Taps
  BY <1>2, <1>s, Tapped
<1>3. CASE \E r \in Req : Sign(r)
  BY <1>3, <1>s, Signed DEF history, OneMoves
<1>4. CASE \E r \in Req : Ends(r)
  <2>1. PICK r \in Req : Ends(r)
    BY <1>4
  <2>2. req[r].pc # "idle"
    BY <2>1, Ending
  <2>3. CASE Go(r, "read") /\ UNCHANGED device /\ req[r].pc = "lock"
    <3>1. req'[r].out # "lapsed" /\ \A p \in Req \ {r} : req'[p] = req[p]
      BY <2>2, <2>3, Moved DEF OneMoves, Verdicts
    <3> QED BY <1>s, <2>3, <3>1 DEF device, history
  <2>4. ASSUME NEW out, Answer(r, out), out # "lapsed" \/ out = req[r].out PROVE Lapsing'
    <3>1. lapsed' \subseteq lapsed \cup (IF out = "lapsed" THEN {req[r].quote} ELSE {})
      BY <2>2, <2>4, Heard
    <3>2. out = "lapsed" => req[r].quote \in Over' \cup gone'
      BY <1>1, <2>4 DEF Lapsing
    <3>3. req'[r].out # "lapsed" /\ \A p \in Req \ {r} : req'[p] = req[p]
      BY <2>2, <2>4, Heard DEF OneMoves, Idle
    <3> QED BY <1>s, <3>1, <3>2, <3>3
  <2> QED BY <2>1, <2>3, <2>4, Ending
<1>5. CASE \E r \in Req : Works(r)
  <2>1. PICK r \in Req : Works(r)
    BY <1>5
  <2>2. lapsed' = lapsed /\ \A p \in Req \ {r} : req'[p] = req[p]
    BY <2>1, Worked DEF device, history, OneMoves
  <2> QED BY <1>s, <2>1, <2>2, WorkedLapsing
<1>6. CASE \E q \in Quote : Quotes(q)
  BY <1>6, <1>s, Quoted DEF history
<1>7. CASE \E q \in Quote : Expire(q) \/ Evaporate(q) \/ Settle(q) \/ LockExpires(q)
  BY <1>7, <1>s DEF Expire, Evaporate, Settle, LockExpires, device, history
<1>8. CASE UNCHANGED vars
  BY <1>8, <1>s DEF vars, device, history
<1> QED BY <1>2, <1>3, <1>4, <1>5, <1>6, <1>7, <1>8, Steps
-----------------------------------------------------------------------------
\* At first nothing is quoted, confirmed or sent.
LEMMA InitIInv == Init => IInv
<1> SUFFICES ASSUME Init PROVE IInv
  OBVIOUS
<1>1. TypeOK
  BY IdleType, NoRunType, Types DEF Init, Idle, NoRun
<1>2. Reviewed /\ Verdicts
  BY DEF Init, Reviewed, SwappedWasReviewed, Verdicts, Idle, NoRun
<1>3. Locked /\ Order /\ Lapsing
  BY DEF Init, Locked, InSection, Order, Lapsing, Idle
<1> QED BY <1>1, <1>2, <1>3 DEF IInv

\* Every step keeps all parts of the invariant.
LEMMA IInvInductive == IInv /\ [Next]_vars => IInv'
<1> SUFFICES ASSUME IInv, [Next]_vars PROVE IInv'
  OBVIOUS
<1>1. TypeOK' /\ Reviewed' /\ Verdicts'
  BY TypeInductive, ReviewedInductive, VerdictsInductive DEF IInv
<1>2. CASE Outlives
  BY <1>1, <1>2 DEF IInv
<1>3. CASE ~Outlives
  BY <1>1, <1>3, LockedInductive, OrderInductive, LapsingInductive DEF IInv
<1> QED BY <1>2, <1>3

\* A stored result outlasts every step.
LEMMA CompletedStep ==
  ASSUME TypeOK, Reviewed, Verdicts, Order, [Next]_vars,
         NEW q \in Quote, state[q] = "completed"
  PROVE  state'[q] = "completed"
<1>0. tx[q] # "unmade"
  BY DEF Verdicts, Swaps, Swapped
<1>1. CASE \E r \in Req : Works(r)
  <2>1. PICK r \in Req : Works(r)
    BY <1>1
  <2>2. CASE q = req[r].quote
    BY <2>1, <2>2, WorkedInOrder
  <2> QED BY <2>1, <2>2, Worked
<1>2. CASE \E p \in Quote : Quotes(p)
  BY <1>0, <1>2, Quoted, Types
<1>3. CASE Taps \/ \E r \in Req : Sign(r) \/ Ends(r)
  BY <1>3, Tapped, Signed, Ending DEF store
<1>4. CASE \E p \in Quote : Expire(p) \/ Evaporate(p) \/ Settle(p) \/ LockExpires(p)
  BY <1>4, Types DEF Expire, Evaporate, Settle, LockExpires, store
<1>5. CASE UNCHANGED vars
  BY <1>5 DEF vars, store
<1> QED BY <1>1, <1>2, <1>3, <1>4, <1>5, Steps

(***************************************************************************)
(* The inductive invariant holds throughout, for any number of quotes and  *)
(* of requests that execute them.                                          *)
(***************************************************************************)
THEOREM Invariance == Spec => []IInv
BY InitIInv, IInvInductive, PTL DEF Spec

(***************************************************************************)
(* The mutation, the stored states and the requests have their types.      *)
(***************************************************************************)
THEOREM TypeCorrect == Spec => []TypeOK
<1>1. IInv => TypeOK
  BY DEF IInv
<1> QED BY <1>1, Invariance, PTL

(***************************************************************************)
(* Locks or not, only what was reviewed and confirmed is swapped.          *)
(***************************************************************************)
THEOREM SwappedReviewed == Spec => []SwappedWasReviewed
<1>1. IInv => SwappedWasReviewed
  BY DEF IInv, Reviewed
<1> QED BY <1>1, Invariance, PTL

(***************************************************************************)
(* Locks or not, "done" is answered, and kept, only of a swap.             *)
(***************************************************************************)
THEOREM DoneSwapped == Spec => []DoneIsSwapped
<1>1. IInv => DoneIsSwapped
  BY DEF IInv, Verdicts, DoneIsSwapped, Swaps
<1> QED BY <1>1, Invariance, PTL

(***************************************************************************)
(* As long as no request outlives its lock, the device is told that a      *)
(* quote expired only if it was never sent, or Jupiter gave it up.         *)
(***************************************************************************)
THEOREM Lapsed ==
  ASSUME ~Outlives
  PROVE  Spec => []LapsedIsUnsent
<1>1. IInv => LapsedIsUnsent
  BY DEF IInv, Lapsing, Over, LapsedIsUnsent
<1> QED BY <1>1, Invariance, PTL

(***************************************************************************)
(* Under the same condition no step takes a stored result back.            *)
(***************************************************************************)
THEOREM CompletedFinal ==
  ASSUME ~Outlives
  PROVE  Spec => CompletedStays
<1>1. IInv /\ [Next]_vars =>
        [\A q \in Quote : state[q] = "completed" => state'[q] = "completed"]_vars
  BY CompletedStep DEF IInv
<1> QED BY <1>1, Invariance, PTL DEF Spec, CompletedStays
-----------------------------------------------------------------------------
(***************************************************************************)
(* The refinement of Submission.                                           *)
(***************************************************************************)
\* A step that leaves fates, results and reports alone is no step of Submission.
LEMMA NothingSwapped ==
  ASSUME confirmed' = confirmed,
         \A q \in Quote :
           /\ tx'[q] = tx[q] \/ (tx[q] = "unmade" /\ tx'[q] = "unsent")
           /\ state'[q] = "completed" <=> state[q] = "completed"
           /\ q \in lapsed' \ gone' <=> q \in lapsed \ gone
  PROVE  UNCHANGED Swapping!vars
<1>1. \A q \in Quote : Fate(q)' = Fate(q)
  BY DEF Fate
<1>2. ASSUME NEW q \in Quote PROVE Told(q)' = Told(q)
  BY DEF Told
<1> QED BY <1>1, <1>2 DEF Swapping!vars

\* Of a quote that was reported as expired and not given up, nothing is under way.
LEMMA NotLapsed ==
  ASSUME Lapsing, NEW r \in Req, req[r].pc \in Working
  PROVE  req[r].quote \notin lapsed \ gone
BY DEF Lapsing, Over

\* A confirmation asks for the quote under review.
LEMMA TapSwaps ==
  ASSUME TypeOK, Taps
  PROVE  [Swapping!Next]_(Swapping!vars)
<1>1. /\ UNCHANGED <<lapsed, state, gone, tx>> /\ confirmed \subseteq confirmed'
      /\ confirmed' \subseteq confirmed \cup ({review} \ {NoQuote})
  BY Tapped DEF store, chain
<1>2. CASE confirmed' = confirmed
  BY <1>1, <1>2, NothingSwapped
<1>3. CASE confirmed' # confirmed
  <2>1. review \in Quote /\ confirmed' = confirmed \cup {review}
    BY <1>1, <1>3, Types
  <2>2. \A q \in Quote : Fate(q)' = Fate(q) /\ Told(q)' = Told(q)
    BY <1>1 DEF Fate, Told
  <2> PICK q \in Quote : q = review
    BY <2>1
  <2>3. Swapping!Ask(q)
    BY <2>1, <2>2 DEF Swapping!Ask
  <2> QED BY <2>3 DEF Swapping!Next
<1> QED BY <1>2, <1>3

\* What is handed to a provider was confirmed, is new, and was not reported as
\* expired.
LEMMA SendSwaps ==
  ASSUME TypeOK, Reviewed, Lapsing, NEW r \in Req, Send(r)
  PROVE  [Swapping!Next]_(Swapping!vars)
<1> PICK q \in Quote : q = req[r].quote
  BY DEF Send, At, TypeOK, Request
<1>1. /\ UNCHANGED <<confirmed, lapsed, state, gone>> /\ q \in confirmed /\ q \notin lapsed \ gone
      /\ tx' = [tx EXCEPT ![q] = IF @ = "unsent" THEN "sent" ELSE @]
  BY NotLapsed DEF Send, At, Reviewed, device, history, store, Working
<1>2. tx \in [Quote -> {"unmade", "unsent", "sent", "landed", "dead"}]
  BY Types
<1>3. CASE tx[q] # "unsent"
  <2>1. tx' = tx
    BY <1>1, <1>2, <1>3
  <2> QED BY <1>1, <2>1, NothingSwapped
<1>4. CASE tx[q] = "unsent"
  <2>1. Fate(q) = "unsent" /\ Fate(q)' = "sent"
    BY <1>1, <1>2, <1>4 DEF Fate
  <2>2. \A p \in Quote \ {q} : Fate(p)' = Fate(p)
    BY <1>1, <1>2 DEF Fate
  <2>3. "expired" \notin Told(q) /\ \A p \in Quote : Told(p)' = Told(p)
    BY <1>1 DEF Told
  <2>4. Swapping!Submit(q)
    BY <1>1, <2>1, <2>2, <2>3 DEF Swapping!Submit
  <2> QED BY <2>4 DEF Swapping!Next
<1> QED BY <1>3, <1>4

\* A result that is stored is that of a swap.
LEMMA KeepSwaps ==
  ASSUME TypeOK, Verdicts, NEW r \in Req, Keep(r)
  PROVE  [Swapping!Next]_(Swapping!vars)
<1> PICK q \in Quote : q = req[r].quote
  BY DEF Keep, At, TypeOK, Request
<1>1. UNCHANGED <<confirmed, lapsed, gone, tx>>
  BY DEF Keep, device, history, chain
<1>2. CASE state' = state
  BY <1>1, <1>2, NothingSwapped
<1>3. CASE state' # state
  <2>1. state' = [state EXCEPT ![q] = "completed"] /\ Swapped(q)
    BY <1>3 DEF Keep, At, Verdicts, Swaps
  <2>2. /\ \A p \in Quote : Fate(p)' = Fate(p)
        /\ Fate(q) = "landed" \/ (q \in Metis /\ Fate(q) # "unsent")
    BY <1>1, <2>1 DEF Fate, Swapped
  <2>3. Told(q)' = Told(q) \cup {"done"} /\ \A p \in Quote \ {q} : Told(p)' = Told(p)
    <3>1. state'[q] = "completed" /\ \A p \in Quote \ {q} : state'[p] = state[p]
      BY <2>1, Types
    <3>2. Told(q)' = Told(q) \cup {"done"}
      BY <1>1, <3>1 DEF Told
    <3>3. ASSUME NEW p \in Quote \ {q} PROVE Told(p)' = Told(p)
      BY <1>1, <3>1 DEF Told
    <3> QED BY <3>2, <3>3
  <2>4. Swapping!TellDone(q)
    BY <1>1, <2>2, <2>3 DEF Swapping!TellDone
  <2> QED BY <2>4 DEF Swapping!Next
<1> QED BY <1>2, <1>3

\* No other work of a request shows: neither a status written ahead or
\* deleted, nor Jupiter's giving up a quote that was not reported as expired.
LEMMA WorkSwaps ==
  ASSUME TypeOK, Reviewed, Verdicts, Order, Lapsing, [Next]_vars, NEW r \in Req, Works(r)
  PROVE  [Swapping!Next]_(Swapping!vars)
<1>1. CASE Send(r)
  BY <1>1, SendSwaps
<1>2. CASE Keep(r)
  BY <1>2, KeepSwaps
<1>3. CASE ~Send(r) /\ ~Keep(r)
  <2>1. UNCHANGED <<confirmed, lapsed>> /\ tx' = tx
    <3>1. UNCHANGED <<confirmed, lapsed>>
      BY Worked DEF device, history
    <3>2. tx' = tx
      BY <1>3 DEF Works, Throw, Die, Read, Delete, Status, Ahead, Refuse, Forget, Answered,
                  Rejected, chain
    <3> QED BY <3>1, <3>2
  <2>2. \A q \in Quote : state'[q] = "completed" <=> state[q] = "completed"
    <3>1. /\ req[r].quote \in Quote
          /\ \A q \in Quote \ {req[r].quote} : state'[q] = state[q]
      BY Worked
    <3>2. state'[req[r].quote] \in {"none", "submitting", state[req[r].quote]}
      BY <1>3, <3>1, Types
         DEF Works, Throw, Die, Read, Delete, Status, Ahead, Refuse, Forget, Answered, Rejected,
             store
    <3> QED BY <3>1, <3>2, CompletedStep
  <2>3. \A q \in Quote : q \in lapsed' \ gone' <=> q \in lapsed \ gone
    <3>1. CASE Refuse(r)
      <4>1. req[r].quote \notin lapsed \ gone /\ gone' = gone \cup {req[r].quote}
        BY <3>1, NotLapsed DEF Refuse, At, Working
      <4> QED BY <2>1, <4>1
    <3>2. CASE ~Refuse(r)
      <4>1. gone' = gone
        BY <1>3, <3>2 DEF Works, Throw, Die, Read, Delete, Status, Ahead, Forget, Answered,
                          Rejected, chain
      <4> QED BY <2>1, <4>1
    <3> QED BY <3>1, <3>2
  <2> QED BY <2>1, <2>2, <2>3, NothingSwapped
<1> QED BY <1>1, <1>2, <1>3

\* The device is told of an expired quote only if nothing of it was sent, or
\* Jupiter has given it up.
LEMMA AnswerSwaps ==
  ASSUME TypeOK, Lapsing, NEW r \in Req, req[r].pc # "idle", NEW out, Answer(r, out),
         out = "lapsed" => req[r].out = "lapsed", UNCHANGED <<state, chain>>
  PROVE  [Swapping!Next]_(Swapping!vars)
<1> PICK q \in Quote : q = req[r].quote
  BY DEF TypeOK, Request
<1>1. confirmed' = confirmed /\ UNCHANGED <<gone, tx, state>> /\ lapsed \subseteq lapsed'
        /\ lapsed' \subseteq lapsed \cup (IF out = "lapsed" THEN {q} ELSE {})
  BY Heard DEF chain
<1>2. CASE lapsed' \ gone = lapsed \ gone
  BY <1>1, <1>2, NothingSwapped
<1>3. CASE lapsed' \ gone # lapsed \ gone
  <2>1. lapsed' = lapsed \cup {q} /\ out = "lapsed" /\ q \notin gone
    BY <1>1, <1>3
  <2>2. Fate(q) = "unsent" /\ \A p \in Quote : Fate(p)' = Fate(p)
    BY <1>1, <2>1 DEF Lapsing, Over, Fate
  <2>3. Told(q)' = Told(q) \cup {"expired"}
    BY <1>1, <2>1 DEF Told
  <2>4. ASSUME NEW p \in Quote \ {q} PROVE Told(p)' = Told(p)
    BY <1>1, <2>1 DEF Told
  <2>5. Swapping!TellExpired(q)
    BY <1>1, <2>2, <2>3, <2>4 DEF Swapping!TellExpired
  <2> QED BY <2>5 DEF Swapping!Next
<1> QED BY <1>2, <1>3

\* The chain's verdict on a quote is Submission's.
LEMMA SettleSwaps ==
  ASSUME TypeOK, NEW q \in Quote, Settle(q)
  PROVE  Swapping!Settle(q)
<1>1. tx[q] = "sent" /\ UNCHANGED <<confirmed, lapsed, gone, state>>
  BY DEF Settle, device, history, store
<1>2. PICK end \in {"landed", "dead"} : tx' = [tx EXCEPT ![q] = end]
  BY DEF Settle
<1>3. tx'[q] = end /\ \A p \in Quote \ {q} : tx'[p] = tx[p]
  BY <1>2, Types
<1>4. /\ Fate(q) = "sent" /\ Fate(q)' = end
      /\ \A p \in Quote \ {q} : Fate(p)' = Fate(p)
  BY <1>1, <1>3 DEF Fate
<1>5. \A p \in Quote : Told(p)' = Told(p)
  BY <1>1 DEF Told
<1> QED BY <1>1, <1>4, <1>5 DEF Swapping!Settle

\* Every step is a step of Submission or leaves what it sees alone.
LEMMA StepSwaps ==
  ASSUME ~Outlives, IInv, [Next]_vars
  PROVE  [Swapping!Next]_(Swapping!vars)
<1>i. TypeOK /\ Reviewed /\ Verdicts /\ Order /\ Lapsing
  BY DEF IInv
<1>1. CASE Taps
  BY <1>i, <1>1, TapSwaps
<1>2. CASE \E r \in Req : Sign(r)
  BY <1>i, <1>2, Signed, NothingSwapped DEF history, store, chain
<1>3. CASE \E r \in Req : Ends(r)
  <2>1. PICK r \in Req : Ends(r)
    BY <1>3
  <2>2. UNCHANGED <<state, chain>> /\ req[r].pc # "idle"
    BY <1>i, <2>1, Ending
  <2>3. CASE UNCHANGED device
    BY <2>2, <2>3, NothingSwapped DEF device, history, chain
  <2>4. ASSUME NEW out, Answer(r, out), out = "lapsed" => req[r].out = "lapsed"
        PROVE  [Swapping!Next]_(Swapping!vars)
    BY <1>i, <2>2, <2>4, AnswerSwaps
  <2> QED BY <1>i, <2>1, <2>3, <2>4, Ending
<1>4. CASE \E r \in Req : Works(r)
  BY <1>i, <1>4, WorkSwaps
<1>5. CASE \E q \in Quote : Quotes(q)
  <2>1. PICK q \in Quote : Quotes(q)
    BY <1>5
  <2>2. /\ UNCHANGED <<confirmed, lapsed, gone>> /\ tx[q] = "unmade" /\ state[q] # "completed"
        /\ tx'[q] = "unsent" /\ state'[q] = "prepared"
        /\ \A p \in Quote \ {q} : tx'[p] = tx[p] /\ state'[p] = state[p]
    BY <1>i, <2>1, Quoted, Types DEF history, Verdicts, Swaps, Swapped
  <2> QED BY <2>2, NothingSwapped
<1>6. CASE \E q \in Quote : Settle(q)
  BY <1>i, <1>6, SettleSwaps DEF Swapping!Next
<1>7. CASE \E q \in Quote : Expire(q) \/ Evaporate(q) \/ LockExpires(q)
  <2>1. UNCHANGED <<confirmed, lapsed, gone, tx>>
    BY <1>7 DEF Expire, Evaporate, LockExpires, device, history, chain
  <2>2. \A q \in Quote : state'[q] = "completed" <=> state[q] = "completed"
    BY <1>i, <1>7, Types DEF Expire, Evaporate, LockExpires
  <2> QED BY <2>1, <2>2, NothingSwapped
<1>8. CASE UNCHANGED vars
  BY <1>8, NothingSwapped DEF vars, device, history, store, chain
<1> QED BY <1>1, <1>2, <1>3, <1>4, <1>5, <1>6, <1>7, <1>8, Steps

\* The initial states are Submission's.
LEMMA InitSwaps == Init => Swapping!Init
<1> SUFFICES ASSUME Init PROVE Swapping!Init
  OBVIOUS
<1>1. \A q \in Quote : Fate(q) = "unsent" /\ Told(q) = {}
  BY DEF Init, Fate, Told
<1> QED BY <1>1 DEF Swapping!Init, Init

(***************************************************************************)
(* As long as no request outlives its lock, the screen and the worker      *)
(* implement Submission: a quote is submitted at most once, only after it  *)
(* was confirmed and never once it was reported as expired; and no answer  *)
(* is contradicted later.                                                  *)
(***************************************************************************)
THEOREM ImplementsSubmission ==
  ASSUME ~Outlives
  PROVE  Spec => SubmittedOnce
<1>1. IInv /\ [Next]_vars => [Swapping!Next]_(Swapping!vars)
  BY StepSwaps
<1> QED BY <1>1, InitSwaps, Invariance, PTL DEF Spec, SubmittedOnce, Swapping!Spec
=============================================================================
