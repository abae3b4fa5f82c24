------------------------------- MODULE SwapQuote -------------------------------
(***************************************************************************)
(* One swap a user wants, through the quotes that the screen shows, puts   *)
(* up for review and executes (components/features/swap/SwapScreen.tsx,    *)
(* lib/swap/normal-swap-execution.ts, lib/swap/swap-helpers.ts), and the   *)
(* worker's execution of a signed quote (workers/api/src/lib/jupiter.ts).  *)
(*                                                                         *)
(* A step of the worker is the code from one call of its store, the RPC or *)
(* the provider to the next; each call may fail, or take effect and only   *)
(* its answer be lost, and the isolate may be killed in between. Fetching  *)
(* a quote is one step with its answer: a quote nobody was given is never  *)
(* asked for again. Jupiter is taken at its word when it reports success   *)
(* for the transaction's own signature.                                    *)
(*                                                                         *)
(* Time: device and worker agree on whether a quote is past its time. A    *)
(* behaviour lasts less than the 24 h after which submitted states expire. *)
(***************************************************************************)
EXTENDS Naturals, FiniteSets

CONSTANTS
  Quote,     \* quote ids, each with its transaction
  Metis,     \* those built by the fallback, which the worker broadcasts itself
  NoQuote,
  Req,       \* requests in flight at the worker at a time (a bound)
  NoReq,
  Outlives   \* whether a holder may outlive its lock, which expires after 120 s

ASSUME SwapQuoteAssumption ==
  /\ Metis \subseteq Quote
  /\ NoQuote \notin Quote /\ NoReq \notin Req
  /\ Outlives \in BOOLEAN

VARIABLES
  \* --- the device
  shown,     \* quoteQuery.data
  review,    \* reviewSwap
  run,       \* executeSwapMutation, while it is pending
  confirmed, \* quotes the user confirmed while they were under review
  lapsed,    \* quotes the device was told have expired
  \* --- the worker's store
  state,     \* quote -> its stored status
  lock,      \* quote -> who holds its lock
  expired,   \* quotes past their time
  \* --- the worker's requests, the provider and the chain
  req,       \* request -> where it is suspended
  gone,      \* quotes of which Jupiter said that it has them no more
  tx         \* quote -> its transaction

history == <<confirmed, lapsed>>
device == <<shown, review, run, history>>
store == <<state, lock, expired>>
chain == <<gone, tx>>
vars == <<device, store, req, chain>>

Run == [stage : {"none", "sign", "wait", "refresh"}, quote : Quote \cup {NoQuote},
        call : Req \cup {NoReq}]

NoRun == [stage |-> "none", quote |-> NoQuote, call |-> NoReq]

\* "out" is what the request is about to answer: an error by which the screen
\* asks for a fresh quote is "refresh", or "lapsed" when it is QUOTE_EXPIRED.
Request ==
  [pc : {"idle", "lock", "read", "delete", "status", "ahead", "send", "answer", "refuse",
         "keep", "release"},
   quote : Quote \cup {NoQuote}, out : {"error", "done", "refresh", "lapsed"}]

Idle == [pc |-> "idle", quote |-> NoQuote, out |-> "error"]

(***************************************************************************)
(* The mutation and every request keep their shape and know their quote;   *)
(* a quote under review is one the worker made.                            *)
(***************************************************************************)
TypeOK ==
  /\ {shown, review} \subseteq Quote \cup {NoQuote}
  /\ run \in Run /\ (run.stage # "none") = (run.quote # NoQuote)
  /\ (run.stage = "wait") = (run.call # NoReq)
  /\ UNION {confirmed, lapsed, expired, gone} \subseteq Quote
  /\ state \in [Quote -> {"none", "prepared", "submitting", "completed"}]
  /\ lock \in [Quote -> Req \cup {NoReq}]
  /\ req \in [Req -> Request]
  /\ \A r \in Req : req[r].pc # "idle" => req[r].quote # NoQuote
  /\ tx \in [Quote -> {"unmade", "unsent", "sent", "landed", "dead"}]
  /\ \A q \in {shown, review} \ {NoQuote} : tx[q] # "unmade"

Init ==
  /\ shown = NoQuote /\ review = NoQuote /\ run = NoRun
  /\ confirmed = {} /\ lapsed = {}
  /\ state = [q \in Quote |-> "none"]
  /\ lock = [q \in Quote |-> NoReq]
  /\ expired = {}
  /\ req = [r \in Req |-> Idle]
  /\ gone = {}
  /\ tx = [q \in Quote |-> "unmade"]

At(r, pc) == req[r].pc = pc
Go(r, pc) == req' = [req EXCEPT ![r].pc = pc]
Out(r, out) == req' = [req EXCEPT ![r].pc = "release", ![r].out = out]

\* Inside the try block or its finally: from acquisition to release.
InSection(r) == req[r].pc \notin {"idle", "lock"}
-----------------------------------------------------------------------------
(***************************************************************************)
(* The screen.                                                             *)
(***************************************************************************)
\* createSwapQuote on the worker: the transaction is built, verified and stored.
Made(q) ==
  /\ tx[q] = "unmade"
  /\ tx' = [tx EXCEPT ![q] = "unsent"]
  /\ state' = [state EXCEPT ![q] = "prepared"]
  /\ UNCHANGED <<lock, expired, gone>>

\* quoteQuery fetches: by itself, at a slide on an expired quote, or after an
\* error that asks for it.
Fetch(q) ==
  /\ Made(q)
  /\ shown' = q
  /\ UNCHANGED <<review, run, history, req>>

\* handleReviewSwap
Review ==
  /\ run.stage = "none" /\ review = NoQuote
  /\ shown # NoQuote /\ shown \notin expired
  /\ review' = shown
  /\ UNCHANGED <<shown, run, history, store, req, chain>>

\* The user cancels, leaves the screen or edits the amount, or the reviewed
\* quote expires; the mutation goes on.
CloseReview ==
  /\ review # NoQuote
  /\ review' = NoQuote
  /\ UNCHANGED <<shown, run, history, store, req, chain>>

\* Mutant: it does not look whether there is a review.
ConfirmUnlessBusy ==
  /\ run.stage = "none"
  /\ run' = [NoRun EXCEPT !.stage = "sign", !.quote = review]
  /\ confirmed' = confirmed \cup {review}
  /\ UNCHANGED <<shown, review, lapsed, store, req, chain>>

\* handleConfirmReviewSwap
Confirm ==
  /\ run.stage = "none" /\ review # NoQuote
  /\ IF review \in expired
     THEN /\ run' = [NoRun EXCEPT !.stage = "refresh", !.quote = review]
          /\ UNCHANGED confirmed
     ELSE /\ run' = [NoRun EXCEPT !.stage = "sign", !.quote = review]
          /\ confirmed' = confirmed \cup {review}
  /\ UNCHANGED <<shown, review, lapsed, store, req, chain>>

\* signAndExecuteQuote: the wallet signed, the request leaves.
Sign(r) ==
  /\ run.stage = "sign" /\ At(r, "idle")
  /\ run' = [run EXCEPT !.stage = "wait", !.call = r]
  /\ req' = [req EXCEPT ![r] = [Idle EXCEPT !.pc = "lock", !.quote = run.quote]]
  /\ UNCHANGED <<shown, review, history, store, chain>>

\* Mutant: the fresh quote is executed at once.
FreshUnreviewed(q) ==
  /\ run.stage = "refresh" /\ Made(q)
  /\ review' = q /\ run' = [NoRun EXCEPT !.stage = "sign", !.quote = q]
  /\ UNCHANGED <<shown, history, req>>

\* fetchFreshQuoteForReview, and onSuccess with 'needs_confirmation'
Fresh(q) ==
  /\ run.stage = "refresh" /\ Made(q)
  /\ review' = q /\ run' = NoRun
  /\ UNCHANGED <<shown, history, req>>

\* The wallet refuses, the answer is lost or late (15 s), the refresh fails or
\* is aborted: 'Swap failed'.
Fail ==
  /\ run.stage # "none"
  /\ run' = NoRun /\ review' = NoQuote
  /\ UNCHANGED <<shown, history, store, req, chain>>

Relaunch ==
  /\ <<shown, review, run>> # <<NoQuote, NoQuote, NoRun>>
  /\ shown' = NoQuote /\ review' = NoQuote /\ run' = NoRun
  /\ UNCHANGED <<history, store, req, chain>>

\* The answer reaches the mutation, if it still waits.
Answer(r, out) ==
  LET q == req[r].quote
      heard == run.call = r
  IN  /\ req' = [req EXCEPT ![r] = Idle]
      /\ run' = IF ~heard THEN run
                ELSE IF out \in {"refresh", "lapsed"}
                     THEN [NoRun EXCEPT !.stage = "refresh", !.quote = q]
                     ELSE NoRun
      /\ review' = IF heard /\ out \in {"done", "error"} THEN NoQuote ELSE review
      /\ lapsed' = IF heard /\ out = "lapsed" THEN lapsed \cup {q} ELSE lapsed
      /\ UNCHANGED <<shown, confirmed>>
-----------------------------------------------------------------------------
(***************************************************************************)
(* The lock and the ends of executeSwapQuoteDetailed.                      *)
(***************************************************************************)
\* Mutant: a second execution is let in.
AcquireAnyway(r) ==
  /\ At(r, "lock")
  /\ lock' = [lock EXCEPT ![req[r].quote] = r]
  /\ Go(r, "read")
  /\ UNCHANGED <<device, state, expired, chain>>

\* acquireQuoteExecuteLock; 409 when it is held, whose message
\* shouldRefreshSwapExecution takes for a stale quote. When the call fails, the
\* lock may be taken by nobody who knows.
Acquire(r) ==
  /\ At(r, "lock")
  /\ \/ /\ lock[req[r].quote] = NoReq
        /\ lock' = [lock EXCEPT ![req[r].quote] = r]
        /\ \/ Go(r, "read") /\ UNCHANGED device
           \/ Answer(r, "error")
     \/ /\ lock[req[r].quote] # NoReq
        /\ Answer(r, "refresh")
        /\ UNCHANGED lock
     \/ Answer(r, "error") /\ UNCHANGED lock
  /\ UNCHANGED <<state, expired, chain>>

\* releaseQuoteExecuteLock, by GET, compare and DEL in one script; when it
\* fails that is ignored.
Release(r) ==
  /\ At(r, "release")
  /\ \/ lock' = IF lock[req[r].quote] = r THEN [lock EXCEPT ![req[r].quote] = NoReq] ELSE lock
     \/ UNCHANGED lock
  /\ Answer(r, req[r].out)
  /\ UNCHANGED <<state, expired, chain>>

LockExpires(q) ==
  /\ lock[q] # NoReq
  /\ Outlives \/ ~(InSection(lock[q]) /\ req[lock[q]].quote = q)
  /\ lock' = [lock EXCEPT ![q] = NoReq]
  /\ UNCHANGED <<device, state, expired, req, chain>>

\* A call fails, or is answered with what the code refuses.
Throw(r) ==
  /\ req[r].pc \in {"read", "delete", "status", "ahead", "send", "answer", "refuse"}
  /\ Out(r, "error")
  /\ UNCHANGED <<device, store, chain>>

\* The isolate is killed; whoever waits for it gets no answer (Fail).
Die(r) ==
  /\ ~At(r, "idle")
  /\ req' = [req EXCEPT ![r] = Idle]
  /\ UNCHANGED <<device, store, chain>>
-----------------------------------------------------------------------------
(***************************************************************************)
(* executeSwapQuoteDetailed                                                *)
(***************************************************************************)
\* Mutant: the time of a quote is looked at whatever its status.
ReadAnyExpired(r) ==
  LET q == req[r].quote
  IN  /\ At(r, "read")
      /\ \/ state[q] = "none" /\ Out(r, "lapsed")
         \/ state[q] = "completed" /\ Out(r, "done")
         \/ state[q] \in {"prepared", "submitting"} /\ q \in expired /\ Go(r, "delete")
         \/ state[q] = "prepared" /\ q \notin expired /\ Go(r, "ahead")
         \/ state[q] = "submitting" /\ q \notin expired /\ Go(r, "status")
      /\ UNCHANGED <<device, store, chain>>

\* getQuoteState and what it decides
Read(r) ==
  LET q == req[r].quote
  IN  /\ At(r, "read")
      /\ \/ state[q] = "none" /\ Out(r, "lapsed")
         \/ state[q] = "completed" /\ Out(r, "done")
         \/ state[q] = "prepared" /\ q \in expired /\ Go(r, "delete")
         \/ state[q] = "prepared" /\ q \notin expired /\ Go(r, "ahead")
         \/ state[q] = "submitting" /\ Go(r, "status")
      /\ UNCHANGED <<device, store, chain>>

\* deleteQuoteState, whose answer may be lost
Delete(r) ==
  /\ At(r, "delete")
  /\ state' = [state EXCEPT ![req[r].quote] = "none"]
  /\ Out(r, "lapsed") \/ Out(r, "error")
  /\ UNCHANGED <<device, lock, expired, chain>>

\* Mutant: a transaction not seen to have failed is taken for landed.
StatusUnlessFailed(r) ==
  /\ At(r, "status")
  /\ tx[req[r].quote] # "dead" /\ Go(r, "keep")
  /\ UNCHANGED <<device, store, chain>>

\* getRpcSignatureStatuses: what has landed may not be seen yet; a failed
\* transaction is seen as such (Throw) or, when it was dropped, not at all.
Status(r) ==
  /\ At(r, "status")
  /\ \/ tx[req[r].quote] = "landed" /\ Go(r, "keep")
     \/ Go(r, "ahead")
  /\ UNCHANGED <<device, store, chain>>

\* The status is "submitting" before anybody is given the transaction.
Ahead(r) ==
  /\ At(r, "ahead")
  /\ state' = [state EXCEPT ![req[r].quote] = "submitting"]
  /\ Go(r, "send") \/ Out(r, "error")
  /\ UNCHANGED <<device, lock, expired, chain>>

\* broadcastRawTransaction or Jupiter's execute
Send(r) ==
  /\ At(r, "send")
  /\ tx' = [tx EXCEPT ![req[r].quote] = IF @ = "unsent" THEN "sent" ELSE @]
  /\ Go(r, "answer")
  /\ UNCHANGED <<device, store, gone>>

\* Jupiter does not know the order any more, or its quote is past its time; an
\* earlier call may have submitted it.
Refuse(r) ==
  /\ At(r, "send") /\ req[r].quote \notin Metis
  /\ gone' = gone \cup {req[r].quote}
  /\ Go(r, "refuse")
  /\ UNCHANGED <<device, store, tx>>

Forget(r) ==
  /\ At(r, "refuse")
  /\ state' = [state EXCEPT ![req[r].quote] = "none"]
  /\ \E out \in {"refresh", "lapsed", "error"} : Out(r, out)
  /\ UNCHANGED <<device, lock, expired, chain>>

\* The broadcaster returns the signature it was given; Jupiter reports success.
Answered(r) ==
  /\ At(r, "answer")
  /\ req[r].quote \in Metis \/ tx[req[r].quote] = "landed"
  /\ Go(r, "keep")
  /\ UNCHANGED <<device, store, chain>>

\* The provider's message for a failed transaction, or the broadcaster's, may
\* read like a stale quote.
Rejected(r) ==
  /\ At(r, "answer")
  /\ req[r].quote \in Metis \/ tx[req[r].quote] = "dead"
  /\ Out(r, "refresh")
  /\ UNCHANGED <<device, store, chain>>

\* The result is stored, which may fail unnoticed.
Keep(r) ==
  /\ At(r, "keep")
  /\ state' = [state EXCEPT ![req[r].quote] = "completed"] \/ UNCHANGED state
  /\ Out(r, "done")
  /\ UNCHANGED <<device, lock, expired, chain>>

Expire(q) ==
  /\ tx[q] # "unmade" /\ q \notin expired
  /\ expired' = expired \cup {q}
  /\ UNCHANGED <<device, state, lock, req, chain>>

\* The store drops a prepared quote past its time.
Evaporate(q) ==
  /\ state[q] = "prepared" /\ q \in expired
  /\ state' = [state EXCEPT ![q] = "none"]
  /\ UNCHANGED <<device, lock, expired, req, chain>>

Settle(q) ==
  /\ tx[q] = "sent"
  /\ \E end \in {"landed", "dead"} : tx' = [tx EXCEPT ![q] = end]
  /\ UNCHANGED <<device, store, req, gone>>
-----------------------------------------------------------------------------
Next ==
  \/ Review \/ CloseReview \/ Confirm \/ Fail \/ Relaunch
  \/ \E r \in Req :
       \/ Sign(r) \/ Acquire(r) \/ Release(r) \/ Throw(r) \/ Die(r)
       \/ Read(r) \/ Delete(r) \/ Status(r) \/ Ahead(r) \/ Send(r) \/ Refuse(r) \/ Forget(r)
       \/ Answered(r) \/ Rejected(r) \/ Keep(r)
  \/ \E q \in Quote : Fetch(q) \/ Fresh(q) \/ Expire(q) \/ Evaporate(q) \/ Settle(q)
  \/ \E q \in Quote : LockExpires(q)

Spec == Init /\ [][Next]_vars
-----------------------------------------------------------------------------
(***************************************************************************)
(* What reaches the chain is what the user looked at: a refreshed quote    *)
(* is executed only after it was itself reviewed and confirmed, whatever   *)
(* was refreshed, retried or answered late.                                *)
(***************************************************************************)
SwappedWasReviewed ==
  \A q \in Quote : tx[q] \in {"sent", "landed", "dead"} => q \in confirmed

(***************************************************************************)
(* 'Swap complete' is answered, and kept to be answered again, only for a  *)
(* transaction that has landed; one that the worker broadcasts itself has  *)
(* at least been broadcast. An answer reconciled with the chain after a    *)
(* lost one is no exception.                                               *)
(***************************************************************************)
Swapped(q) ==
  \/ tx[q] = "landed"
  \/ q \in Metis /\ tx[q] \in {"sent", "dead"}

DoneIsSwapped ==
  /\ \A r \in Req : req[r].out = "done" => Swapped(req[r].quote)
  /\ \A q \in Quote : state[q] = "completed" => Swapped(q)

(***************************************************************************)
(* The device is told that a quote expired only if it was never submitted  *)
(* and never will be, unless Jupiter itself gave it up: a retry whose      *)
(* first attempt was lost must not be sent back to a fresh quote.          *)
(***************************************************************************)
LapsedIsUnsent ==
  \A q \in lapsed \ gone : tx[q] = "unsent"

(***************************************************************************)
(* A stored result is final: no second execution of the quote takes it     *)
(* back, unless Jupiter has forgotten the order.                           *)
(***************************************************************************)
CompletedStays ==
  [][\A q \in Quote : state[q] = "completed" => state'[q] = "completed"]_vars

(***************************************************************************)
(* The quote as Submission sees it: what the device was told of it, as     *)
(* long as Jupiter has not given it up, and what is kept to be answered.   *)
(***************************************************************************)
Fate(q) == IF tx[q] = "unmade" THEN "unsent" ELSE tx[q]

Told(q) ==
  {a \in {"done", "expired"} :
     IF a = "done" THEN state[q] = "completed" ELSE q \in lapsed \ gone}

Swapping ==
  INSTANCE Submission
    WITH Op <- Quote, Broadcast <- Metis, asked <- confirmed,
         fate <- [q \in Quote |-> Fate(q)],
         told <- [q \in Quote |-> Told(q)]

(***************************************************************************)
(* The screen and the worker's execution keep the promise of Submission: a *)
(* quote is submitted at most once, after the user confirmed it and not    *)
(* once it was reported as expired; a result that is stored is true and is *)
(* never taken back, and a quote reported as expired stays so.             *)
(***************************************************************************)
SubmittedOnce == Swapping!Spec

(***************************************************************************)
(* 'Please wait for the current attempt to finish': an attempt does not    *)
(* end in a request for a fresh quote while another request executes the   *)
(* same one, which may still swap.                                         *)
(***************************************************************************)
AttemptIsAwaited ==
  [][run.stage = "wait" /\ run'.stage = "refresh" =>
       \A r \in Req : InSection(r)' => req'[r].quote # run.quote]_vars
=============================================================================
