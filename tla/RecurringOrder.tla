---------------------------- MODULE RecurringOrder ----------------------------
(***************************************************************************)
(* One recurring swap order a user wants, from the review on the device    *)
(* (components/features/swap/AdvancedSwapScreen.tsx, store/                *)
(* advancedSwapStore.ts, lib/swap/advanced-swap.ts; the chat's confirm     *)
(* step uses the same two) to its transaction on chain, through the two    *)
(* calls of the worker (workers/api/src/lib/jupiter.ts): create drafts the *)
(* order once per idempotency key, execute submits the signed draft and    *)
(* writes ahead that it does.                                              *)
(*                                                                         *)
(* A step of the worker is the code from one call of its store, the RPC or *)
(* the provider to the next. A call may fail, or take effect and only its  *)
(* answer be lost; an isolate may be killed anywhere; the device may stop  *)
(* waiting, fail or be killed anywhere. The provider is taken at its word  *)
(* when it reports success for the transaction's own signature.            *)
(*                                                                         *)
(* Time: drafts expire (60 s), locks expire (120 s). A behaviour lasts     *)
(* less than the 24 h after which identity, reservation and submitted      *)
(* state expire.                                                           *)
(***************************************************************************)
EXTENDS Naturals, FiniteSets

CONSTANTS
  Session,   \* flows on the device that may review and confirm the order
  Screen,    \* those of them that are the swap screen, which can cancel
  Key,       \* idempotency keys
  NoKey,
  Draft,     \* recurring ids, each with the transaction and the order it is to place
  NoDraft,
  Req,       \* requests in flight at the worker at a time (a bound)
  NoReq,
  Outlives   \* whether a holder may outlive its lock, which expires after 120 s

ASSUME RecurringOrderAssumption ==
  /\ NoKey \notin Key /\ NoDraft \notin Draft /\ NoReq \notin Req
  /\ Key \cap Draft = {} /\ NoDraft \notin Key
  /\ Screen \subseteq Session
  /\ Outlives \in BOOLEAN

VARIABLES
  \* --- the device
  identity,  \* recurringOperationIdentities: the key kept for this order
  minted,    \* keys made so far
  flow,      \* session -> where it is
  calledOff, \* keys of which a screen said that no transaction was submitted
  told,      \* draft -> what the device was told of it
  \* --- the worker's store
  reserved,  \* key -> the draft its record names
  built,     \* draft -> the key it was reserved under (history)
  order,     \* draft -> its stored state
  lock,      \* a key or a draft -> who holds its lock
  \* --- the worker's requests and the chain
  req,       \* request -> where it is suspended
  tx         \* draft -> its transaction

device == <<identity, minted, flow, calledOff, told>>
store == <<reserved, built, order, lock>>
vars == <<device, store, req, tx>>

Flow ==
  [pc : {"form", "review", "create", "sign", "execute"},
   key : Key \cup {NoKey}, draft : Draft \cup {NoDraft}, call : Req \cup {NoReq}]

NoFlow == [pc |-> "form", key |-> NoKey, draft |-> NoDraft, call |-> NoReq]

Creating == {"lookup", "redraft", "reserve", "build", "store", "drop"}
Executing == {"read", "delete", "status", "ahead", "send", "answer", "keep"}

\* "op" is which of the two calls, "out" what it is about to answer.
Request ==
  [pc : {"idle", "lock", "release"} \cup Creating \cup Executing,
   op : {"create", "execute"}, key : Key \cup {NoKey}, draft : Draft \cup {NoDraft},
   out : {"error", "draft", "done", "expired"}]

Idle == [pc |-> "idle", op |-> "create", key |-> NoKey, draft |-> NoDraft, out |-> "error"]

(***************************************************************************)
(* Every session and request keeps its shape and knows the key or the      *)
(* draft that its next call is about.                                      *)
(***************************************************************************)
TypeOK ==
  /\ identity \in Key \cup {NoKey} /\ minted \subseteq Key /\ calledOff \subseteq Key
  /\ flow \in [Session -> Flow]
  /\ \A s \in Session :
       /\ flow[s].pc # "form" => flow[s].key \in Key
       /\ flow[s].pc \in {"sign", "execute"} => flow[s].draft \in Draft
  /\ told \in [Draft -> SUBSET {"done", "expired"}]
  /\ reserved \in [Key -> Draft \cup {NoDraft}]
  /\ built \in [Draft -> Key \cup {NoKey}]
  /\ order \in [Draft -> {"none", "pending", "submitting", "completed"}]
  /\ lock \in [Key \cup Draft -> Req \cup {NoReq}]
  /\ req \in [Req -> Request]
  /\ \A r \in Req :
       /\ req[r].pc # "idle" => IF req[r].op = "create" THEN req[r].key \in Key
                                ELSE req[r].draft \in Draft
       /\ req[r].pc \in {"redraft", "build", "store"} \/ req[r].out # "error" =>
            req[r].draft \in Draft
  /\ tx \in [Draft -> {"unsent", "sent", "landed", "failed"}]

Init ==
  /\ identity = NoKey /\ minted = {} /\ calledOff = {}
  /\ flow = [s \in Session |-> NoFlow]
  /\ told = [d \in Draft |-> {}]
  /\ reserved = [k \in Key |-> NoDraft]
  /\ built = [d \in Draft |-> NoKey]
  /\ order = [d \in Draft |-> "none"]
  /\ lock = [n \in Key \cup Draft |-> NoReq]
  /\ req = [r \in Req |-> Idle]
  /\ tx = [d \in Draft |-> "unsent"]

At(r, pc) == req[r].pc = pc
Go(r, pc) == req' = [req EXCEPT ![r].pc = pc]
Out(r, out) == req' = [req EXCEPT ![r].pc = "release", ![r].out = out]

\* What the request's lock is named after.
Name(r) == IF req[r].op = "create" THEN req[r].key ELSE req[r].draft

\* Inside the try block, its catch or its finally: from acquisition to release.
InSection(r) == req[r].pc \in Creating \cup Executing \cup {"release"}
-----------------------------------------------------------------------------
(***************************************************************************)
(* The device.                                                             *)
(***************************************************************************)
\* getOrCreatePersistedRecurringOperationIdentity, as the review opens
Review(s) ==
  /\ flow[s].pc = "form"
  /\ \E k \in IF identity = NoKey THEN Key \ minted ELSE {identity} :
       /\ identity' = k
       /\ minted' = minted \cup {k}
       /\ flow' = [flow EXCEPT ![s] = [NoFlow EXCEPT !.pc = "review", !.key = k]]
  /\ UNCHANGED <<calledOff, told, store, req, tx>>

\* clearPersistedRecurringOperationIdentity
Cleared(k) == IF identity = k THEN NoKey ELSE identity

\* handleCancelReviewSwap: 'No transaction was submitted.'
Cancel(s) ==
  /\ s \in Screen /\ flow[s].pc = "review"
  /\ identity' = Cleared(flow[s].key)
  /\ calledOff' = calledOff \cup {flow[s].key}
  /\ flow' = [flow EXCEPT ![s] = NoFlow]
  /\ UNCHANGED <<minted, told, store, req, tx>>

\* A request of a session reaches the worker.
Call(s, r, op, pc) ==
  /\ At(r, "idle") /\ \A t \in Session : flow[t].call # r
  /\ flow' = [flow EXCEPT ![s].pc = pc, ![s].call = r]
  /\ req' = [req EXCEPT ![r] = [Idle EXCEPT !.pc = "lock", !.op = op, !.key = flow[s].key,
                                            !.draft = flow[s].draft]]
  /\ UNCHANGED <<identity, minted, calledOff, told, store, tx>>

Confirm(s, r) == flow[s].pc = "review" /\ Call(s, r, "create", "create")

\* The preflight passed, and the wallet signed.
Sign(s, r) == flow[s].pc = "sign" /\ Call(s, r, "execute", "execute")

\* A time-out, a lost answer, a failed preflight or signature, or a kill: the
\* screen says that the swap failed, or nothing, and the identity stays.
Leave(s) ==
  /\ flow[s].pc # "form"
  /\ flow' = [flow EXCEPT ![s] = NoFlow]
  /\ UNCHANGED <<identity, minted, calledOff, told, store, req, tx>>
-----------------------------------------------------------------------------
(***************************************************************************)
(* The end of a request, and its lock.                                     *)
(***************************************************************************)
\* Mutant: the answer to create carries no id.
HeardNoDraft(f, r) ==
  IF req[r].out = "draft" THEN [f EXCEPT !.pc = "sign", !.call = NoReq] ELSE NoFlow

\* What the waiting session does with the answer.
Heard(f, r) ==
  IF req[r].out = "draft"
  THEN [f EXCEPT !.pc = "sign", !.draft = req[r].draft, !.call = NoReq]
  ELSE NoFlow

\* The answer reaches the session that waits for it, if any.
Answer(r) ==
  LET waiting == {s \in Session : flow[s].call = r}
      heard == req[r].out \in {"done", "expired"} /\ waiting # {}
  IN  /\ flow' = [s \in Session |-> IF s \in waiting THEN Heard(flow[s], r) ELSE flow[s]]
      /\ told' = IF heard THEN [told EXCEPT ![req[r].draft] = @ \cup {req[r].out}] ELSE told
      /\ identity' = IF heard /\ req[r].out = "done" THEN Cleared(req[r].key) ELSE identity
      /\ req' = [req EXCEPT ![r] = Idle]
      /\ UNCHANGED <<minted, calledOff>>

\* acquireNamedLock, or 409 when it is held
Acquire(r) ==
  /\ At(r, "lock")
  /\ IF lock[Name(r)] = NoReq
     THEN /\ lock' = [lock EXCEPT ![Name(r)] = r]
          /\ Go(r, IF req[r].op = "create" THEN "lookup" ELSE "read")
          /\ UNCHANGED device
     ELSE Answer(r) /\ UNCHANGED lock
  /\ UNCHANGED <<reserved, built, order, tx>>

\* The finally clause (GET, compare and DEL in one script) and the answer; a
\* release that fails is ignored.
Release(r) ==
  /\ At(r, "release")
  /\ \/ lock' = IF lock[Name(r)] = r THEN [lock EXCEPT ![Name(r)] = NoReq] ELSE lock
     \/ UNCHANGED lock
  /\ Answer(r)
  /\ UNCHANGED <<reserved, built, order, tx>>

LockExpires(n) ==
  /\ lock[n] # NoReq
  /\ Outlives \/ ~(InSection(lock[n]) /\ Name(lock[n]) = n)
  /\ lock' = [lock EXCEPT ![n] = NoReq]
  /\ UNCHANGED <<device, reserved, built, order, req, tx>>

\* Mutant: the catch clause drops a reservation that an earlier call made.
OwnsAny(r) == req[r].pc \in {"redraft", "build", "store"}

\* ownsIdempotencyReservation
Owns(r) == req[r].pc \in {"build", "store"}

Thrown(r) == IF Owns(r) THEN Go(r, "drop") ELSE Out(r, "error")

\* A call fails, or is answered with what the code refuses.
Throw(r) ==
  /\ req[r].pc \in (Creating \cup Executing) \ {"drop", "keep"}
  /\ Thrown(r)
  /\ UNCHANGED <<device, store, tx>>

Die(r) ==
  /\ ~At(r, "idle")
  /\ req' = [req EXCEPT ![r] = Idle]
  /\ UNCHANGED <<device, store, tx>>
-----------------------------------------------------------------------------
(***************************************************************************)
(* createRecurringOrder                                                    *)
(***************************************************************************)
Lookup(r) ==
  /\ At(r, "lookup")
  /\ LET d == reserved[req[r].key]
     IN  req' = [req EXCEPT ![r].pc = IF d = NoDraft THEN "reserve" ELSE "redraft",
                            ![r].draft = d]
  /\ UNCHANGED <<device, store, tx>>

\* The draft that the record names, if it has not expired.
Redraft(r) ==
  /\ At(r, "redraft")
  /\ Out(r, IF order[req[r].draft] = "none" THEN "error" ELSE "draft")
  /\ UNCHANGED <<device, store, tx>>

\* storeRecurringIdempotencyState; when only its answer is lost, the record
\* stays and the catch clause does not know of it.
Reserve(r) ==
  /\ At(r, "reserve")
  /\ \E d \in {e \in Draft : built[e] = NoKey} :
       /\ built' = [built EXCEPT ![d] = req[r].key]
       /\ reserved' = [reserved EXCEPT ![req[r].key] = d]
       /\ \/ req' = [req EXCEPT ![r].pc = "build", ![r].draft = d]
          \/ Out(r, "error")
  /\ UNCHANGED <<device, order, lock, tx>>

\* The provider's transaction, verified.
Build(r) ==
  /\ At(r, "build")
  /\ Go(r, "store")
  /\ UNCHANGED <<device, store, tx>>

\* storeRecurringOrderState, whose answer may be lost
Store(r) ==
  /\ At(r, "store")
  /\ order' = [order EXCEPT ![req[r].draft] = "pending"]
  /\ Out(r, "draft") \/ Thrown(r)
  /\ UNCHANGED <<device, reserved, built, lock, tx>>

\* deleteRecurringIdempotencyState in the catch clause; a failure is ignored.
Drop(r) ==
  /\ At(r, "drop")
  /\ reserved' = [reserved EXCEPT ![req[r].key] = NoDraft] \/ UNCHANGED reserved
  /\ Out(r, "error")
  /\ UNCHANGED <<device, built, order, lock, tx>>

\* A draft that is not submitted expires in the store after 60 s.
Expire(d) ==
  /\ order[d] = "pending"
  /\ order' = [order EXCEPT ![d] = "none"]
  /\ UNCHANGED <<device, reserved, built, lock, req, tx>>
-----------------------------------------------------------------------------
(***************************************************************************)
(* executeRecurringOrder                                                   *)
(***************************************************************************)
\* Mutant: a state past its time is expired whatever it says.
ReadAnyExpired(r) ==
  /\ At(r, "read")
  /\ \/ order[req[r].draft] = "none" /\ Out(r, "expired")
     \/ order[req[r].draft] \in {"pending", "submitting"} /\ Go(r, "delete")
     \/ order[req[r].draft] = "pending" /\ Go(r, "ahead")
     \/ order[req[r].draft] = "submitting" /\ Go(r, "status")
     \/ order[req[r].draft] = "completed" /\ Out(r, "done")
  /\ UNCHANGED <<device, store, tx>>

\* A draft that is still there may be past its time.
Read(r) ==
  /\ At(r, "read")
  /\ \/ order[req[r].draft] = "none" /\ Out(r, "expired")
     \/ order[req[r].draft] = "pending" /\ (Go(r, "ahead") \/ Go(r, "delete"))
     \/ order[req[r].draft] = "submitting" /\ Go(r, "status")
     \/ order[req[r].draft] = "completed" /\ Out(r, "done")
  /\ UNCHANGED <<device, store, tx>>

\* deleteRecurringOrderState, whose answer may be lost
Delete(r) ==
  /\ At(r, "delete")
  /\ order' = [order EXCEPT ![req[r].draft] = "none"]
  /\ Out(r, "expired") \/ Out(r, "error")
  /\ UNCHANGED <<device, reserved, built, lock, tx>>

\* getRpcSignatureStatuses: what has landed may not be seen yet; a failed
\* transaction is seen as such (Throw) or, when it was dropped, not at all.
Status(r) ==
  /\ At(r, "status")
  /\ \/ tx[req[r].draft] = "landed" /\ Go(r, "keep")
     \/ Go(r, "ahead")
  /\ UNCHANGED <<device, store, tx>>

\* Mutant: the state is written only after the provider was called.
AheadUnwritten(r) ==
  /\ At(r, "ahead")
  /\ Go(r, "send")
  /\ UNCHANGED <<device, store, tx>>

\* The state says "submitting" before the provider has the transaction.
Ahead(r) ==
  /\ At(r, "ahead")
  /\ order' = [order EXCEPT ![req[r].draft] = "submitting"]
  /\ Go(r, "send")
  /\ UNCHANGED <<device, reserved, built, lock, tx>>

Send(r) ==
  /\ At(r, "send")
  /\ tx' = [tx EXCEPT ![req[r].draft] = IF @ = "unsent" THEN "sent" ELSE @]
  /\ Go(r, "answer")
  /\ UNCHANGED <<device, store>>

\* Mutant: success is believed without the transaction's signature.
AnsweredUnbound(r) ==
  /\ At(r, "answer")
  /\ Go(r, "keep")
  /\ UNCHANGED <<device, store, tx>>

\* The provider reports success with the signature and the order expected.
Answered(r) ==
  /\ At(r, "answer") /\ tx[req[r].draft] = "landed"
  /\ Go(r, "keep")
  /\ UNCHANGED <<device, store, tx>>

\* The result is stored, which may fail unnoticed.
Keep(r) ==
  /\ At(r, "keep")
  /\ order' = [order EXCEPT ![req[r].draft] = "completed"] \/ UNCHANGED order
  /\ Out(r, "done")
  /\ UNCHANGED <<device, reserved, built, lock, tx>>

\* Whoever has the transaction submits it until it lands, fails or expires.
Settle(d) ==
  /\ tx[d] = "sent"
  /\ \E end \in {"landed", "failed"} : tx' = [tx EXCEPT ![d] = end]
  /\ UNCHANGED <<device, store, req>>
-----------------------------------------------------------------------------
Next ==
  \/ \E s \in Session :
       \/ Review(s) \/ Cancel(s) \/ Leave(s)
       \/ \E r \in Req : Confirm(s, r) \/ Sign(s, r)
  \/ \E r \in Req :
       \/ Acquire(r) \/ Release(r) \/ Throw(r) \/ Die(r)
       \/ Lookup(r) \/ Redraft(r) \/ Reserve(r) \/ Build(r) \/ Store(r) \/ Drop(r)
       \/ Read(r) \/ Delete(r) \/ Status(r) \/ Ahead(r) \/ Send(r) \/ Answered(r) \/ Keep(r)
  \/ \E d \in Draft : Expire(d) \/ Settle(d)
  \/ \E n \in Key \cup Draft : LockExpires(n)

Spec == Init /\ [][Next]_vars
-----------------------------------------------------------------------------
(***************************************************************************)
(* "Replays the same recurring create idempotency key without creating     *)
(* another provider order": under one key at most one draft's transaction  *)
(* is ever handed to the provider, whatever is retried, killed or lost and *)
(* however many sessions confirm at once.                                  *)
(***************************************************************************)
OneOrderPerKey ==
  \A d, e \in Draft :
    built[d] = built[e] /\ tx[d] # "unsent" /\ tx[e] # "unsent" => d = e

(***************************************************************************)
(* A transaction the provider has, or had, is known to the store: no kill, *)
(* lost answer or expiry leaves one that a retry would take for new.       *)
(***************************************************************************)
KnownBeforeSent ==
  \A d \in Draft : tx[d] # "unsent" => order[d] \in {"submitting", "completed"}

(***************************************************************************)
(* The device is told that an order was placed only when it was, also by   *)
(* an answer replayed from the store or reconciled with the chain.         *)
(***************************************************************************)
DoneIsPlaced ==
  \A d \in Draft : "done" \in told[d] \/ order[d] = "completed" => tx[d] = "landed"

(***************************************************************************)
(* Of an order the device was told has expired, nothing is ever sent: not  *)
(* by an earlier request still under way, nor by one that comes late.      *)
(***************************************************************************)
ExpiredIsNeverSent ==
  \A d \in Draft : "expired" \in told[d] => tx[d] = "unsent"

(***************************************************************************)
(* The order as Submission sees it: one operation per idempotency key, of  *)
(* whose drafts at most one has a transaction that left the worker.        *)
(***************************************************************************)
Under(k) == {d \in Draft : built[d] = k}

Left(k) == {d \in Under(k) : tx[d] # "unsent"}

End(t) == IF t = "failed" THEN "dead" ELSE t

Fate(k) == IF Left(k) = {} THEN "unsent" ELSE End(tx[CHOOSE d \in Left(k) : TRUE])

Told(k) == UNION {told[d] : d \in Under(k)}

Placing ==
  INSTANCE Submission
    WITH Op <- Key, Broadcast <- {},
         asked <- {k \in Key : Under(k) # {}},
         fate <- [k \in Key |-> Fate(k)],
         told <- [k \in Key |-> Told(k)]

(***************************************************************************)
(* Create and execute keep the promise of Submission: a key is submitted   *)
(* at most once, after it was reserved and not once it was reported as     *)
(* expired, and what the device was told under it stays true, whichever    *)
(* of its drafts it was told of.                                           *)
(***************************************************************************)
SubmittedOnce == Placing!Spec

(***************************************************************************)
(* AdvancedSwapScreen.tsx, when a review is cancelled: "No transaction was *)
(* submitted." An earlier attempt under the same key may have been, and    *)
(* its outcome is unknown.                                                 *)
(***************************************************************************)
CancelledIsNotSubmitted ==
  [][\A k \in calledOff' \ calledOff : \A d \in Draft :
       built[d] = k => tx[d] = "unsent"]_vars
=============================================================================
