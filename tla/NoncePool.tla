------------------------------ MODULE NoncePool ------------------------------
(***************************************************************************)
(* The worker's pool of durable nonce accounts of one wallet               *)
(* (workers/api/src/lib/offline.ts): requests that prepare the pool or     *)
(* read its status run at once in many isolates and share a key-value      *)
(* store only, which has the pool, the pool's lock and the answers kept    *)
(* per idempotency key.                                                    *)
(*                                                                         *)
(* A step is the code from one call of the store or of the RPC to the      *)
(* next. An isolate may be killed after any of them, which is also what a  *)
(* call outside the try block amounts to when it fails or its answer is    *)
(* lost; inside it the finally clause still releases the lock.             *)
(***************************************************************************)
EXTENDS Naturals, FiniteSets

CONSTANTS
  Account,   \* addresses of nonce accounts
  Key,       \* idempotency keys
  NoKey,
  Asks,      \* what devices ask for: a key and the accounts to prepare
  Req,       \* requests in flight at a time (a bound)
  NoReq,
  Min,       \* OFFLINE_SLOT_MIN_COUNT
  Max,       \* OFFLINE_SLOT_MAX_COUNT
  Outlives   \* whether a holder may outlive its lock, which expires after 30 s

ASSUME NoncePoolAssumption ==
  /\ IsFiniteSet(Account)
  /\ Asks \subseteq [key : Key, asked : SUBSET Account]
  /\ NoReq \notin Req /\ NoKey \notin Key
  /\ Min \in Nat /\ Max \in Nat
  /\ Outlives \in BOOLEAN

VARIABLES
  \* --- the store
  pool,      \* the set of accounts listed for the wallet
  lock,      \* who holds the pool's lock: the token is the request's own
  record,    \* key -> the kept answer, if any
  \* --- the chain
  landed,    \* accounts whose creation has landed
  \* --- in flight
  req,       \* request -> where it is suspended
  \* --- history
  handed,    \* accounts whose creation has been handed out
  listed,    \* accounts that have been in the pool
  answers    \* key -> the answers given while its record is kept

history == <<handed, listed, answers>>
vars == <<pool, lock, record, landed, req, history>>

Answer == [asked : SUBSET Account, txs : SUBSET Account]
NoAsk == [key |-> NoKey, asked |-> {}]

Preparing == {"list", "read", "remove", "build", "add", "get", "del"}

\* A preparation, or a status request ("poll"): the accounts it has read from
\* the pool, those it found missing on chain, and the creations it has made.
Request ==
  [pc : {"idle", "lookup", "lock", "store", "reread"} \cup Preparing,
   poll : BOOLEAN, ask : Asks \cup {NoAsk},
   known : SUBSET Account, gone : SUBSET Account, made : BOOLEAN, txs : SUBSET Account]

Idle == [pc |-> "idle", poll |-> FALSE, ask |-> NoAsk, known |-> {}, gone |-> {},
         made |-> FALSE, txs |-> {}]

(***************************************************************************)
(* Every request and every kept answer keeps its shape, and one answer at  *)
(* most is kept for a key.                                                 *)
(***************************************************************************)
TypeOK ==
  /\ pool \subseteq Account /\ landed \subseteq Account /\ handed \subseteq Account
  /\ listed \subseteq Account
  /\ lock \in Req \cup {NoReq}
  /\ record \in [Key -> SUBSET Answer]
  /\ \A k \in Key : \A a, b \in record[k] : a = b
  /\ req \in [Req -> Request]
  /\ \A r \in Req : IF req[r].poll THEN req[r].pc \in {"list", "read", "remove"}
                    ELSE req[r].pc = "idle" \/ req[r].ask \in Asks
  /\ answers \in [Key -> SUBSET Answer]

Init ==
  /\ pool = {} /\ landed = {} /\ handed = {} /\ listed = {}
  /\ lock = NoReq
  /\ record = [k \in Key |-> {}]
  /\ req = [r \in Req |-> Idle]
  /\ answers = [k \in Key |-> {}]

At(r, pc) == req[r].pc = pc
Go(r, pc) == req' = [req EXCEPT ![r].pc = pc]
End(r) == req' = [req EXCEPT ![r] = Idle]

\* Inside the try block of prepareNoncePool: between acquisition and release.
InSection(r) == req[r].pc \in Preparing /\ ~req[r].poll
-----------------------------------------------------------------------------
(***************************************************************************)
(* withOfflineIdempotency                                                  *)
(***************************************************************************)
Prepare(r, ask) ==
  /\ At(r, "idle")
  /\ req' = [req EXCEPT ![r] = [Idle EXCEPT !.pc = "lookup", !.ask = ask]]
  /\ UNCHANGED <<pool, lock, record, landed, history>>

\* An answer leaves the worker, and the device has the unsigned creations.
Reply(r, answer) ==
  /\ answers' = [answers EXCEPT ![req[r].ask.key] = @ \cup {answer}]
  /\ handed' = handed \cup answer.txs
  /\ End(r)
  /\ UNCHANGED listed

Kept(r) == record[req[r].ask.key]

\* The kept answer, or a refusal when it is to another request or gone.
Replay(r) ==
  LET mine == {a \in Kept(r) : a.asked = req[r].ask.asked}
  IN  \/ \E a \in mine : Reply(r, a)
      \/ mine = {} /\ End(r) /\ UNCHANGED history

Lookup(r) ==
  /\ At(r, "lookup")
  /\ IF Kept(r) # {} THEN Replay(r) ELSE Go(r, "lock") /\ UNCHANGED history
  /\ UNCHANGED <<pool, lock, record, landed>>

Made(r) == [asked |-> req[r].ask.asked, txs |-> req[r].txs]

\* Mutant: the answer is kept whatever is there (SET without NX).
StoreOver(r) ==
  /\ At(r, "store")
  /\ record' = [record EXCEPT ![req[r].ask.key] = @ \cup {Made(r)}]
  /\ Reply(r, Made(r))
  /\ UNCHANGED <<pool, lock, landed>>

\* SET NX: the first of several concurrent answers is kept.
Store(r) ==
  /\ At(r, "store")
  /\ IF Kept(r) = {}
     THEN /\ record' = [record EXCEPT ![req[r].ask.key] = {Made(r)}]
          /\ Reply(r, Made(r))
     ELSE Go(r, "reread") /\ UNCHANGED <<record, history>>
  /\ UNCHANGED <<pool, lock, landed>>

Reread(r) ==
  /\ At(r, "reread")
  /\ Replay(r)
  /\ UNCHANGED <<pool, lock, record, landed>>

\* A kept answer expires after 24 h, longer than any request lives.
Forget(k) ==
  /\ record[k] # {}
  /\ \A r \in Req : At(r, "idle") \/ req[r].poll \/ req[r].ask.key # k
  /\ record' = [record EXCEPT ![k] = {}]
  /\ answers' = [answers EXCEPT ![k] = {}]
  /\ UNCHANGED <<pool, lock, landed, req, handed, listed>>
-----------------------------------------------------------------------------
(***************************************************************************)
(* The lock.                                                               *)
(***************************************************************************)
\* Mutant: the lock is taken whoever holds it (SET without NX).
AcquireOver(r) ==
  /\ At(r, "lock")
  /\ lock' = r
  /\ Go(r, "list")
  /\ UNCHANGED <<pool, record, landed, history>>

\* acquireNoncePoolLock, or 409 when it is held.
Acquire(r) ==
  /\ At(r, "lock")
  /\ IF lock = NoReq THEN lock' = r /\ Go(r, "list") ELSE End(r) /\ UNCHANGED lock
  /\ UNCHANGED <<pool, record, landed, history>>

\* Mutant: the release swallows the error of the preparation.
ReleasedSwallowing(r) == Go(r, "store")

\* After the finally clause: the answer, or the error that led to it.
Released(r) == IF req[r].made THEN Go(r, "store") ELSE End(r)

\* releaseNoncePoolLock: GET and compare, then DEL in a call of its own.
ReleaseGet(r) ==
  /\ At(r, "get")
  /\ IF lock = r THEN Go(r, "del") ELSE Released(r)
  /\ UNCHANGED <<pool, lock, record, landed, history>>

ReleaseDel(r) ==
  /\ At(r, "del")
  /\ lock' = NoReq
  /\ Released(r)
  /\ UNCHANGED <<pool, record, landed, history>>

LockExpires ==
  /\ lock # NoReq
  /\ Outlives \/ ~InSection(lock)
  /\ lock' = NoReq
  /\ UNCHANGED <<pool, record, landed, req, history>>
-----------------------------------------------------------------------------
(***************************************************************************)
(* Listing, pruning and adding; the status request lists and prunes        *)
(* without the lock.                                                       *)
(***************************************************************************)
Poll(r) ==
  /\ At(r, "idle")
  /\ req' = [req EXCEPT ![r] = [Idle EXCEPT !.pc = "list", !.poll = TRUE]]
  /\ UNCHANGED <<pool, lock, record, landed, history>>

\* The pool without what is missing: a preparation goes on from there.
Pruned(r, known) ==
  IF req[r].poll THEN Idle
  ELSE [req[r] EXCEPT !.pc = "build", !.known = known, !.gone = {}]

List(r) ==
  /\ At(r, "list")
  /\ req' = [req EXCEPT ![r] = IF pool = {} THEN Pruned(r, {})
                               ELSE [@ EXCEPT !.pc = "read", !.known = pool]]
  /\ UNCHANGED <<pool, lock, record, landed, history>>

\* The RPC's answer: what has not landed is missing; what has may still be
\* (an answer up to 5 s old), or again (the device closed the account).
Read(r) ==
  /\ At(r, "read")
  /\ \E late \in SUBSET (req[r].known \cap landed) :
       LET gone == (req[r].known \ landed) \cup late
       IN  req' = [req EXCEPT ![r] = IF gone = {} THEN Pruned(r, req[r].known)
                                     ELSE [@ EXCEPT !.pc = "remove", !.gone = gone]]
  /\ UNCHANGED <<pool, lock, record, landed, history>>

\* removeNonceAccounts
Remove(r) ==
  /\ At(r, "remove")
  /\ pool' = pool \ req[r].gone
  /\ req' = [req EXCEPT ![r] = Pruned(r, req[r].known \ req[r].gone)]
  /\ UNCHANGED <<lock, record, landed, history>>

\* A call inside the try block failed or the sizes are wrong: only the finally
\* clause is left.
Thrown(r) == [Idle EXCEPT !.pc = "get", !.ask = req[r].ask]

\* Mutant: the accounts already listed are not counted.
FitsAlone(r) == Cardinality(req[r].ask.asked \ req[r].known) \in Min..Max

Fits(r) == Cardinality(req[r].known \cup req[r].ask.asked) \in Min..Max

\* The size checks and the reads of rent and blockhash.
Build(r) ==
  /\ At(r, "build")
  /\ req' = [req EXCEPT ![r] = IF Fits(r) THEN [@ EXCEPT !.pc = "add"]
                               ELSE Thrown(r)]
  /\ UNCHANGED <<pool, lock, record, landed, history>>

\* addNonceAccounts: the accounts that were not listed, and the answer.
Add(r) ==
  /\ At(r, "add")
  /\ LET new == req[r].ask.asked \ req[r].known
     IN  /\ pool' = pool \cup new
         /\ listed' = listed \cup new
         /\ req' = [req EXCEPT ![r] = [@ EXCEPT !.pc = "get", !.known = {}, !.made = TRUE,
                                                !.txs = new]]
  /\ UNCHANGED <<lock, record, landed, handed, answers>>

\* A call inside the try block fails, or only its answer is lost.
Throw(r) ==
  /\ InSection(r) /\ req[r].pc \notin {"get", "del"}
  /\ req' = [req EXCEPT ![r] = Thrown(r)]
  /\ UNCHANGED <<pool, lock, record, landed, history>>

Die(r) ==
  /\ ~At(r, "idle")
  /\ End(r)
  /\ UNCHANGED <<pool, lock, record, landed, history>>

\* The device signs a creation it was handed, and it lands.
Land(a) ==
  /\ a \in handed \ landed
  /\ landed' = landed \cup {a}
  /\ UNCHANGED <<pool, lock, record, req, history>>
-----------------------------------------------------------------------------
Next ==
  \/ \E r \in Req :
       \/ Poll(r) \/ \E ask \in Asks : Prepare(r, ask)
       \/ Lookup(r) \/ Store(r) \/ Reread(r)
       \/ Acquire(r) \/ ReleaseGet(r) \/ ReleaseDel(r)
       \/ List(r) \/ Read(r) \/ Remove(r) \/ Build(r) \/ Add(r)
       \/ Throw(r) \/ Die(r)
  \/ LockExpires
  \/ \E k \in Key : Forget(k)
  \/ \E a \in Account : Land(a)

Spec == Init /\ [][Next]_vars
-----------------------------------------------------------------------------
(***************************************************************************)
(* "Already being prepared for this wallet": never are two preparations    *)
(* between acquisition and release, as long as none outlives its lock;     *)
(* neither kills, lost answers nor the release in two calls change that.   *)
(***************************************************************************)
OnePreparer == \A r, q \in Req : InSection(r) /\ InSection(q) => r = q

(***************************************************************************)
(* The pool never lists more than the maximum, though its size is read     *)
(* long before it is written, status requests prune it meanwhile without   *)
(* the lock, and the same preparation may be under way twice. This too     *)
(* needs that none outlives its lock.                                      *)
(***************************************************************************)
PoolWithinMax == Cardinality(pool) <= Max

(***************************************************************************)
(* All answers given for an idempotency key are the same one: a retry,     *)
(* even one that prepared the pool again while the first was under way,    *)
(* never gets other creations, nor those of another request.               *)
(***************************************************************************)
AnswersAgree == \A k \in Key : \A a, b \in answers[k] : a = b

(***************************************************************************)
(* Whatever was interrupted, thrown or answered from a record, a device    *)
(* is only told that accounts are prepared which the pool has listed, so   *)
(* that no rent is paid into an account the worker never knew.             *)
(***************************************************************************)
AnsweredWasListed == \A k \in Key : \A a \in answers[k] : a.asked \subseteq listed

\* The pool as AccountPool sees it, and the answers given from it.
Promised == INSTANCE AccountPool

(***************************************************************************)
(* Requests, lock and records keep the promise of AccountPool: accounts    *)
(* join only while the pool fits its maximum, a key has one answer, and    *)
(* its creations are of accounts that had been listed. As long as no       *)
(* preparation outlives its lock.                                          *)
(***************************************************************************)
KeepsThePool == Promised!Spec
=============================================================================
