-------------------------- MODULE NoncePool_proofs --------------------------
(***************************************************************************)
(* Proofs about NoncePool, for any number of requests, keys and accounts:  *)
(* types; preparations exclude each other; the pool stays within its       *)
(* maximum; the answers to a key agree and were listed; and all of it      *)
(* implements AccountPool.                                                 *)
(***************************************************************************)
EXTENDS NoncePool, FiniteSetTheorems, TLAPS

\* Between the list and the addition a preparation knows all of the pool.
Knows(r) == req[r].pc \in {"read", "remove", "build", "add"} /\ ~req[r].poll

\* Who is in the section holds the lock, ...
Locked == \A r \in Req : InSection(r) => lock = r

\* ... so what it has read only shrinks, and the size it checked is a bound.
Bounded ==
  /\ \A r \in Req : Knows(r) => pool \subseteq req[r].known
  /\ \A r \in Req : At(r, "add") => Fits(r)
  /\ Cardinality(pool) <= Max

\* What was answered is what is kept.
Agreed == \A k \in Key : answers[k] \subseteq record[k]

\* Everything known, made, kept or answered has been listed.
Listed ==
  /\ pool \subseteq listed
  /\ \A r \in Req : req[r].known \subseteq listed
  /\ \A r \in Req : At(r, "store") \/ At(r, "reread") => req[r].made
  /\ \A r \in Req : req[r].made => /\ req[r].ask.asked \subseteq listed
                                   /\ req[r].txs \subseteq req[r].ask.asked
  /\ \A k \in Key : \A a \in record[k] : a.asked \subseteq listed /\ a.txs \subseteq a.asked

IInv == TypeOK /\ (~Outlives => Locked /\ Bounded) /\ Agreed /\ Listed
-----------------------------------------------------------------------------
\* The idle record is a request.
LEMMA IdleType == Idle \in Request
BY DEF Idle, Request, NoAsk

\* What a request may ask for is typed by the assumption on Asks.
LEMMA AskType == ASSUME NEW ask \in Asks PROVE ask.key \in Key /\ ask.asked \subseteq Account
BY NoncePoolAssumption

\* A request that has been in the code of a preparation has asked something.
LEMMA Asker ==
  ASSUME TypeOK, NEW r \in Req, ~At(r, "idle"), ~req[r].poll
  PROVE  /\ req[r] \in Request /\ req[r].ask \in Asks
         /\ req[r].ask.key \in Key /\ req[r].ask.asked \subseteq Account
BY AskType DEF TypeOK, At

\* A request of the right shape.
Good(new) ==
  /\ new \in Request
  /\ IF new.poll THEN new.pc \in {"list", "read", "remove"}
     ELSE new.pc = "idle" \/ new.ask \in Asks

\* What the assignments to a request do to it.
LEMMA Moved ==
  ASSUME TypeOK, NEW r \in Req
  PROVE  /\ End(r) => req'[r] = Idle /\ req'[r].pc = "idle" /\ ~req'[r].poll
         /\ \A pc : Go(r, pc) =>
              /\ req'[r].pc = pc /\ req'[r].poll = req[r].poll
              /\ req'[r].ask = req[r].ask /\ req'[r].known = req[r].known
              /\ req'[r].made = req[r].made /\ req'[r].txs = req[r].txs
<1>1. ASSUME End(r) PROVE req'[r] = Idle /\ req'[r].pc = "idle" /\ ~req'[r].poll
  <2>1. req'[r] = Idle
    BY <1>1 DEF TypeOK, End
  <2> QED BY <2>1 DEF Idle
<1>2. ASSUME NEW pc, Go(r, pc)
      PROVE  /\ req'[r].pc = pc /\ req'[r].poll = req[r].poll
             /\ req'[r].ask = req[r].ask /\ req'[r].known = req[r].known
             /\ req'[r].made = req[r].made /\ req'[r].txs = req[r].txs
  <2>1. req[r] \in Request /\ req'[r] = [req[r] EXCEPT !.pc = pc]
    BY <1>2 DEF TypeOK, Go
  <2> QED BY <2>1 DEF Request
<1> QED BY <1>1, <1>2

\* A request that is answered from a record is over.
LEMMA Replayed ==
  ASSUME TypeOK, NEW r \in Req, Replay(r)
  PROVE  req'[r] = Idle /\ req'[r].pc = "idle"
BY Moved DEF Replay, Reply

\* A step of r gives it a record of the right shape and leaves the others.
OneMoves(r) ==
  /\ req' \in [Req -> Request]
  /\ \A q \in Req \ {r} : req'[q] = req[q]
  /\ Good(req'[r])

\* Replacing one record by a good one is a step of that request only.
LEMMA Becomes ==
  ASSUME TypeOK, NEW r \in Req, NEW new, Good(new), req' = [req EXCEPT ![r] = new]
  PROVE  OneMoves(r) /\ req'[r] = new
BY DEF TypeOK, OneMoves, Good

(***************************************************************************)
(* The steps: those of one request, and the others, which leave all of     *)
(* them alone.                                                             *)
(***************************************************************************)
Moves(r) ==
  \/ Poll(r) \/ \E ask \in Asks : Prepare(r, ask)
  \/ Lookup(r) \/ Store(r) \/ Reread(r)
  \/ Acquire(r) \/ ReleaseGet(r) \/ ReleaseDel(r)
  \/ List(r) \/ Read(r) \/ Remove(r) \/ Build(r) \/ Add(r)
  \/ Throw(r) \/ Die(r)

(***************************************************************************)
(* Every step of a request replaces its record by one of the right shape.  *)
(***************************************************************************)
LEMMA Shape ==
  ASSUME TypeOK, NEW r \in Req, Moves(r)
  PROVE  OneMoves(r)
<1>a. Good(req[r])
  BY DEF TypeOK, Good
<1>b. ASSUME NEW pc \in {"idle", "lookup", "lock", "store", "reread"} \cup Preparing,
             Go(r, pc), ~req[r].poll, req[r].ask \in Asks
      PROVE  OneMoves(r)
  <2>1. Good([req[r] EXCEPT !.pc = pc])
    BY <1>a, <1>b DEF Request, Good
  <2>2. req' = [req EXCEPT ![r] = [req[r] EXCEPT !.pc = pc]]
    BY <1>b DEF Go
  <2> QED BY <2>1, <2>2, Becomes
<1>c. CASE End(r)
  <2>1. Good(Idle)
    BY IdleType DEF Good, Idle
  <2> QED BY <1>c, <2>1, Becomes DEF End
<1>d. ASSUME NEW known \in SUBSET Account, ~req[r].poll => req[r].ask \in Asks
      PROVE  Good(Pruned(r, known))
  BY <1>a, <1>d, IdleType DEF Pruned, Good, Request, Preparing, Idle
<1>e. ASSUME req[r].ask \in Asks
      PROVE  Good(Thrown(r))
  BY <1>a, <1>e, IdleType DEF Thrown, Good, Request, Preparing, Idle
<1>1. CASE Poll(r)
  <2>1. Good([Idle EXCEPT !.pc = "list", !.poll = TRUE])
    BY DEF Idle, Request, Preparing, Good
  <2> QED BY <1>1, <2>1, Becomes DEF Poll
<1>2. CASE \E ask \in Asks : Prepare(r, ask)
  <2>1. \A ask \in Asks : Good([Idle EXCEPT !.pc = "lookup", !.ask = ask])
    BY DEF Idle, Request, Preparing, Good
  <2> QED BY <1>2, <2>1, Becomes DEF Prepare
<1>3. CASE Lookup(r)
  BY <1>3, <1>a, <1>b, <1>c DEF Lookup, Replay, Reply, At, Good
<1>4. CASE Store(r)
  BY <1>4, <1>a, <1>b, <1>c DEF Store, Reply, At, Good
<1>5. CASE Reread(r)
  BY <1>5, <1>c DEF Reread, Replay, Reply
<1>6. CASE Acquire(r)
  BY <1>6, <1>a, <1>b, <1>c DEF Acquire, At, Preparing, Good
<1>7. CASE ReleaseGet(r)
  BY <1>7, <1>a, <1>b, <1>c DEF ReleaseGet, Released, At, Preparing, Good
<1>8. CASE ReleaseDel(r)
  BY <1>8, <1>a, <1>b, <1>c DEF ReleaseDel, Released, At, Preparing, Good
<1>9. CASE List(r)
  <2>1. Good([req[r] EXCEPT !.pc = "read", !.known = pool])
    BY <1>9, <1>a DEF List, At, TypeOK, Good, Request, Preparing
  <2>2. Good(Pruned(r, {}))
    BY <1>9, <1>a, <1>d DEF List, At, Good
  <2> QED BY <1>9, <2>1, <2>2, Becomes DEF List
<1>10. CASE Read(r)
  <2>1. \A gone \in SUBSET Account : Good([req[r] EXCEPT !.pc = "remove", !.gone = gone])
    BY <1>10, <1>a DEF Read, At, Good, Request, Preparing
  <2>2. req[r].known \subseteq Account /\ Good(Pruned(r, req[r].known))
    BY <1>10, <1>a, <1>d DEF Read, At, Good, Request
  <2>3. PICK late \in SUBSET (req[r].known \cap landed) :
          req' = [req EXCEPT ![r] =
                    IF (req[r].known \ landed) \cup late = {} THEN Pruned(r, req[r].known)
                    ELSE [req[r] EXCEPT !.pc = "remove", !.gone = (req[r].known \ landed) \cup late]]
    BY <1>10 DEF Read
  <2>4. (req[r].known \ landed) \cup late \in SUBSET Account
    BY <2>2
  <2> QED BY <2>1, <2>2, <2>3, <2>4, Becomes
<1>11. CASE Remove(r)
  <2>1. Good(Pruned(r, req[r].known \ req[r].gone))
    BY <1>11, <1>a, <1>d DEF Remove, At, Good, Request
  <2> QED BY <1>11, <2>1, Becomes DEF Remove
<1>12. CASE Build(r)
  <2>1. Good([req[r] EXCEPT !.pc = "add"]) /\ Good(Thrown(r))
    BY <1>12, <1>a, <1>e DEF Build, At, Good, Request, Preparing
  <2> QED BY <1>12, <2>1, Becomes DEF Build
<1>13. CASE Add(r)
  <2> DEFINE new == req[r].ask.asked \ req[r].known
  <2>1. Good([req[r] EXCEPT !.pc = "get", !.known = {}, !.made = TRUE, !.txs = new])
    BY <1>13, <1>a, Asker DEF Add, At, Good, Request, Preparing
  <2> QED BY <1>13, <2>1, Becomes DEF Add
<1>14. CASE Throw(r)
  BY <1>14, <1>a, <1>e, Becomes DEF Throw, InSection, Good, Preparing
<1>15. CASE Die(r)
  BY <1>15, <1>c DEF Die
<1> QED BY <1>1, <1>2, <1>3, <1>4, <1>5, <1>6, <1>7, <1>8, <1>9, <1>10, <1>11, <1>12,
           <1>13, <1>14, <1>15 DEF Moves
-----------------------------------------------------------------------------
\* Every step keeps the types.
LEMMA TypeInductive == TypeOK /\ [Next]_vars => TypeOK'
<1> SUFFICES ASSUME TypeOK, [Next]_vars PROVE TypeOK'
  OBVIOUS
<1> USE DEF Answer, history
<1>1. ASSUME NEW r \in Req, Moves(r) PROVE TypeOK'
  <2>1. OneMoves(r)
    BY <1>1, Shape
  <2>2. /\ req' \in [Req -> Request]
        /\ \A q \in Req : IF req'[q].poll THEN req'[q].pc \in {"list", "read", "remove"}
                          ELSE req'[q].pc = "idle" \/ req'[q].ask \in Asks
    BY <2>1 DEF OneMoves, Good, TypeOK
  <2>a. /\ req[r].known \subseteq Account /\ req[r].txs \subseteq Account
    BY DEF TypeOK, Request
  <2>b. ASSUME ~At(r, "idle"), ~req[r].poll
        PROVE  req[r].ask.key \in Key /\ req[r].ask.asked \subseteq Account
    BY <2>b, Asker
  <2>c. ASSUME ~At(r, "idle"), ~req[r].poll PROVE Made(r) \in Answer
    BY <2>a, <2>b, <2>c DEF Made
  <2>d. At(r, "lookup") \/ At(r, "store") \/ At(r, "reread") \/ At(r, "add")
          => ~At(r, "idle") /\ ~req[r].poll
    BY DEF At, TypeOK
  <2>e. ASSUME ~At(r, "idle"), ~req[r].poll, NEW a \in Answer, Reply(r, a)
        PROVE  /\ answers' \in [Key -> SUBSET Answer] /\ handed' \subseteq Account
               /\ listed' \subseteq Account
    BY <2>b, <2>e DEF Reply, TypeOK
  <2>f. ASSUME ~At(r, "idle"), ~req[r].poll, Replay(r)
        PROVE  /\ answers' \in [Key -> SUBSET Answer] /\ handed' \subseteq Account
               /\ listed' \subseteq Account
    <3>1. Kept(r) \subseteq Answer
      BY <2>b, <2>f DEF Kept, TypeOK
    <3> QED BY <2>e, <2>f, <3>1 DEF Replay, TypeOK
  <2>3. CASE Store(r)
    <3>0. At(r, "store") /\ UNCHANGED <<pool, lock, landed>>
      BY <2>3 DEF Store
    <3>1. CASE Kept(r) = {}
      <4>1. record' = [record EXCEPT ![req[r].ask.key] = {Made(r)}] /\ Reply(r, Made(r))
        BY <2>3, <3>1 DEF Store
      <4>2. Made(r) \in Answer
        BY <2>c, <2>d, <3>0
      <4>3. /\ record' \in [Key -> SUBSET Answer]
            /\ \A k \in Key : \A a, b \in record'[k] : a = b
        <5> HIDE DEF Answer
        <5>1. record' \in [Key -> SUBSET Answer]
          BY <4>1, <4>2 DEF TypeOK
        <5>2. \A k \in Key : record'[k] = record[k] \/ record'[k] = {Made(r)}
          BY <4>1 DEF TypeOK
        <5> QED BY <5>1, <5>2 DEF TypeOK
      <4>4. /\ answers' \in [Key -> SUBSET Answer] /\ handed' \subseteq Account
            /\ listed' \subseteq Account
        BY <2>d, <2>e, <3>0, <4>1, <4>2
      <4> QED BY <2>2, <3>0, <4>3, <4>4 DEF TypeOK
    <3>2. CASE Kept(r) # {}
      BY <2>2, <2>3, <3>2 DEF Store, TypeOK
    <3> QED BY <3>1, <3>2
  <2>4. CASE Lookup(r)
    BY <2>2, <2>4, <2>d, <2>f DEF Lookup, TypeOK
  <2>5. CASE Reread(r)
    BY <2>2, <2>5, <2>d, <2>f DEF Reread, TypeOK
  <2>6. CASE Add(r)
    BY <2>2, <2>6, <2>b, <2>d DEF Add, TypeOK
  <2>7. CASE Remove(r)
    BY <2>2, <2>7 DEF Remove, TypeOK
  <2>8. CASE \/ Poll(r) \/ \E ask \in Asks : Prepare(r, ask)
             \/ Acquire(r) \/ ReleaseGet(r) \/ ReleaseDel(r)
             \/ List(r) \/ Read(r) \/ Build(r) \/ Throw(r) \/ Die(r)
    BY <2>2, <2>8 DEF Poll, Prepare, Acquire, ReleaseGet, ReleaseDel, List, Read, Build,
                      Throw, Die, TypeOK
  <2> QED BY <1>1, <2>3, <2>4, <2>5, <2>6, <2>7, <2>8 DEF Moves
<1>2. CASE LockExpires
  BY <1>2 DEF LockExpires, TypeOK
<1>3. CASE \E k \in Key : Forget(k)
  BY <1>3 DEF Forget, TypeOK
<1>4. CASE \E a \in Account : Land(a)
  BY <1>4 DEF Land, TypeOK
<1>5. CASE UNCHANGED vars
  BY <1>5 DEF vars, TypeOK
<1> QED BY <1>1, <1>2, <1>3, <1>4, <1>5 DEF Next, Moves
-----------------------------------------------------------------------------
(***************************************************************************)
(* The lock is taken when it is free and given back by its holder, so that *)
(* the holder is the only one in the section.                              *)
(***************************************************************************)
LEMMA LockedInductive ==
  ASSUME TypeOK, Locked, ~Outlives, [Next]_vars
  PROVE  Locked'
<1>1. ASSUME NEW r \in Req, Moves(r) PROVE Locked'
  <2>1. \A q \in Req \ {r} : InSection(q)' = InSection(q)
    BY <1>1, Shape DEF OneMoves, InSection
  <2>a. req \in [Req -> Request]
    BY DEF TypeOK
  <2>2. CASE Acquire(r)
    <3>1. CASE lock = NoReq
      <4>1. lock' = r /\ \A q \in Req : ~InSection(q)
        BY <2>2, <3>1, NoncePoolAssumption DEF Acquire, Locked
      <4> QED BY <2>1, <4>1 DEF Locked
    <3>2. CASE lock # NoReq
      <4>1. ~InSection(r)' /\ lock' = lock
        BY <2>2, <3>2, Moved DEF Acquire, InSection, Preparing
      <4> QED BY <2>1, <4>1 DEF Locked
    <3> QED BY <3>1, <3>2
  <2>3. CASE ReleaseDel(r)
    <3>1. InSection(r) /\ lock = r
      BY <2>3 DEF ReleaseDel, InSection, At, Preparing, TypeOK, Locked
    <3>2. ~InSection(r)'
      BY <2>3, Moved DEF ReleaseDel, Released, InSection, Preparing
    <3> QED BY <2>1, <3>1, <3>2 DEF Locked
  <2>4. CASE \/ Poll(r) \/ (\E ask \in Asks : Prepare(r, ask)) \/ Lookup(r) \/ Store(r)
             \/ Reread(r) \/ ReleaseGet(r) \/ List(r) \/ Read(r) \/ Remove(r)
             \/ Build(r) \/ Add(r) \/ Throw(r) \/ Die(r)
    <3>1. lock' = lock
      BY <2>4 DEF Poll, Prepare, Lookup, Store, Reread, ReleaseGet, List, Read, Remove,
                  Build, Add, Throw, Die
    <3>2. CASE \/ Poll(r) \/ (\E ask \in Asks : Prepare(r, ask)) \/ Lookup(r) \/ Store(r)
               \/ Reread(r) \/ Die(r)
      <4>1. CASE Poll(r)
        <5>1. req'[r].poll
          BY <2>a, <4>1 DEF Poll
        <5> QED BY <2>1, <3>1, <5>1 DEF Locked, InSection
      <4>2. CASE \E ask \in Asks : Prepare(r, ask)
        <5>1. req'[r].pc = "lookup"
          BY <2>a, <4>2 DEF Prepare, Idle
        <5> QED BY <2>1, <3>1, <5>1 DEF Locked, InSection, Preparing
      <4>3. CASE Lookup(r) \/ Store(r) \/ Reread(r) \/ Die(r)
        <5>1. req'[r].pc \in {"idle", "lock", "reread"}
          BY <4>3, Moved, Replayed DEF Lookup, Store, Reread, Reply, Die
        <5> QED BY <2>1, <3>1, <5>1 DEF Locked, InSection, Preparing
      <4> QED BY <3>2, <4>1, <4>2, <4>3
    <3>3. CASE ReleaseGet(r) \/ Build(r) \/ Add(r) \/ Throw(r)
      <4>1. InSection(r)
        BY <3>3 DEF ReleaseGet, Build, Add, Throw, InSection, At, Preparing, TypeOK
      <4> QED BY <2>1, <3>1, <4>1 DEF Locked
    <3>4. CASE List(r) \/ Read(r) \/ Remove(r)
      <4>1. req[r].pc \in Preparing
        BY <3>4 DEF List, Read, Remove, At, Preparing
      <4>2. ASSUME req[r].poll PROVE ~InSection(r)'
        <5>0. req[r] \in Request /\ \A known : Pruned(r, known) = Idle
          BY <2>a, <4>2 DEF Pruned
        <5>1. CASE List(r)
          <6>1. req'[r] = Idle \/ req'[r] = [req[r] EXCEPT !.pc = "read", !.known = pool]
            BY <2>a, <5>0, <5>1 DEF List
          <6>2. Idle.pc = "idle"
            BY DEF Idle
          <6>3. req'[r].pc = "idle" \/ req'[r].poll
            BY <4>2, <5>0, <6>1, <6>2 DEF Request
          <6> QED BY <6>3 DEF InSection, Preparing
        <5>2. CASE Read(r)
          <6>1. \/ req'[r] = Idle
                \/ \E gone : req'[r] = [req[r] EXCEPT !.pc = "remove", !.gone = gone]
            BY <2>a, <5>0, <5>2 DEF Read
          <6>2. Idle.pc = "idle"
            BY DEF Idle
          <6>3. req'[r].pc = "idle" \/ req'[r].poll
            BY <4>2, <5>0, <6>1, <6>2 DEF Request
          <6> QED BY <6>3 DEF InSection, Preparing
        <5>3. CASE Remove(r)
          BY <2>a, <5>0, <5>3 DEF Remove, Idle, InSection, Preparing
        <5> QED BY <3>4, <5>1, <5>2, <5>3
      <4> QED BY <2>1, <3>1, <4>1, <4>2 DEF Locked, InSection
    <3> QED BY <2>4, <3>2, <3>3, <3>4
  <2> QED BY <1>1, <2>2, <2>3, <2>4 DEF Moves
<1>2. CASE LockExpires
  BY <1>2 DEF LockExpires, Locked, InSection
<1>3. CASE (\E k \in Key : Forget(k)) \/ (\E a \in Account : Land(a)) \/ UNCHANGED vars
  BY <1>3 DEF Forget, Land, vars, Locked, InSection
<1> QED BY <1>1, <1>2, <1>3 DEF Next, Moves

(***************************************************************************)
(* What a preparation has read of the pool stays a superset of it, since   *)
(* only other preparations add.                                            *)
(***************************************************************************)
LEMMA BoundedInductive ==
  ASSUME TypeOK, Locked, Bounded, ~Outlives, [Next]_vars
  PROVE  Bounded'
<1>a. req \in [Req -> Request]
  BY DEF TypeOK
<1>b. \A s \in SUBSET Account : IsFiniteSet(s) /\ Cardinality(s) \in Nat
  BY NoncePoolAssumption, FS_Subset, FS_CardinalityType
<1>c. \A q \in Req : Knows(q) => InSection(q)
  BY DEF Knows, InSection, Preparing
<1>d. \A q \in Req : At(q, "add") => Knows(q)
  BY DEF Knows, At, TypeOK
<1>1. ASSUME NEW r \in Req, Moves(r) PROVE Bounded'
  <2>1. /\ \A q \in Req \ {r} : req'[q] = req[q]
        /\ \A q \in Req \ {r} : Knows(q)' = Knows(q) /\ At(q, "add")' = At(q, "add")
                                /\ Fits(q)' = Fits(q)
    BY <1>1, Shape DEF OneMoves, Knows, At, Fits
  <2>2. CASE Add(r)
    <3>1. Knows(r) /\ Fits(r) /\ pool \subseteq req[r].known
      BY <2>2, <1>d DEF Add, Bounded
    <3>2. \A q \in Req : Knows(q) => q = r
      BY <1>c, <3>1 DEF Locked
    <3>3. /\ pool' \subseteq req[r].known \cup req[r].ask.asked
          /\ req'[r].pc = "get"
      BY <1>a, <2>2, <3>1 DEF Add
    <3>4. req[r].known \cup req[r].ask.asked \in SUBSET Account
      BY <2>2, Asker DEF Add, At, Request, TypeOK
    <3>5. Cardinality(pool') <= Cardinality(req[r].known \cup req[r].ask.asked)
      BY <1>b, <3>3, <3>4, FS_Subset
    <3>6. Cardinality(pool') <= Max
      <4>1. Cardinality(req[r].known \cup req[r].ask.asked) \in Min..Max
        BY <3>1 DEF Fits
      <4>2. pool' \in SUBSET Account
        BY <3>3, <3>4
      <4> QED BY <1>b, <3>4, <3>5, <4>1, <4>2, NoncePoolAssumption
    <3>7. ~Knows(r)' /\ ~At(r, "add")'
      BY <3>3 DEF Knows, At
    <3>8. \A q \in Req : ~Knows(q)' /\ ~At(q, "add")'
      BY <1>d, <2>1, <3>2, <3>7
    <3> QED BY <3>6, <3>8 DEF Bounded
  <2>3. ASSUME pool' \subseteq pool,
               Knows(r)' => pool' \subseteq req'[r].known,
               At(r, "add")' => Fits(r)'
        PROVE  Bounded'
    <3>1. Cardinality(pool') <= Max
      <4>1. pool \in SUBSET Account /\ pool' \in SUBSET Account
        BY <2>3 DEF TypeOK
      <4>2. Cardinality(pool') <= Cardinality(pool)
        BY <1>b, <2>3, <4>1, FS_Subset
      <4> QED BY <1>b, <4>1, <4>2, NoncePoolAssumption DEF Bounded
    <3>2. \A q \in Req : Knows(q)' => pool' \subseteq req'[q].known
      BY <2>1, <2>3 DEF Bounded
    <3> QED BY <2>1, <2>3, <3>1, <3>2 DEF Bounded
  <2>4. CASE List(r)
    <3>1. pool' = pool /\ ~At(r, "add")' /\ (Knows(r)' => req'[r].known = pool)
      BY <1>a, <2>4 DEF List, Pruned, Knows, At, Idle
    <3> QED BY <2>3, <3>1
  <2>5. CASE Read(r)
    <3>1. /\ pool' = pool /\ ~At(r, "add")' /\ req[r].pc = "read"
          /\ Knows(r)' => ~req[r].poll /\ req'[r].known = req[r].known
      BY <1>a, <2>5 DEF Read, Pruned, Knows, At, Idle
    <3> QED BY <2>3, <3>1 DEF Bounded, Knows
  <2>6. CASE Remove(r)
    <3>1. /\ pool' = pool \ req[r].gone /\ ~At(r, "add")' /\ req[r].pc = "remove"
          /\ Knows(r)' => ~req[r].poll /\ req'[r].known = req[r].known \ req[r].gone
      BY <1>a, <2>6 DEF Remove, Pruned, Knows, At, Idle
    <3> QED BY <2>3, <3>1 DEF Bounded, Knows
  <2>7. CASE Build(r)
    <3>1. /\ pool' = pool /\ req[r].pc = "build" /\ ~req[r].poll
          /\ Knows(r)' => req'[r].known = req[r].known /\ req'[r].ask = req[r].ask /\ Fits(r)
      BY <1>a, <2>7 DEF Build, Thrown, Knows, At, Idle, TypeOK
    <3>2. At(r, "add")' => Knows(r)'
      BY <1>a, <2>7, <3>1 DEF Build, Thrown, Knows, At, Idle
    <3> QED BY <2>3, <3>1, <3>2 DEF Bounded, Knows, Fits
  <2>8. CASE \/ Poll(r) \/ (\E ask \in Asks : Prepare(r, ask)) \/ Lookup(r) \/ Store(r)
             \/ Reread(r) \/ Acquire(r) \/ ReleaseGet(r) \/ ReleaseDel(r) \/ Throw(r)
             \/ Die(r)
    <3>1. pool' = pool
      BY <2>8 DEF Poll, Prepare, Lookup, Store, Reread, Acquire, ReleaseGet, ReleaseDel,
                  Throw, Die
    <3>2. req'[r].pc \notin {"read", "remove", "build", "add"}
      <4>1. CASE Poll(r) \/ \E ask \in Asks : Prepare(r, ask)
        BY <1>a, <4>1 DEF Poll, Prepare, Idle
      <4>2. CASE Lookup(r) \/ Store(r) \/ Reread(r)
        BY <4>2, Moved, Replayed DEF Lookup, Store, Reread, Reply
      <4>3. CASE Acquire(r) \/ ReleaseGet(r) \/ ReleaseDel(r) \/ Die(r)
        BY <4>3, Moved DEF Acquire, ReleaseGet, ReleaseDel, Released, Die
      <4>4. CASE Throw(r)
        BY <1>a, <4>4 DEF Throw, Thrown, Idle
      <4> QED BY <2>8, <4>1, <4>2, <4>3, <4>4
    <3> QED BY <2>3, <3>1, <3>2 DEF Knows, At
  <2> QED BY <1>1, <2>2, <2>4, <2>5, <2>6, <2>7, <2>8 DEF Moves
<1>2. CASE LockExpires \/ (\E k \in Key : Forget(k)) \/ (\E a \in Account : Land(a))
           \/ UNCHANGED vars
  BY <1>2 DEF LockExpires, Forget, Land, vars, Bounded, Knows, At, Fits
<1> QED BY <1>1, <1>2 DEF Next, Moves
-----------------------------------------------------------------------------
(***************************************************************************)
(* Answers are given from the record, or become the record; what is in it  *)
(* was listed when it was made.                                            *)
(***************************************************************************)
LEMMA AnswersInductive ==
  ASSUME TypeOK, Agreed, Listed, [Next]_vars
  PROVE  Agreed' /\ Listed'
<1>a. /\ req \in [Req -> Request] /\ record \in [Key -> SUBSET Answer]
      /\ answers \in [Key -> SUBSET Answer]
  BY DEF TypeOK
\* What a step of r has to keep, when the store's lists and records stay.
<1>b. ASSUME NEW r \in Req, OneMoves(r),
             pool' \subseteq listed', listed \subseteq listed',
             req'[r].known \subseteq listed',
             At(r, "store")' \/ At(r, "reread")' => req'[r].made,
             req'[r].made => req'[r].ask.asked \subseteq listed'
                             /\ req'[r].txs \subseteq req'[r].ask.asked,
             \A k \in Key : \A a \in record'[k] :
               a.asked \subseteq listed' /\ a.txs \subseteq a.asked
      PROVE  Listed'
  BY <1>b DEF OneMoves, Listed, At
<1>1. ASSUME NEW r \in Req, Moves(r) PROVE Agreed' /\ Listed'
  <2>1. OneMoves(r)
    BY <1>1, Shape
  <2>a. Idle.known = {} /\ ~Idle.made
    BY DEF Idle
  <2>b. ASSUME ~At(r, "idle"), ~req[r].poll, Replay(r), UNCHANGED <<pool, record>>
        PROVE  Agreed' /\ Listed'
    <3>1. req'[r] = Idle /\ req'[r].pc = "idle" /\ listed' = listed
      BY <2>b, Replayed DEF Replay, Reply, history
    <3>2. Agreed'
      <4>1. req[r].ask.key \in Key
        BY <2>b, Asker
      <4>2. CASE UNCHANGED answers
        BY <2>b, <4>2 DEF Agreed
      <4>3. CASE \E a \in Kept(r) : Reply(r, a)
        BY <1>a, <2>b, <4>1, <4>3 DEF Reply, Kept, Agreed
      <4> QED BY <2>b, <4>2, <4>3 DEF Replay, history
    <3>3. Listed'
      BY <1>b, <2>1, <2>a, <2>b, <3>1 DEF Listed, At
    <3> QED BY <3>2, <3>3
  <2>2. CASE Lookup(r)
    <3>1. CASE Kept(r) # {}
      BY <2>2, <2>b, <3>1 DEF Lookup, At, TypeOK
    <3>2. CASE Kept(r) = {}
      <4>1. UNCHANGED <<pool, record, listed, answers>> /\ Go(r, "lock")
        BY <2>2, <3>2 DEF Lookup, history
      <4> QED BY <1>b, <2>1, <4>1, Moved DEF Agreed, Listed, At
    <3> QED BY <3>1, <3>2
  <2>3. CASE Reread(r)
    BY <2>3, <2>b DEF Reread, At, TypeOK
  <2>4. CASE Store(r)
    <3>0. /\ req[r].made /\ req[r].ask.key \in Key /\ pool' = pool
          /\ req[r].ask.asked \subseteq listed /\ req[r].txs \subseteq req[r].ask.asked
      BY <2>4, Asker DEF Store, At, TypeOK, Listed
    <3>1. CASE Kept(r) = {}
      <4>1. /\ record' = [record EXCEPT ![req[r].ask.key] = {Made(r)}]
            /\ answers' = [answers EXCEPT ![req[r].ask.key] = @ \cup {Made(r)}]
            /\ listed' = listed /\ End(r)
        BY <2>4, <3>1 DEF Store, Reply
      <4>2. answers[req[r].ask.key] = {}
        BY <3>0, <3>1 DEF Agreed, Kept
      <4>3. \A k \in Key : /\ (record'[k] = record[k] \/ record'[k] = {Made(r)})
                            /\ answers'[k] \subseteq record'[k]
        BY <1>a, <3>0, <4>1, <4>2 DEF Agreed
      <4>4. Made(r).asked = req[r].ask.asked /\ Made(r).txs = req[r].txs
        BY DEF Made
      <4>5. req'[r] = Idle /\ req'[r].pc = "idle"
        BY <4>1, Moved
      <4>6. \A k \in Key : \A a \in record'[k] :
              a.asked \subseteq listed' /\ a.txs \subseteq a.asked
        BY <3>0, <4>1, <4>3, <4>4 DEF Listed
      <4>7. Listed'
        BY <1>b, <2>1, <2>a, <3>0, <4>1, <4>5, <4>6 DEF Listed, At
      <4> QED BY <4>3, <4>7 DEF Agreed
    <3>2. CASE Kept(r) # {}
      <4>1. UNCHANGED <<pool, record, listed, answers>> /\ Go(r, "reread")
        BY <2>4, <3>2 DEF Store, history
      <4> QED BY <1>b, <2>1, <3>0, <4>1, Moved DEF Agreed, Listed, At
    <3> QED BY <3>1, <3>2
  <2>5. CASE Acquire(r) \/ ReleaseGet(r) \/ ReleaseDel(r) \/ Die(r)
    <3>1. UNCHANGED <<pool, record, listed, answers>>
      BY <2>5 DEF Acquire, ReleaseGet, ReleaseDel, Die, history
    <3>2. \/ req'[r] = Idle /\ req'[r].pc = "idle"
          \/ /\ req'[r].known = req[r].known /\ req'[r].made = req[r].made
             /\ req'[r].ask = req[r].ask /\ req'[r].txs = req[r].txs
             /\ req'[r].pc = "store" => req[r].made
             /\ req'[r].pc # "reread"
      <4>1. CASE Acquire(r) \/ Die(r)
        BY <4>1, Moved DEF Acquire, Die
      <4>2. CASE ReleaseGet(r) \/ ReleaseDel(r)
        BY <4>2, Moved DEF ReleaseGet, ReleaseDel, Released
      <4> QED BY <2>5, <4>1, <4>2
    <3> QED BY <1>b, <2>1, <2>a, <3>1, <3>2 DEF Agreed, Listed, At
  <2>6. CASE Add(r)
    <3>1. /\ listed' = listed \cup (req[r].ask.asked \ req[r].known)
          /\ pool' = pool \cup (req[r].ask.asked \ req[r].known)
          /\ UNCHANGED <<record, answers>>
      BY <2>6 DEF Add
    <3>2. /\ req'[r].known = {} /\ req'[r].ask = req[r].ask /\ req'[r].pc = "get"
          /\ req'[r].txs = req[r].ask.asked \ req[r].known
      <4>1. req[r] \in Request
        BY <1>a
      <4> QED BY <1>a, <2>6, <4>1 DEF Add, Request
    <3>3. req[r].known \subseteq listed /\ pool \subseteq listed
      BY DEF Listed
    <3>4. pool' \subseteq listed' /\ req[r].ask.asked \subseteq listed'
      BY <3>1, <3>3
    <3>5. \A k \in Key : \A a \in record'[k] :
            a.asked \subseteq listed' /\ a.txs \subseteq a.asked
      BY <3>1 DEF Listed
    <3> QED BY <1>b, <2>1, <3>1, <3>2, <3>4, <3>5 DEF Agreed, At
  <2>7. CASE \/ Poll(r) \/ (\E ask \in Asks : Prepare(r, ask)) \/ List(r) \/ Read(r)
             \/ Remove(r) \/ Build(r) \/ Throw(r)
    <3>1. UNCHANGED <<record, listed, answers>> /\ pool' \subseteq pool
      BY <2>7 DEF Poll, Prepare, List, Read, Remove, Build, Throw, history
    <3>a. req[r] \in Request
      BY <1>a
    <3>b. \A known \in SUBSET Account :
            /\ Pruned(r, known).known \subseteq known
            /\ Pruned(r, known).made => /\ req[r].made /\ Pruned(r, known).ask = req[r].ask
                                        /\ Pruned(r, known).txs = req[r].txs
            /\ Pruned(r, known).pc \notin {"store", "reread"}
      BY <3>a DEF Pruned, Idle, Request
    <3>2. /\ req'[r].known \subseteq req[r].known \cup pool
          /\ req'[r].made => /\ req[r].made /\ req'[r].ask = req[r].ask
                             /\ req'[r].txs = req[r].txs
          /\ req'[r].pc \notin {"store", "reread"}
      <4>1. CASE Poll(r) \/ \E ask \in Asks : Prepare(r, ask)
        BY <1>a, <4>1 DEF Poll, Prepare, Idle
      <4>2. CASE List(r)
        <5>1. \/ req'[r] = Pruned(r, {})
              \/ req'[r] = [req[r] EXCEPT !.pc = "read", !.known = pool]
          BY <1>a, <4>2 DEF List
        <5>2. CASE req'[r] = Pruned(r, {})
          BY <3>b, <5>2
        <5>3. CASE req'[r] = [req[r] EXCEPT !.pc = "read", !.known = pool]
          BY <3>a, <5>3 DEF Request
        <5> QED BY <5>1, <5>2, <5>3
      <4>3. CASE Read(r)
        <5>1. \/ req'[r] = Pruned(r, req[r].known)
              \/ \E gone : req'[r] = [req[r] EXCEPT !.pc = "remove", !.gone = gone]
          BY <1>a, <4>3 DEF Read
        <5>2. CASE req'[r] = Pruned(r, req[r].known)
          BY <3>a, <3>b, <5>2 DEF Request
        <5>3. CASE \E gone : req'[r] = [req[r] EXCEPT !.pc = "remove", !.gone = gone]
          BY <3>a, <5>3 DEF Request
        <5> QED BY <5>1, <5>2, <5>3
      <4>4. CASE Remove(r)
        <5>1. req'[r] = Pruned(r, req[r].known \ req[r].gone)
          BY <1>a, <4>4 DEF Remove
        <5>2. req[r].known \ req[r].gone \in SUBSET Account
          BY <3>a DEF Request
        <5> QED BY <3>b, <5>1, <5>2
      <4>5. CASE Build(r) \/ Throw(r)
        <5>1. req'[r] = [req[r] EXCEPT !.pc = "add"] \/ req'[r] = Thrown(r)
          BY <1>a, <4>5 DEF Build, Throw
        <5> QED BY <3>a, <5>1 DEF Thrown, Idle, Request
      <4> QED BY <2>7, <4>1, <4>2, <4>3, <4>4, <4>5
    <3> QED BY <1>b, <2>1, <3>1, <3>2 DEF Agreed, Listed, At
  <2> QED BY <1>1, <2>2, <2>3, <2>4, <2>5, <2>6, <2>7 DEF Moves
<1>2. CASE \E k \in Key : Forget(k)
  BY <1>a, <1>2 DEF Forget, Agreed, Listed, At
<1>3. CASE LockExpires \/ (\E a \in Account : Land(a)) \/ UNCHANGED vars
  BY <1>3 DEF LockExpires, Land, vars, history, Agreed, Listed, At
<1> QED BY <1>1, <1>2, <1>3 DEF Next, Moves
-----------------------------------------------------------------------------
\* At first the pool is empty and nobody is at work.
LEMMA InitIInv == Init => IInv
<1> SUFFICES ASSUME Init PROVE IInv
  OBVIOUS
<1>1. TypeOK
  BY IdleType DEF Init, TypeOK, Idle, Answer
<1>2. Locked
  BY DEF Init, Locked, InSection, Idle, Preparing
<1>3. Bounded
  BY FS_EmptySet, NoncePoolAssumption DEF Init, Bounded, Knows, At, Idle
<1>4. Agreed /\ Listed
  BY DEF Init, Agreed, Listed, At, Idle
<1> QED BY <1>1, <1>2, <1>3, <1>4 DEF IInv

\* Every step keeps all parts of the invariant.
LEMMA IInvInductive == IInv /\ [Next]_vars => IInv'
BY TypeInductive, LockedInductive, BoundedInductive, AnswersInductive DEF IInv

(***************************************************************************)
(* The inductive invariant holds in every reachable state.                 *)
(***************************************************************************)
THEOREM Invariance == Spec => []IInv
BY InitIInv, IInvInductive, PTL DEF Spec

(***************************************************************************)
(* Every state has the declared types.                                     *)
(***************************************************************************)
THEOREM TypeCorrect == Spec => []TypeOK
<1>1. IInv => TypeOK
  BY DEF IInv
<1> QED BY <1>1, Invariance, PTL

(***************************************************************************)
(* As long as no holder outlives its lock, preparations of one wallet's    *)
(* pool exclude each other, whatever is killed or lost.                    *)
(***************************************************************************)
THEOREM Exclusive ==
  ASSUME ~Outlives
  PROVE  Spec => []OnePreparer
<1>1. IInv => OnePreparer
  BY DEF IInv, OnePreparer, Locked
<1> QED BY <1>1, Invariance, PTL

(***************************************************************************)
(* Under the same condition the pool never outgrows its maximum.           *)
(***************************************************************************)
THEOREM WithinMax ==
  ASSUME ~Outlives
  PROVE  Spec => []PoolWithinMax
<1>1. IInv => PoolWithinMax
  BY DEF IInv, PoolWithinMax, Bounded
<1> QED BY <1>1, Invariance, PTL

(***************************************************************************)
(* Whatever outlives its lock, all answers to a key are the same.          *)
(***************************************************************************)
THEOREM Idempotent == Spec => []AnswersAgree
<1>1. IInv => AnswersAgree
  BY DEF IInv, AnswersAgree, Agreed, TypeOK
<1> QED BY <1>1, Invariance, PTL

(***************************************************************************)
(* And no device is told of an account that the pool never listed.         *)
(***************************************************************************)
THEOREM ListedFirst == Spec => []AnsweredWasListed
<1>1. IInv => AnsweredWasListed
  BY DEF IInv, AnsweredWasListed, Agreed, Listed
<1> QED BY <1>1, Invariance, PTL
-----------------------------------------------------------------------------
(***************************************************************************)
(* The refinement. Who adds to the pool knows all of it, and has checked   *)
(* that it fits.                                                           *)
(***************************************************************************)
LEMMA AddJoins ==
  ASSUME IInv, ~Outlives, NEW r \in Req, Add(r)
  PROVE  Promised!Join
<1> DEFINE new == req[r].ask.asked \ req[r].known
<1>1. pool' = pool \cup new /\ listed' = listed \cup new /\ answers' = answers
  BY DEF Add
<1>2. TypeOK /\ Fits(r) /\ pool \subseteq req[r].known
  BY DEF IInv, Bounded, Add, Knows, At, TypeOK
<1>3. req[r].known \cup req[r].ask.asked \in SUBSET Account
  BY <1>2, Asker DEF Add, At, Request, TypeOK
<1>4. Cardinality(pool \cup new) <= Max
  <2>1. IsFiniteSet(req[r].known \cup req[r].ask.asked)
    BY <1>3, NoncePoolAssumption, FS_Subset
  <2>2. /\ IsFiniteSet(pool \cup new)
        /\ Cardinality(pool \cup new) <= Cardinality(req[r].known \cup req[r].ask.asked)
    BY <1>2, <2>1, FS_Subset
  <2>3. Cardinality(req[r].known \cup req[r].ask.asked) \in Min..Max
    BY <1>2 DEF Fits
  <2> QED BY <2>1, <2>2, <2>3, FS_CardinalityType, NoncePoolAssumption
<1>5. new \in SUBSET Account
  BY <1>3
<1>6. Promised!Cardinality(pool \cup new) = Cardinality(pool \cup new)
  BY DEF Cardinality, Promised!Cardinality
<1> QED BY <1>1, <1>4, <1>5, <1>6 DEF Promised!Join

\* An answer is the kept one, or becomes it; it was listed when it was made.
LEMMA ReplyAnswers ==
  ASSUME IInv, IInv', NEW r \in Req, ~At(r, "idle"), ~req[r].poll, NEW a, Reply(r, a),
         a \in record'[req[r].ask.key], pool' = pool
  PROVE  Promised!Reply(req[r].ask.key)
<1> DEFINE k == req[r].ask.key
<1>1. k \in Key
  BY Asker DEF IInv
<1>2. /\ answers' = [answers EXCEPT ![k] = answers[k] \cup {a}] /\ listed' = listed
      /\ answers \in [Key -> SUBSET Answer]
  BY DEF Reply, IInv, TypeOK
<1>3. a \in Answer /\ a.asked \subseteq listed /\ a.txs \subseteq a.asked
  BY <1>1, <1>2 DEF IInv, Listed, TypeOK
<1>4. answers'[k] \subseteq record'[k] /\ \A b \in record'[k] : b = a
  BY <1>1 DEF IInv, Agreed, TypeOK
<1>5. answers[k] \subseteq {a} /\ answers' = [answers EXCEPT ![k] = {a}]
  BY <1>1, <1>2, <1>4
<1> QED BY <1>2, <1>3, <1>5 DEF Promised!Reply, Promised!Answer, Answer

\* A kept answer is given again, or the request refused.
LEMMA ReplayAnswers ==
  ASSUME IInv, IInv', NEW r \in Req, ~At(r, "idle"), ~req[r].poll, Replay(r),
         UNCHANGED <<pool, record>>
  PROVE  [Promised!Next]_(Promised!vars)
<1>1. CASE UNCHANGED history
  BY <1>1 DEF history, Promised!vars
<1>2. ASSUME NEW a \in Kept(r), Reply(r, a) PROVE Promised!Next
  <2>1. req[r].ask.key \in Key
    BY Asker DEF IInv
  <2>2. Promised!Reply(req[r].ask.key)
    BY <1>2, ReplyAnswers DEF Kept
  <2> QED BY <2>1, <2>2 DEF Promised!Next
<1> QED BY <1>1, <1>2 DEF Replay

\* Every step keeps the promise.
LEMMA StepKeeps ==
  ASSUME IInv, IInv', ~Outlives, [Next]_vars
  PROVE  [Promised!Next]_(Promised!vars)
<1>a. \A r \in Req : At(r, "lookup") \/ At(r, "store") \/ At(r, "reread")
        => ~At(r, "idle") /\ ~req[r].poll
  BY DEF At, IInv, TypeOK
<1>1. ASSUME NEW r \in Req, Moves(r) PROVE [Promised!Next]_(Promised!vars)
  <2>1. CASE Add(r)
    BY <2>1, AddJoins DEF Promised!Next
  <2>2. CASE Remove(r)
    <3>1. Promised!Prune
      BY <2>2 DEF Remove, history, Promised!Prune
    <3> QED BY <3>1 DEF Promised!Next
  <2>3. CASE Store(r)
    <3>1. CASE Kept(r) = {}
      <4>1. /\ record' = [record EXCEPT ![req[r].ask.key] = {Made(r)}]
            /\ Reply(r, Made(r)) /\ pool' = pool /\ At(r, "store")
        BY <2>3, <3>1 DEF Store
      <4>2. req[r].ask.key \in Key
        BY <1>a, <4>1, Asker DEF IInv
      <4>3. Made(r) \in record'[req[r].ask.key]
        BY <4>1, <4>2 DEF IInv, TypeOK
      <4>4. Promised!Reply(req[r].ask.key)
        BY <1>a, <4>1, <4>3, ReplyAnswers
      <4> QED BY <4>2, <4>4 DEF Promised!Next
    <3>2. CASE Kept(r) # {}
      BY <2>3, <3>2 DEF Store, history, Promised!vars
    <3> QED BY <3>1, <3>2
  <2>4. CASE Lookup(r)
    <3>1. CASE Kept(r) = {}
      BY <2>4, <3>1 DEF Lookup, history, Promised!vars
    <3>2. CASE Kept(r) # {}
      BY <1>a, <2>4, <3>2, ReplayAnswers DEF Lookup
    <3> QED BY <3>1, <3>2
  <2>5. CASE Reread(r)
    BY <1>a, <2>5, ReplayAnswers DEF Reread
  <2>6. CASE \/ Poll(r) \/ \E ask \in Asks : Prepare(r, ask)
             \/ Acquire(r) \/ ReleaseGet(r) \/ ReleaseDel(r)
             \/ List(r) \/ Read(r) \/ Build(r) \/ Throw(r) \/ Die(r)
    BY <2>6 DEF Poll, Prepare, Acquire, ReleaseGet, ReleaseDel, List, Read, Build, Throw, Die,
                history, Promised!vars
  <2> QED BY <1>1, <2>1, <2>2, <2>3, <2>4, <2>5, <2>6 DEF Moves
<1>2. CASE LockExpires \/ (\E a \in Account : Land(a)) \/ UNCHANGED vars
  BY <1>2 DEF LockExpires, Land, vars, history, Promised!vars
<1>3. ASSUME NEW k \in Key, Forget(k) PROVE Promised!Next
  <2>1. Promised!Forget(k)
    BY <1>3 DEF Forget, Promised!Forget
  <2> QED BY <2>1 DEF Promised!Next
<1> QED BY <1>1, <1>2, <1>3 DEF Next, Moves

(***************************************************************************)
(* As long as no preparation outlives its lock, the worker implements      *)
(* AccountPool: the pool grows only while all of it fits, a key has one    *)
(* answer, and its creations are of accounts that had been listed.         *)
(***************************************************************************)
THEOREM ImplementsPool ==
  ASSUME ~Outlives
  PROVE  Spec => KeepsThePool
<1>1. IInv /\ IInv' /\ [Next]_vars => [Promised!Next]_(Promised!vars)
  BY StepKeeps
<1>2. Init => Promised!Init
  BY DEF Init, Promised!Init
<1> QED BY <1>1, <1>2, Invariance, PTL DEF Spec, KeepsThePool, Promised!Spec
=============================================================================
