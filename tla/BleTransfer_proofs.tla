--------------------------- MODULE BleTransfer_proofs ---------------------------
(***************************************************************************)
(* Proofs about BleTransfer, for any number of phones, payments, wallets   *)
(* and frames: the types, that what is handed over is one payment whole,   *)
(* that the listener loses nothing by itself, that a payment is queued     *)
(* only for the wallet it pays, and that all of it implements Delivery.    *)
(***************************************************************************)
EXTENDS BleTransfer, TLAPS

----------------------------------------------------------------------------
(* The inductive invariant.                                                 *)

\* The effect's runs are numbered as they start, and the one that listens has started.
Numbered ==
    /\ current # NoStart => current.id = starts
    /\ \A s \in starting : s.id <= starts
    /\ \A s \in starting : current # NoStart /\ s.id = starts => s = current
    /\ session # NoStart => current \notin starting

Found == InOrder => ListenerIsFound /\ (session # NoStart => starting = {})

\* A sender that has not connected has written nothing; a written head has a frame.
Fresh == \A p \in Payment :
    /\ send[p] = "nothing" => frame[p] = 1 /\ ~half[p]
    /\ half[p] => frame[p] <= Frames

HeadWritten(p, i) == i < frame[p] \/ (i = frame[p] /\ half[p])

\* What the listener holds was written: a buffer holds the chunks of its own key, and
\* a session's frames have a head of its payment and some body.
Written ==
    /\ \A k \in Keys : \A j \in 1..Len(pending[k]) :
          /\ Key(pending[k][j].payment) = k
          /\ HeadWritten(pending[k][j].payment, pending[k][j].index)
    /\ \A p \in Payment : \A f \in sessions[p] :
          HeadWritten(p, f.index) /\ f.data.index < frame[f.data.payment]

\* onPayment carries a payment to the wallet it pays.
Carried == \A p \in Payment :
    /\ handler[p].at # "idle" => handler[p].wallet = To[p]
    /\ handler[p].at = "queued" => [payment |-> p, wallet |-> To[p]] \in queue

\* A transfer that meets one listener and has its key's buffer to itself from empty.
Clean(p) == p \in Payment \ (unheard \cup crossed \cup leftover)

HeadChunk(p) == [payment |-> p, index |-> frame[p], part |-> "head"]
BodyChunk(p) == [payment |-> p, index |-> frame[p], part |-> "body"]

\* The frames such a transfer has put together so far.
Got(p, n) == {FrameOf([payment |-> p, index |-> i, part |-> "head"],
                      [payment |-> p, index |-> i, part |-> "body"]) : i \in 1..n}

\* Where it stands: what it has written is in the buffer, in its session, or handed.
Stands(p) ==
    /\ session # NoStart
    /\ \A q \in Sending : Key(q) = Key(p) => q = p
    /\ pending[Key(p)] = IF half[p] THEN <<HeadChunk(p)>> ELSE <<>>
    /\ frame[p] <= Frames => sessions[p] = Got(p, frame[p] - 1)
    /\ frame[p] > Frames => Whole(p) \in handed

Steady == \A p \in Sending : Clean(p) => Stands(p)

IInv ==
    /\ TypeOK /\ Numbered /\ Found /\ Fresh /\ Written /\ HandedIsWhole
    /\ Carried /\ QueuedForItsWallet /\ Steady /\ CleanIsHanded

----------------------------------------------------------------------------
(* What the listener does with a chunk.                                     *)

\* What the constants are, in the words of the type invariant.
LEMMA Typing ==
  /\ NoStart \notin Start
  /\ Frames \in Nat /\ Frames >= 1
  /\ \A p \in Payment : Key(p) \in Keys /\ From[p] \in Device /\ To[p] \in Wallet /\ Whole(p) \in Text
BY FromAssumption, ToAssumption, FramesAssumption
   DEF Start, NoStart, Key, Keys, Whole, Text, Piece

\* A sequence of two elements is one element and the one that was appended.
LEMMA AppendOne ==
  ASSUME NEW S, NEW s \in Seq(S), NEW e \in S, Len(Append(s, e)) = 2
  PROVE  Len(s) = 1 /\ Append(s, e)[1] = s[1] /\ Append(s, e)[2] = e
<1> DEFINE n == Len(s)
<1>1. n + 1 = 2 /\ n \in Nat
  OBVIOUS
<1>2. n = 1
  <2> HIDE DEF n
  <2> QED BY <1>1
<1> QED BY <1>2

\* A chunk is not heard, is kept or dropped with its buffer, or completes a frame: then
\* it is a body and the buffer held one head.
LEMMA ListenCases ==
  ASSUME TypeOK, NEW k \in Keys, NEW chunk \in Chunk, Listen(k, chunk)
  PROVE  \/ session = NoStart /\ UNCHANGED <<pending, sessions, payments>>
         \/ /\ session # NoStart
            /\ UNCHANGED <<sessions, payments>>
            /\ \E text \in {<<>>, Append(pending[k], chunk)} :
                  Len(text) <= MaxPending /\ pending' = [pending EXCEPT ![k] = text]
         \/ /\ session # NoStart
            /\ chunk.part = "body"
            /\ Len(pending[k]) = 1 /\ pending[k][1].part = "head"
            /\ pending' = [pending EXCEPT ![k] = <<>>]
            /\ GetSessionFrames(FrameOf(pending[k][1], chunk))
<1> DEFINE text == Append(pending[k], chunk)
<1>1. CASE session = NoStart
  BY <1>1 DEF Listen, buffers
<1>2. ASSUME session # NoStart, NEW reading \in Parses(text), Take(k, text, reading)
      PROVE  \/ /\ UNCHANGED <<sessions, payments>>
                /\ \E t \in {<<>>, text} :
                      Len(t) <= MaxPending /\ pending' = [pending EXCEPT ![k] = t]
             \/ /\ chunk.part = "body"
                /\ Len(pending[k]) = 1 /\ pending[k][1].part = "head"
                /\ pending' = [pending EXCEPT ![k] = <<>>]
                /\ GetSessionFrames(FrameOf(pending[k][1], chunk))
  <2>0. pending[k] \in Seq(Chunk)
    BY DEF TypeOK
  <2>1. Len(text) = Len(pending[k]) + 1 /\ Len(pending[k]) \in Nat
    BY <2>0
  <2>6. /\ text[Len(pending[k]) + 1] = chunk
        /\ \A j \in 1..Len(pending[k]) : text[j] = pending[k][j]
    BY <2>0
  <2>2. <<>> \in {<<>>, text} /\ Len(<<>>) = 0 /\ 0 <= MaxPending /\ text \in {<<>>, text}
    BY MaxPendingAssumption
  <2>3. CASE Len(text) > MaxPending
    BY <1>2, <2>2, <2>3 DEF Take, Keep
  <2>4. CASE Len(text) <= MaxPending /\ reading = "frame"
    <3>1. Len(text) = 2 /\ text[1].part = "head" /\ text[2].part = "body"
      BY <1>2, <2>4 DEF Parses, HeadAndBody
    <3>2. Len(pending[k]) = 1 /\ text[1] = pending[k][1] /\ text[2] = chunk
      BY <2>0, <3>1, AppendOne
    <3>3. ~(Len(text) > MaxPending)
      BY <2>1, <2>4, MaxPendingAssumption
    <3>4. Keep(k, <<>>) /\ GetSessionFrames(FrameOf(text[1], text[2]))
      BY <1>2, <2>4, <3>3 DEF Take
    <3> QED BY <3>1, <3>2, <3>4 DEF Keep
  <2>5. CASE Len(text) <= MaxPending /\ reading # "frame"
    <3>1. ~(Len(text) > MaxPending)
      BY <2>1, <2>5, MaxPendingAssumption
    <3>2. /\ UNCHANGED <<sessions, payments>>
          /\ Keep(k, IF reading = "partial" /\ MayGoOn(k, text) THEN text ELSE <<>>)
      BY <1>2, <2>5, <3>1 DEF Take
    <3> QED BY <2>2, <2>5, <3>2 DEF Keep
  <2> QED BY <2>1, <2>3, <2>4, <2>5, MaxPendingAssumption
<1>3. CASE session # NoStart
  <2>1. PICK reading \in Parses(text) : Take(k, text, reading)
    BY <1>3 DEF Listen
  <2> QED BY <1>2, <1>3, <2>1
<1> QED BY <1>1, <1>3

\* A session with a frame put in.
Joined(f) == {g \in sessions[f.session] : g.index # f.index} \cup {f}

\* A frame joins its session, ends it with an error, or completes it: then what is
\* handed over is the text of one payment, whose last piece is among the frames, and
\* the frame itself is of it.
LEMMA FrameCases ==
  ASSUME TypeOK, NEW f \in Frame, GetSessionFrames(f)
  PROVE  /\ Joined(f) \in SUBSET Frame
         /\ \A g \in Joined(f) : g.session = f.session
         /\ \/ sessions' = [sessions EXCEPT ![f.session] = Joined(f)] /\ UNCHANGED payments
            \/ sessions' = [sessions EXCEPT ![f.session] = {}] /\ UNCHANGED payments
            \/ /\ sessions' = [sessions EXCEPT ![f.session] = {}]
               /\ \E c \in Payment :
                     /\ OnPayment(Whole(c))
                     /\ f.data = [payment |-> c, index |-> f.index]
                     /\ \E g \in Joined(f) : g.data = [payment |-> c, index |-> Frames]
<1> DEFINE got == Joined(f)
<1>0. got = {g \in sessions[f.session] : g.index # f.index} \cup {f}
  BY DEF Joined
<1> HIDE DEF got
<1>1. f.session \in Payment /\ sessions[f.session] \in SUBSET Frame
      /\ \A g \in sessions[f.session] : g.session = f.session
  BY DEF TypeOK, Frame
<1>2. got \in SUBSET Frame /\ \A g \in got : g.session = f.session
  BY <1>0, <1>1
<1>3. CASE {g.index : g \in got} # 1..Frames
  BY <1>2, <1>3 DEF GetSessionFrames, got, Joined
<1>4. CASE {g.index : g \in got} = 1..Frames
  <2>1. sessions' = [sessions EXCEPT ![f.session] = {}] /\ Reassemble(got)
    BY <1>4 DEF GetSessionFrames, got, Joined
  <2>2. CASE ~Reassembles(got)
    BY <1>2, <2>1, <2>2 DEF Reassemble, got
  <2>3. CASE Reassembles(got)
    <3>1. PICK c \in Payment : TextOf(got) = Whole(c)
      BY <2>3 DEF Reassembles
    <3>2. OnPayment(Whole(c))
      BY <2>1, <2>3, <3>1 DEF Reassemble
    <3>3. Frames \in 1..Frames
      BY FramesAssumption
    <3>4. PICK g \in got : g.index = Frames
      BY <1>4, <3>3
    <3> DEFINE h == CHOOSE x \in got : x.index = Frames
    <3>5. h \in got
      BY <3>4
    <3>6. TextOf(got)[Frames] = h.data
      BY <3>3 DEF TextOf
    <3>7. h.data = [payment |-> c, index |-> Frames]
      BY <3>1, <3>3, <3>6 DEF Whole
    <3>8. f \in got /\ \A x \in got : x.index = f.index => x = f
      BY <1>0
    <3>9. f.index \in 1..Frames /\ (CHOOSE x \in got : x.index = f.index) = f
      BY <3>8 DEF Frame
    <3>10. TextOf(got)[f.index] = f.data
      BY <3>9 DEF TextOf
    <3>11. f.data = [payment |-> c, index |-> f.index]
      BY <3>1, <3>9, <3>10 DEF Whole
    <3> QED BY <1>2, <2>1, <3>2, <3>5, <3>7, <3>11 DEF got
  <2> QED BY <2>2, <2>3
<1> QED BY <1>3, <1>4

\* What handing over a payment does.
LEMMA PaymentEffect ==
  ASSUME TypeOK, NEW c \in Payment, OnPayment(Whole(c))
  PROVE  /\ handed' = handed \cup {Whole(c)}
         /\ handled' \in SUBSET Payment
         /\ \/ handler' = handler
            \/ /\ To[c] = session.wallet
               /\ handler' = [handler EXCEPT ![c] = [at |-> "queueing", wallet |-> session.wallet]]
         /\ UNCHANGED <<queue, receipts>>
<1>1. 1 \in 1..Frames
  BY FramesAssumption
<1>2. Whole(c)[1].payment = c
  BY <1>1 DEF Whole
<1>3. handed' = handed \cup {Whole(c)} /\ UNCHANGED <<queue, receipts>>
  BY DEF OnPayment
<1>4. CASE Accepts(c)
  <2>1. /\ handled' = handled \cup {c}
        /\ handler' = [handler EXCEPT ![c] = [at |-> "queueing", wallet |-> session.wallet]]
    BY <1>2, <1>4 DEF OnPayment
  <2> QED BY <1>3, <1>4, <2>1 DEF Accepts, TypeOK
<1>5. CASE ~Accepts(c)
  <2>1. UNCHANGED <<handled, handler>>
    BY <1>2, <1>5 DEF OnPayment
  <2> QED BY <1>3, <2>1 DEF TypeOK
<1> QED BY <1>4, <1>5

----------------------------------------------------------------------------
(* The types.                                                               *)

\* What clearing a buffer, or all of them, leaves.
LEMMA Emptied ==
  /\ <<>> \in Seq(Chunk) /\ Len(<<>>) = 0 /\ 0 <= MaxPending
  /\ NoPending \in [Keys -> Seq(Chunk)]
  /\ \A k \in Keys : NoPending[k] = <<>> /\ Len(NoPending[k]) = 0
  /\ NoSessions \in [Payment -> SUBSET Frame]
  /\ \A p \in Payment : NoSessions[p] = {}
<1>1. <<>> \in Seq(Chunk) /\ Len(<<>>) = 0 /\ 0 <= MaxPending
  BY MaxPendingAssumption
<1>2. NoPending \in [Keys -> Seq(Chunk)] /\ \A k \in Keys : NoPending[k] = <<>>
  BY <1>1 DEF NoPending
<1> QED BY <1>1, <1>2 DEF NoSessions

\* At first nothing is sent, heard or queued.
LEMMA InitIInv == Init => IInv
<1> SUFFICES ASSUME Init PROVE IInv
  OBVIOUS
<1>1. TypeOK
  <2>1. pending = NoPending /\ sessions = NoSessions
    BY DEF Init
  <2>2. /\ pending \in [Keys -> Seq(Chunk)] /\ \A k \in Keys : Len(pending[k]) <= MaxPending
        /\ sessions \in [Payment -> SUBSET Frame]
        /\ \A p \in Payment : \A f \in sessions[p] : f.session = p
    BY <2>1, Emptied
  <2>3. /\ frame \in [Payment -> 1..Frames + 1]
        /\ starts \in 0..MaxStarts
        /\ handler \in [Payment -> [at : {"idle", "queueing", "queued"}, wallet : Wallet \cup {NoWallet}]]
    BY FramesAssumption, MaxStartsAssumption DEF Init, Idle
  <2> QED BY <2>2, <2>3 DEF Init, TypeOK
<1>2. Written
  <2>1. \A k \in Keys : Len(pending[k]) = 0
    BY Emptied DEF Init
  <2>2. \A p \in Payment : sessions[p] = {}
    BY Emptied DEF Init
  <2> QED BY <2>1, <2>2 DEF Written
<1>3. Numbered /\ Found /\ Fresh /\ HandedIsWhole /\ Carried
  BY DEF Init, Numbered, Found, ListenerIsFound, Fresh, HandedIsWhole, Carried, Idle
<1>4. QueuedForItsWallet /\ Steady /\ CleanIsHanded
  BY DEF Init, QueuedForItsWallet, Steady, Sending, CleanIsHanded
<1> QED BY <1>1, <1>2, <1>3, <1>4 DEF IInv

\* A chunk keeps the types of what the listener holds.
LEMMA ListenTypes ==
  ASSUME TypeOK, NEW k \in Keys, NEW chunk \in Chunk, Listen(k, chunk)
  PROVE  /\ pending' \in [Keys -> Seq(Chunk)]
         /\ \A key \in Keys : Len(pending'[key]) <= MaxPending
         /\ sessions' \in [Payment -> SUBSET Frame]
         /\ \A p \in Payment : \A f \in sessions'[p] : f.session = p
         /\ handed' \in SUBSET Text
         /\ handled' \in SUBSET Payment
         /\ handler' \in [Payment -> [at : {"idle", "queueing", "queued"}, wallet : Wallet \cup {NoWallet}]]
         /\ UNCHANGED <<queue, receipts>>
<1>1. CASE UNCHANGED <<pending, sessions, payments>>
  BY <1>1 DEF TypeOK, payments
<1>2. CASE /\ UNCHANGED <<sessions, payments>>
           /\ \E text \in {<<>>, Append(pending[k], chunk)} :
                 Len(text) <= MaxPending /\ pending' = [pending EXCEPT ![k] = text]
  <2>1. PICK text \in {<<>>, Append(pending[k], chunk)} :
           Len(text) <= MaxPending /\ pending' = [pending EXCEPT ![k] = text]
    BY <1>2
  <2>2. text \in Seq(Chunk)
    <3>1. pending[k] \in Seq(Chunk)
      BY DEF TypeOK
    <3>2. Append(pending[k], chunk) \in Seq(Chunk)
      BY <3>1
    <3> QED BY <2>1, <3>2, Emptied
  <2> QED BY <1>2, <2>1, <2>2 DEF TypeOK, payments
<1>3. CASE /\ session # NoStart
           /\ chunk.part = "body"
           /\ Len(pending[k]) = 1 /\ pending[k][1].part = "head"
           /\ pending' = [pending EXCEPT ![k] = <<>>]
           /\ GetSessionFrames(FrameOf(pending[k][1], chunk))
  <2> DEFINE f == FrameOf(pending[k][1], chunk)
             got == Joined(f)
  <2>1. pending[k][1] \in Chunk
    <3>1. pending[k] \in Seq(Chunk)
      BY DEF TypeOK
    <3> QED BY <1>3, <3>1
  <2>2. f \in Frame
    BY <2>1 DEF FrameOf, Frame, Chunk, Piece
  <2>4. /\ pending' \in [Keys -> Seq(Chunk)]
        /\ \A key \in Keys : Len(pending'[key]) <= MaxPending
    BY <1>3, Emptied DEF TypeOK
  <2>5. f.session \in Payment
    BY <2>2 DEF Frame
  <2> HIDE DEF f
  <2>6. GetSessionFrames(f)
    BY <1>3 DEF f
  <2>7. /\ got \in SUBSET Frame
        /\ \A g \in got : g.session = f.session
        /\ \/ sessions' = [sessions EXCEPT ![f.session] = got] /\ UNCHANGED payments
           \/ sessions' = [sessions EXCEPT ![f.session] = {}] /\ UNCHANGED payments
           \/ /\ sessions' = [sessions EXCEPT ![f.session] = {}]
              /\ \E c \in Payment :
                    /\ OnPayment(Whole(c))
                    /\ \E g \in got : g.data = [payment |-> c, index |-> Frames]
    BY <2>2, <2>6, FrameCases
  <2> HIDE DEF got
  <2>8. /\ sessions' \in [Payment -> SUBSET Frame]
        /\ \A p \in Payment : \A g \in sessions'[p] : g.session = p
    <3>1. PICK new \in {got, {}} : sessions' = [sessions EXCEPT ![f.session] = new]
      BY <2>7
    <3>2. /\ sessions \in [Payment -> SUBSET Frame]
          /\ \A p \in Payment : \A g \in sessions[p] : g.session = p
      BY DEF TypeOK
    <3>3. new \in SUBSET Frame /\ \A g \in new : g.session = f.session
      BY <2>7
    <3> QED BY <2>5, <3>1, <3>2, <3>3
  <2>9. CASE UNCHANGED payments
    BY <2>4, <2>8, <2>9 DEF TypeOK, payments
  <2>10. CASE \E c \in Payment : OnPayment(Whole(c))
    <3>1. PICK c \in Payment : OnPayment(Whole(c))
      BY <2>10
    <3>2. session.wallet \in Wallet \cup {NoWallet}
      BY DEF TypeOK, Start, NoStart
    <3>3. /\ handed' = handed \cup {Whole(c)}
          /\ handled' \in SUBSET Payment
          /\ UNCHANGED <<queue, receipts>>
          /\ \/ handler' = handler
             \/ handler' = [handler EXCEPT ![c] = [at |-> "queueing", wallet |-> session.wallet]]
      BY <3>1, PaymentEffect
    <3>4. handler' \in [Payment -> [at : {"idle", "queueing", "queued"}, wallet : Wallet \cup {NoWallet}]]
      <4> DEFINE H == [at : {"idle", "queueing", "queued"}, wallet : Wallet \cup {NoWallet}]
      <4>1. handler \in [Payment -> H]
        BY DEF TypeOK
      <4>2. [at |-> "queueing", wallet |-> session.wallet] \in H
        BY <3>2
      <4> HIDE DEF H
      <4>3. handler' \in [Payment -> H]
        BY <3>3, <4>1, <4>2
      <4> QED BY <4>3 DEF H
    <3>5. handed' \in SUBSET Text
      BY <3>3, Typing DEF TypeOK
    <3> QED BY <2>4, <2>8, <3>3, <3>4, <3>5
  <2> QED BY <2>7, <2>9, <2>10
<1> QED BY <1>1, <1>2, <1>3, ListenCases

\* The chunks a sender writes, and where they go.
LEMMA ChunkTypes ==
  ASSUME TypeOK, Fresh, NEW p \in Payment
  PROVE  /\ Key(p) \in Keys
         /\ frame[p] <= Frames => HeadChunk(p) \in Chunk /\ BodyChunk(p) \in Chunk
         /\ half[p] => frame[p] <= Frames
BY Typing DEF TypeOK, Fresh, HeadChunk, BodyChunk, Chunk

\* Every step keeps the types.
LEMMA TypeInductive == IInv /\ [Next]_vars => TypeOK'
<1> SUFFICES ASSUME IInv, [Next]_vars PROVE TypeOK'
  OBVIOUS
<1> USE DEF senders, screen, payments, history
<1>0. TypeOK /\ Fresh
  BY DEF IInv
<1>1. ASSUME NEW p \in Payment, Connect(p) PROVE TypeOK'
  BY <1>0, <1>1 DEF Connect, TypeOK, Sending, buffers
<1>2. ASSUME NEW p \in Payment, WriteHead(p) PROVE TypeOK'
  <2>1. Listen(Key(p), HeadChunk(p)) /\ HeadChunk(p) \in Chunk /\ Key(p) \in Keys
    BY <1>0, <1>2, ChunkTypes DEF WriteHead, HeadChunk
  <2>2. half' \in [Payment -> BOOLEAN]
    BY <1>0, <1>2 DEF WriteHead, TypeOK
  <2> QED BY <1>0, <1>2, <2>1, <2>2, ListenTypes DEF WriteHead, TypeOK
<1>3. ASSUME NEW p \in Payment, WriteBody(p) PROVE TypeOK'
  <2>1. Listen(Key(p), BodyChunk(p)) /\ BodyChunk(p) \in Chunk /\ Key(p) \in Keys /\ frame[p] <= Frames
    BY <1>0, <1>3, ChunkTypes DEF WriteBody, BodyChunk
  <2>2. half' \in [Payment -> BOOLEAN] /\ frame' \in [Payment -> 1..Frames + 1]
    BY <1>0, <1>3, <2>1, Typing DEF WriteBody, TypeOK
  <2> QED BY <1>0, <1>3, <2>1, <2>2, ListenTypes DEF WriteBody, TypeOK
<1>4. ASSUME NEW p \in Payment, Finish(p) PROVE TypeOK'
  BY <1>0, <1>4 DEF Finish, Lose, TypeOK, buffers
<1>5. ASSUME NEW d \in Device, Cut(d) PROVE TypeOK'
  BY <1>0, <1>5 DEF Cut, Lose, TypeOK, buffers
<1>6. ASSUME NEW w \in Wallet, Open(w) PROVE TypeOK'
  <2>1. current' \in Start /\ starts' \in 0..MaxStarts
    BY <1>0, <1>6, MaxStartsAssumption DEF Open, TypeOK, Start
  <2>2. starting' \in SUBSET Start /\ session' \in {NoStart, current'}
    BY <1>0, <1>6, <2>1 DEF Open, TypeOK
  <2>3. handled' \in SUBSET Payment
    BY <1>0, <1>6 DEF Open, Cleared, TypeOK
  <2>4. unheard' \in SUBSET Payment /\ advertising' \in BOOLEAN
    BY <1>0, <1>6 DEF Open, Sending, TypeOK
  <2> QED BY <1>0, <1>6, <2>1, <2>2, <2>3, <2>4 DEF Open, TypeOK, buffers
<1>7. ASSUME Close PROVE TypeOK'
  BY <1>0, <1>7 DEF Close, Sending, TypeOK, buffers
<1>8. ASSUME NEW s \in starting, Ready(s) PROVE TypeOK'
  <2>1. s \in Start
    BY <1>0 DEF TypeOK
  <2>2. CASE s = current
    <3>1. /\ pending' \in [Keys -> Seq(Chunk)]
          /\ \A k \in Keys : Len(pending'[k]) <= MaxPending
          /\ sessions' \in [Payment -> SUBSET Frame]
          /\ \A p \in Payment : sessions'[p] = {}
      BY <1>8, <2>2, Emptied DEF Ready
    <3> QED BY <1>0, <1>8, <2>1, <2>2, <3>1 DEF Ready, TypeOK, Start
  <2>3. CASE s # current
    BY <1>0, <1>8, <2>1, <2>3 DEF Ready, TypeOK, Start, buffers
  <2> QED BY <2>2, <2>3
<1>9. ASSUME NEW k \in Keys, Elapse(k) PROVE TypeOK'
  BY <1>0, <1>9, Emptied DEF Elapse, Keep, TypeOK
<1>10. ASSUME NEW p \in Payment, ElapseSession(p) PROVE TypeOK'
  BY <1>0, <1>10 DEF ElapseSession, TypeOK
<1>11. ASSUME NEW p \in Payment, Enqueue(p) PROVE TypeOK'
  <2>1. handler[p].wallet \in Wallet
    BY <1>11, Typing DEF IInv, Carried, Enqueue
  <2> QED BY <1>0, <1>11, <2>1 DEF Enqueue, TypeOK, buffers
<1>12. ASSUME NEW p \in Payment, Refuse(p) PROVE TypeOK'
  BY <1>0, <1>12 DEF Refuse, Idle, TypeOK, buffers
<1>13. ASSUME NEW p \in Payment, Receive(p) PROVE TypeOK'
  BY <1>0, <1>13 DEF Receive, Idle, TypeOK, buffers
<1>14. ASSUME Kill PROVE TypeOK'
  <2>1. /\ pending' \in [Keys -> Seq(Chunk)]
        /\ \A k \in Keys : Len(pending'[k]) <= MaxPending
        /\ sessions' \in [Payment -> SUBSET Frame]
        /\ \A p \in Payment : sessions'[p] = {}
    BY <1>14, Emptied DEF Kill
  <2> QED BY <1>0, <1>14, <2>1 DEF Kill, Lose, Idle, TypeOK
<1>15. CASE UNCHANGED vars
  BY <1>0, <1>15 DEF vars, TypeOK, buffers
<1> QED BY <1>1, <1>2, <1>3, <1>4, <1>5, <1>6, <1>7, <1>8, <1>9, <1>10, <1>11, <1>12, <1>13, <1>14,
           <1>15 DEF Next

----------------------------------------------------------------------------
(* The runs of the effect.                                                  *)

\* Starts are numbered in order, and the current one is the one that is heard.
LEMMA NumberedInductive == IInv /\ [Next]_vars => Numbered' /\ Found'
<1> SUFFICES ASSUME IInv, [Next]_vars PROVE Numbered' /\ Found'
  OBVIOUS
<1>0. /\ Numbered /\ Found
      /\ starts \in Nat /\ starting \in SUBSET Start /\ current \in Start \cup {NoStart}
      /\ session \in {NoStart, current}
  BY MaxStartsAssumption DEF IInv, TypeOK
<1>1. CASE UNCHANGED screen
  BY <1>0, <1>1 DEF screen, Numbered, Found, ListenerIsFound
<1>2. ASSUME NEW w \in Wallet, Open(w) PROVE Numbered' /\ Found'
  <2>1. /\ starts' = starts + 1 /\ current' = [id |-> starts + 1, wallet |-> w]
        /\ starting' = starting \cup {current'} /\ session' = NoStart
    BY <1>2 DEF Open
  <2>2. \A s \in starting : s.id <= starts /\ s.id \in Nat
    BY <1>0, MaxStartsAssumption DEF Numbered, Start
  <2> QED BY <1>0, <2>1, <2>2 DEF Numbered, Found, ListenerIsFound
<1>3. ASSUME Close PROVE Numbered' /\ Found'
  BY <1>0, <1>3 DEF Close, Numbered, Found, ListenerIsFound
<1>4. ASSUME NEW s \in starting, Ready(s) PROVE Numbered' /\ Found'
  <2>1. starting' = starting \ {s} /\ UNCHANGED <<starts, current>> /\ identity' = s.wallet
    BY <1>4 DEF Ready
  <2>2. s # NoStart
    BY <1>0, Typing
  <2>3. session' # NoStart => current' \notin starting'
    BY <1>0, <1>4, <2>1 DEF Ready, Numbered
  <2>4. Numbered'
    BY <1>0, <2>1, <2>3 DEF Numbered
  <2>5. ASSUME InOrder PROVE ListenerIsFound' /\ (session' # NoStart => starting' = {})
    <3>1. CASE s = current
      <4>1. \A t \in starting : t = s
        <5> SUFFICES ASSUME NEW t \in starting PROVE t = s
          OBVIOUS
        <5>1. s.id = starts /\ s.id <= t.id /\ t.id <= starts /\ t.id \in Nat
          BY <1>0, <1>4, <2>2, <2>5, <3>1, MaxStartsAssumption DEF Ready, Numbered, Start
        <5> QED BY <1>0, <2>2, <3>1, <5>1 DEF Numbered
      <4> QED BY <1>4, <2>1, <3>1, <4>1 DEF Ready, ListenerIsFound
    <3>2. CASE s # current
      <4>1. session = NoStart
        BY <1>0, <2>5 DEF Found
      <4> QED BY <1>4, <2>1, <3>2, <4>1 DEF Ready, ListenerIsFound
    <3> QED BY <3>1, <3>2
  <2> QED BY <2>4, <2>5 DEF Found
<1>5. ASSUME Kill PROVE Numbered' /\ Found'
  BY <1>0, <1>5 DEF Kill, Numbered, Found, ListenerIsFound
<1>6. CASE UNCHANGED vars
  BY <1>1, <1>6 DEF vars
<1> QED BY <1>1, <1>2, <1>3, <1>4, <1>5, <1>6
        DEF Next, Connect, WriteHead, WriteBody, Finish, Cut, Elapse, ElapseSession, Enqueue, Refuse, Receive

----------------------------------------------------------------------------
(* What was written.                                                        *)

\* A sender that has not connected has written nothing; no head without its frame.
LEMMA FreshInductive == IInv /\ [Next]_vars => Fresh'
<1> SUFFICES ASSUME IInv, [Next]_vars PROVE Fresh'
  OBVIOUS
<1>0. TypeOK /\ Fresh
  BY DEF IInv
<1>1. ASSUME NEW p \in Payment, Connect(p) PROVE Fresh'
  BY <1>0, <1>1 DEF Connect, Fresh, TypeOK
<1>2. ASSUME NEW p \in Payment, WriteHead(p) PROVE Fresh'
  BY <1>0, <1>2 DEF WriteHead, Fresh, TypeOK
<1>3. ASSUME NEW p \in Payment, WriteBody(p) PROVE Fresh'
  BY <1>0, <1>3 DEF WriteBody, Fresh, TypeOK
<1>4. ASSUME NEW p \in Payment, Finish(p) PROVE Fresh'
  BY <1>0, <1>4 DEF Finish, Lose, Sending, Fresh, TypeOK
<1>5. ASSUME NEW d \in Device, Cut(d) PROVE Fresh'
  BY <1>0, <1>5 DEF Cut, Lose, Sending, Fresh, TypeOK
<1>6. ASSUME Kill PROVE Fresh'
  BY <1>0, <1>6 DEF Kill, Lose, Sending, Fresh, TypeOK
<1>7. CASE UNCHANGED senders
  BY <1>0, <1>7 DEF senders, Fresh
<1>8. CASE UNCHANGED vars
  BY <1>7, <1>8 DEF vars
<1> QED BY <1>1, <1>2, <1>3, <1>4, <1>5, <1>6, <1>7, <1>8
        DEF Next, Open, Close, Ready, Elapse, ElapseSession, Enqueue, Refuse, Receive

\* HeadWritten, after a step.
Later(p, i) == i < frame'[p] \/ (i = frame'[p] /\ half'[p])

\* A write takes nothing back.
LEMMA WriteGrows ==
  ASSUME IInv, NEW p \in Payment, WriteHead(p) \/ WriteBody(p)
  PROVE  /\ \A q \in Payment : frame'[q] \in Nat /\ frame[q] \in Nat /\ frame[q] <= frame'[q]
         /\ \A q \in Payment : \A i \in 1..Frames : HeadWritten(q, i) => Later(q, i)
         /\ Later(p, frame[p])
         /\ WriteBody(p) => frame'[p] > frame[p]
<1>0. frame \in [Payment -> 1..Frames + 1] /\ half \in [Payment -> BOOLEAN]
  BY DEF IInv, TypeOK
<1>1. CASE WriteHead(p)
  <2>1. frame' = frame /\ half' = [half EXCEPT ![p] = TRUE] /\ half'[p] = TRUE
    BY <1>0, <1>1 DEF WriteHead
  <2>2. ~WriteBody(p)
    BY <1>1 DEF WriteHead, WriteBody
  <2>3. \A q \in Payment : frame[q] \in Nat
    BY <1>0, Typing
  <2> QED BY <1>0, <2>1, <2>2, <2>3 DEF HeadWritten, Later
<1>2. CASE WriteBody(p)
  <2>1. /\ frame' = [frame EXCEPT ![p] = frame[p] + 1]
        /\ half' = [half EXCEPT ![p] = FALSE]
    BY <1>2 DEF WriteBody
  <2>2. \A q \in Payment : frame[q] \in Nat
    BY <1>0, Typing
  <2> QED BY <1>0, <2>1, <2>2, Typing DEF HeadWritten, Later
<1> QED BY <1>1, <1>2

\* What a write leaves with the listener was written, and so was what is handed over.
LEMMA WriteWritten ==
  ASSUME IInv, NEW p \in Payment, WriteHead(p) \/ WriteBody(p)
  PROVE  Written' /\ HandedIsWhole'
<1>0. TypeOK /\ Fresh /\ Written /\ HandedIsWhole
  BY DEF IInv
<1>1. PICK chunk \in {HeadChunk(p), BodyChunk(p)} :
         Listen(Key(p), chunk) /\ (chunk.part = "body" => WriteBody(p))
  BY DEF WriteHead, WriteBody, HeadChunk, BodyChunk
<1> DEFINE k == Key(p)
<1>2. /\ k \in Keys /\ chunk \in Chunk /\ chunk.payment = p /\ chunk.index = frame[p]
      /\ pending \in [Keys -> Seq(Chunk)] /\ sessions \in [Payment -> SUBSET Frame]
  <2>1. frame[p] <= Frames
    BY <1>0, ChunkTypes DEF WriteHead, WriteBody
  <2>2. k \in Keys /\ chunk \in Chunk
    BY <1>0, <1>1, <2>1, ChunkTypes
  <2>3. chunk.payment = p /\ chunk.index = frame[p]
    BY <1>1 DEF HeadChunk, BodyChunk
  <2> QED BY <1>0, <2>2, <2>3 DEF TypeOK
<1>3. /\ \A q \in Payment : frame'[q] \in Nat /\ frame[q] \in Nat /\ frame[q] <= frame'[q]
      /\ \A q \in Payment : \A i \in 1..Frames : HeadWritten(q, i) => Later(q, i)
      /\ Later(p, frame[p])
      /\ chunk.part = "body" => frame'[p] > frame[p]
  BY <1>1, WriteGrows
<1>4. \A key \in Keys : \A j \in 1..Len(pending[key]) :
         /\ pending[key][j] \in Chunk
         /\ Key(pending[key][j].payment) = key
         /\ Later(pending[key][j].payment, pending[key][j].index)
  <2> SUFFICES ASSUME NEW key \in Keys, NEW j \in 1..Len(pending[key])
               PROVE  /\ pending[key][j] \in Chunk
                      /\ Key(pending[key][j].payment) = key
                      /\ Later(pending[key][j].payment, pending[key][j].index)
    OBVIOUS
  <2>1. pending[key] \in Seq(Chunk)
    BY <1>2
  <2>2. pending[key][j] \in Chunk
    BY <2>1
  <2> QED BY <1>0, <1>3, <2>2 DEF Written, Chunk
<1>5. \A q \in Payment : \A f \in sessions[q] :
         Later(q, f.index) /\ f.data.index < frame'[f.data.payment]
  <2> SUFFICES ASSUME NEW q \in Payment, NEW f \in sessions[q]
               PROVE  Later(q, f.index) /\ f.data.index < frame'[f.data.payment]
    OBVIOUS
  <2>1. f \in Frame
    BY <1>2
  <2>2. f.index \in 1..Frames /\ f.data.payment \in Payment /\ f.data.index \in 1..Frames
    BY <2>1 DEF Frame, Piece
  <2>3. HeadWritten(q, f.index) /\ f.data.index < frame[f.data.payment]
    BY <1>0 DEF Written
  <2> QED BY <1>3, <2>2, <2>3
<1>6. \A text \in handed : \E c \in Payment : text = Whole(c) /\ frame'[c] > Frames
  BY <1>0, <1>3, Typing DEF HandedIsWhole
<1>7. \A q : Key(q)' = Key(q)
  BY DEF Key
<1>8. CASE UNCHANGED <<pending, sessions, payments>>
  BY <1>4, <1>5, <1>6, <1>8 DEF Written, HeadWritten, Later, HandedIsWhole, payments, Key, Whole
<1>9. CASE /\ UNCHANGED <<sessions, payments>>
           /\ \E text \in {<<>>, Append(pending[k], chunk)} :
                 Len(text) <= MaxPending /\ pending' = [pending EXCEPT ![k] = text]
  <2>1. PICK text \in {<<>>, Append(pending[k], chunk)} : pending' = [pending EXCEPT ![k] = text]
    BY <1>9
  <2>2. pending[k] \in Seq(Chunk)
    BY <1>2
  <2>3. \A j \in 1..Len(text) :
           Key(text[j].payment) = k /\ Later(text[j].payment, text[j].index)
    <3>1. CASE text = <<>>
      BY <3>1
    <3>2. CASE text = Append(pending[k], chunk)
      <4> SUFFICES ASSUME NEW j \in 1..Len(text)
                   PROVE  Key(text[j].payment) = k /\ Later(text[j].payment, text[j].index)
        OBVIOUS
      <4>1. (j \in 1..Len(pending[k]) /\ text[j] = pending[k][j]) \/ text[j] = chunk
        BY <2>2, <3>2
      <4> QED BY <1>2, <1>3, <1>4, <4>1
    <3> QED BY <3>1, <3>2
  <2>4. \A key \in Keys : \A j \in 1..Len(pending'[key]) :
           /\ Key(pending'[key][j].payment) = key
           /\ Later(pending'[key][j].payment, pending'[key][j].index)
    BY <1>2, <1>4, <2>1, <2>3
  <2> QED BY <1>5, <1>6, <1>9, <2>4 DEF Written, HeadWritten, Later, HandedIsWhole, payments, Key, Whole
<1>10. CASE /\ session # NoStart
            /\ chunk.part = "body"
            /\ Len(pending[k]) = 1 /\ pending[k][1].part = "head"
            /\ pending' = [pending EXCEPT ![k] = <<>>]
            /\ GetSessionFrames(FrameOf(pending[k][1], chunk))
  <2> DEFINE h == pending[k][1]
             f == FrameOf(h, chunk)
  <2>1. h \in Chunk /\ Later(h.payment, h.index)
    BY <1>2, <1>4, <1>10
  <2>2. f \in Frame /\ f.session = h.payment /\ f.index = h.index /\ h.payment \in Payment
        /\ f.data.payment = p /\ f.data.index = frame[p]
    BY <1>2, <2>1 DEF FrameOf, Frame, Chunk, Piece
  <2> HIDE DEF f, h
  <2>3. /\ \A g \in Joined(f) : g.session = f.session
        /\ \/ sessions' = [sessions EXCEPT ![f.session] = Joined(f)] /\ UNCHANGED payments
           \/ sessions' = [sessions EXCEPT ![f.session] = {}] /\ UNCHANGED payments
           \/ /\ sessions' = [sessions EXCEPT ![f.session] = {}]
              /\ \E c \in Payment :
                    /\ OnPayment(Whole(c))
                    /\ \E g \in Joined(f) : g.data = [payment |-> c, index |-> Frames]
    BY <1>0, <1>10, <2>2, FrameCases DEF f, h
  <2>4. \A g \in Joined(f) : Later(f.session, g.index) /\ g.data.index < frame'[g.data.payment]
    BY <1>3, <1>5, <1>10, <2>1, <2>2 DEF Joined
  <2>5. \A q \in Payment : \A g \in sessions'[q] :
           Later(q, g.index) /\ g.data.index < frame'[g.data.payment]
    <3>1. PICK new \in {Joined(f), {}} : sessions' = [sessions EXCEPT ![f.session] = new]
      BY <2>3
    <3> QED BY <1>2, <1>5, <2>2, <2>4, <3>1
  <2>6. \A key \in Keys : \A j \in 1..Len(pending'[key]) :
           /\ Key(pending'[key][j].payment) = key
           /\ Later(pending'[key][j].payment, pending'[key][j].index)
    BY <1>2, <1>4, <1>10
  <2>7. \A text \in handed' : \E c \in Payment : text = Whole(c) /\ frame'[c] > Frames
    <3>1. CASE UNCHANGED payments
      BY <1>6, <3>1 DEF payments
    <3>2. CASE \E c \in Payment :
                  /\ OnPayment(Whole(c))
                  /\ \E g \in Joined(f) : g.data = [payment |-> c, index |-> Frames]
      <4>1. PICK c \in Payment :
                  /\ OnPayment(Whole(c))
                  /\ \E g \in Joined(f) : g.data = [payment |-> c, index |-> Frames]
        BY <3>2
      <4>2. frame'[c] > Frames
        BY <1>3, <2>4, <4>1, Typing
      <4>3. handed' = handed \cup {Whole(c)}
        BY <1>0, <4>1, PaymentEffect
      <4> QED BY <1>6, <4>2, <4>3
    <3> QED BY <2>3, <3>1, <3>2
  <2> QED BY <2>5, <2>6, <2>7 DEF Written, HeadWritten, Later, HandedIsWhole, Key, Whole
<1> QED BY <1>0, <1>1, <1>2, <1>8, <1>9, <1>10, ListenCases

\* Frames held were written by their sender, so what is handed on is whole.
LEMMA WrittenInductive == IInv /\ [Next]_vars => Written' /\ HandedIsWhole'
<1> SUFFICES ASSUME IInv, [Next]_vars PROVE Written' /\ HandedIsWhole'
  OBVIOUS
<1>0. Written /\ HandedIsWhole /\ TypeOK
  BY DEF IInv
<1> DEFINE Emptier == \A k \in Keys : pending'[k] = pending[k] \/ pending'[k] = <<>>
           Fewer == \A p \in Payment : sessions'[p] \subseteq sessions[p]
<1>1. ASSUME UNCHANGED <<frame, half, handed>>, Emptier, Fewer PROVE Written' /\ HandedIsWhole'
  BY <1>0, <1>1, Emptied DEF Written, HandedIsWhole, HeadWritten, Key, Whole
<1>2. ASSUME NEW p \in Payment, WriteHead(p) \/ WriteBody(p) PROVE Written' /\ HandedIsWhole'
  BY <1>2, WriteWritten
<1>3. CASE UNCHANGED <<frame, half, handed, buffers>>
  BY <1>1, <1>3 DEF buffers
<1>4. ASSUME NEW s \in starting, Ready(s) PROVE Written' /\ HandedIsWhole'
  BY <1>1, <1>4, Emptied DEF Ready, buffers, senders, payments
<1>5. ASSUME NEW k \in Keys, Elapse(k) PROVE Written' /\ HandedIsWhole'
  BY <1>0, <1>1, <1>5 DEF Elapse, Keep, senders, payments, TypeOK
<1>6. ASSUME NEW p \in Payment, ElapseSession(p) PROVE Written' /\ HandedIsWhole'
  BY <1>0, <1>1, <1>6 DEF ElapseSession, senders, payments, TypeOK
<1>7. ASSUME Kill PROVE Written' /\ HandedIsWhole'
  BY <1>1, <1>7, Emptied DEF Kill
<1>8. CASE UNCHANGED vars
  BY <1>3, <1>8 DEF vars, senders, payments
<1> QED BY <1>2, <1>3, <1>4, <1>5, <1>6, <1>7, <1>8
        DEF Next, Connect, Finish, Cut, Open, Close, Enqueue, Refuse, Receive, senders, payments

----------------------------------------------------------------------------
(* What is queued.                                                          *)

\* A write queues nothing, and starts onPayment only for the wallet that is paid.
LEMMA WriteCarried ==
  ASSUME IInv, NEW k \in Keys, NEW chunk \in Chunk, Listen(k, chunk)
  PROVE  Carried' /\ QueuedForItsWallet'
<1>0. TypeOK /\ Carried /\ QueuedForItsWallet
  BY DEF IInv
<1>1. CASE UNCHANGED payments
  BY <1>0, <1>1 DEF payments, Carried, QueuedForItsWallet
<1>2. CASE /\ chunk.part = "body"
           /\ Len(pending[k]) = 1 /\ pending[k][1].part = "head"
           /\ GetSessionFrames(FrameOf(pending[k][1], chunk))
  <2> DEFINE f == FrameOf(pending[k][1], chunk)
  <2>1. pending[k] \in Seq(Chunk)
    BY <1>0 DEF TypeOK
  <2>2. pending[k][1] \in Chunk
    BY <1>2, <2>1
  <2>3. f \in Frame
    BY <2>2 DEF FrameOf, Frame, Chunk, Piece
  <2> HIDE DEF f
  <2>4. UNCHANGED payments \/ \E c \in Payment : OnPayment(Whole(c))
    BY <1>0, <1>2, <2>3, FrameCases DEF f
  <2>5. ASSUME NEW c \in Payment, OnPayment(Whole(c)) PROVE Carried' /\ QueuedForItsWallet'
    <3>1. /\ \/ handler' = handler
             \/ /\ To[c] = session.wallet
                /\ handler' = [handler EXCEPT ![c] = [at |-> "queueing", wallet |-> session.wallet]]
          /\ UNCHANGED <<queue, receipts>>
      BY <1>0, <2>5, PaymentEffect
    <3>2. handler \in [Payment -> [at : {"idle", "queueing", "queued"}, wallet : Wallet \cup {NoWallet}]]
      BY <1>0 DEF TypeOK
    <3> QED BY <1>0, <3>1, <3>2 DEF Carried, QueuedForItsWallet
  <2> QED BY <1>1, <2>4, <2>5
<1> QED BY <1>0, <1>1, <1>2, ListenCases DEF payments

\* A handler keeps the wallet its payment was accepted for until it is queued.
LEMMA CarriedInductive == IInv /\ [Next]_vars => Carried' /\ QueuedForItsWallet'
<1> SUFFICES ASSUME IInv, [Next]_vars PROVE Carried' /\ QueuedForItsWallet'
  OBVIOUS
<1>0. /\ TypeOK /\ Fresh /\ Carried /\ QueuedForItsWallet
      /\ handler \in [Payment -> [at : {"idle", "queueing", "queued"}, wallet : Wallet \cup {NoWallet}]]
  BY DEF IInv, TypeOK
<1>1. CASE UNCHANGED <<handler, queue, receipts>>
  BY <1>0, <1>1 DEF Carried, QueuedForItsWallet
<1>2. ASSUME NEW p \in Payment, WriteHead(p) PROVE Carried' /\ QueuedForItsWallet'
  <2>1. Listen(Key(p), HeadChunk(p)) /\ HeadChunk(p) \in Chunk /\ Key(p) \in Keys
    BY <1>0, <1>2, ChunkTypes DEF WriteHead, HeadChunk
  <2> QED BY <2>1, WriteCarried
<1>3. ASSUME NEW p \in Payment, WriteBody(p) PROVE Carried' /\ QueuedForItsWallet'
  <2>1. Listen(Key(p), BodyChunk(p)) /\ BodyChunk(p) \in Chunk /\ Key(p) \in Keys
    BY <1>0, <1>3, ChunkTypes DEF WriteBody, BodyChunk
  <2> QED BY <2>1, WriteCarried
<1>4. ASSUME NEW p \in Payment, Enqueue(p) PROVE Carried' /\ QueuedForItsWallet'
  <2>1. /\ handler[p].at = "queueing"
        /\ handler'[p].at = "queued" /\ handler'[p].wallet = handler[p].wallet
        /\ \A q \in Payment : q # p => handler'[q] = handler[q]
        /\ queue' = queue \cup {[payment |-> p, wallet |-> handler[p].wallet]}
        /\ UNCHANGED receipts
    BY <1>0, <1>4 DEF Enqueue
  <2>2. handler[p].wallet = To[p]
    BY <1>0, <2>1 DEF Carried
  <2>3. Carried'
    BY <1>0, <2>1, <2>2 DEF Carried
  <2>4. QueuedForItsWallet'
    BY <1>0, <2>1, <2>2 DEF QueuedForItsWallet
  <2> QED BY <2>3, <2>4
<1>5. ASSUME NEW p \in Payment, Refuse(p) PROVE Carried' /\ QueuedForItsWallet'
  BY <1>0, <1>5 DEF Refuse, Idle, Carried, QueuedForItsWallet
<1>6. ASSUME NEW p \in Payment, Receive(p) PROVE Carried' /\ QueuedForItsWallet'
  BY <1>0, <1>6 DEF Receive, Idle, Carried, QueuedForItsWallet
<1>7. ASSUME Kill PROVE Carried' /\ QueuedForItsWallet'
  BY <1>0, <1>7 DEF Kill, Idle, Carried, QueuedForItsWallet
<1>8. CASE UNCHANGED vars
  BY <1>1, <1>8 DEF vars, payments
<1> QED BY <1>1, <1>2, <1>3, <1>4, <1>5, <1>6, <1>7, <1>8
        DEF Next, Connect, Finish, Cut, Open, Close, Ready, Elapse, ElapseSession, payments

----------------------------------------------------------------------------
(* A clean transfer.                                                        *)

\* A listener keeps a head that finds the buffer empty.
LEMMA HeadKept ==
  ASSUME TypeOK, NEW k \in Keys, NEW chunk \in Chunk, Listen(k, chunk), session # NoStart,
         pending[k] = <<>>, chunk.part = "head"
  PROVE  pending' = [pending EXCEPT ![k] = <<chunk>>] /\ UNCHANGED <<sessions, payments>>
<1>1. PICK reading \in Parses(Append(pending[k], chunk)) :
        Take(k, Append(pending[k], chunk), reading)
  BY DEF Listen
<1>2. Append(pending[k], chunk) = <<chunk>>
  OBVIOUS
<1>3. Len(<<chunk>>) = 1 /\ <<chunk>>[1] = chunk /\ ~(1 > MaxPending)
  BY MaxPendingAssumption
<1>4. reading = "partial"
  BY <1>1, <1>2, <1>3 DEF Parses, HeadAndBody
<1>5. Take(k, <<chunk>>, reading)
  BY <1>1, <1>2
<1> QED BY <1>3, <1>4, <1>5 DEF Take, Keep, MayGoOn

\* A body that finds its own head in the buffer completes their frame.
LEMMA BodyRead ==
  ASSUME TypeOK, NEW k \in Keys, NEW head \in Chunk, NEW body \in Chunk, Listen(k, body),
         session # NoStart, pending[k] = <<head>>, head.part = "head", body.part = "body",
         head.payment = body.payment, head.index = body.index
  PROVE  pending' = [pending EXCEPT ![k] = <<>>] /\ GetSessionFrames(FrameOf(head, body))
<1> DEFINE text == Append(<<head>>, body)
<1>1. PICK reading \in Parses(Append(pending[k], body)) :
        Take(k, Append(pending[k], body), reading)
  BY DEF Listen
<1>2. Append(pending[k], body) = text
  OBVIOUS
<1>3. Len(text) = 2 /\ text[1] = head /\ text[2] = body /\ ~(2 > MaxPending)
  <2>1. <<head>> \in Seq(Chunk) /\ Len(<<head>>) = 1 /\ <<head>>[1] = head
    OBVIOUS
  <2> QED BY <2>1, MaxPendingAssumption
<1> HIDE DEF text
<1>4. reading = "frame"
  BY <1>1, <1>2, <1>3 DEF Parses, HeadAndBody
<1>5. Take(k, text, reading)
  BY <1>1, <1>2
<1> QED BY <1>3, <1>4, <1>5 DEF Take, Keep

\* One frame of a payment, as its own head and body give it.
OwnFrame(p, i) == FrameOf([payment |-> p, index |-> i, part |-> "head"],
                          [payment |-> p, index |-> i, part |-> "body"])

\* The next frame of a clean transfer joins its session; the last one hands it over.
LEMMA NextFrame ==
  ASSUME TypeOK, NEW p \in Payment, NEW n \in 1..Frames,
         sessions[p] = Got(p, n - 1), GetSessionFrames(OwnFrame(p, n))
  PROVE  /\ n < Frames => sessions' = [sessions EXCEPT ![p] = Got(p, n)]
         /\ n = Frames => Whole(p) \in handed'
         /\ handed \subseteq handed'
<1> DEFINE f == OwnFrame(p, n)
           got == Joined(f)
<1>0. n \in Nat /\ Frames \in Nat
  BY FramesAssumption
<1>1. f.session = p /\ f.index = n /\ f.check = p /\ f.data = [payment |-> p, index |-> n]
  BY DEF OwnFrame, FrameOf
<1>2. Got(p, n) = {OwnFrame(p, i) : i \in 1..n} /\ Got(p, n - 1) = {OwnFrame(p, i) : i \in 1..n - 1}
  BY DEF Got, OwnFrame
<1>3. \A i : OwnFrame(p, i).index = i /\ OwnFrame(p, i).check = p
             /\ OwnFrame(p, i).data = [payment |-> p, index |-> i]
  BY DEF OwnFrame, FrameOf
<1>4. got = Got(p, n)
  <2>1. got = {g \in Got(p, n - 1) : g.index # n} \cup {OwnFrame(p, n)}
    BY <1>1 DEF Joined
  <2>2. \A g \in Got(p, n - 1) : g.index # n
    BY <1>0, <1>2, <1>3
  <2>3. \A i \in 1..n : i = n \/ i \in 1..n - 1
    BY <1>0
  <2>4. \A i \in 1..n - 1 : i \in 1..n
    BY <1>0
  <2>5. n \in 1..n
    BY <1>0
  <2> HIDE DEF got
  <2> QED BY <1>2, <2>1, <2>2, <2>3, <2>4, <2>5
<1>5. {g.index : g \in got} = 1..n
  <2> HIDE DEF got
  <2> QED BY <1>2, <1>3, <1>4
<1>6. CASE n < Frames
  <2>1. 1..n # 1..Frames
    BY <1>0, <1>6
  <2>2. sessions' = [sessions EXCEPT ![p] = got] /\ UNCHANGED payments
    BY <1>1, <1>5, <2>1 DEF GetSessionFrames, Joined
  <2> QED BY <1>0, <1>4, <1>6, <2>2 DEF payments
<1>7. CASE n = Frames
  <2>1. Reassemble(got)
    BY <1>1, <1>5, <1>7 DEF GetSessionFrames, Joined
  <2>2. \A g \in got : g.check = p
    <3> HIDE DEF got
    <3> QED BY <1>2, <1>3, <1>4
  <2>3. \A i \in 1..Frames : (CHOOSE g \in got : g.index = i).data = [payment |-> p, index |-> i]
    <3> SUFFICES ASSUME NEW i \in 1..Frames
                 PROVE  (CHOOSE g \in got : g.index = i).data = [payment |-> p, index |-> i]
      OBVIOUS
    <3> HIDE DEF got
    <3>1. OwnFrame(p, i) \in got /\ OwnFrame(p, i).index = i
      BY <1>2, <1>3, <1>4, <1>7
    <3> DEFINE h == CHOOSE g \in got : g.index = i
    <3>2. h \in got /\ h.index = i
      BY <3>1
    <3>3. PICK j \in 1..n : h = OwnFrame(p, j)
      BY <1>2, <1>4, <3>2
    <3> HIDE DEF h
    <3>4. j = i
      BY <1>3, <3>2, <3>3
    <3>5. h.data = [payment |-> p, index |-> i]
      BY <1>3, <3>3, <3>4
    <3> QED BY <3>5 DEF h
  <2>4. TextOf(got) = Whole(p)
    <3> HIDE DEF got
    <3> QED BY <2>3 DEF TextOf, Whole
  <2>5. Reassembles(got)
    BY <2>2, <2>4 DEF Reassembles
  <2>6. OnPayment(Whole(p))
    BY <2>1, <2>4, <2>5 DEF Reassemble
  <2>7. handed' = handed \cup {Whole(p)}
    BY <2>6, PaymentEffect
  <2> QED BY <1>0, <1>7, <2>7
<1> QED BY <1>0, <1>6, <1>7

\* A write of one payment leaves another clean transfer where it stands: their keys
\* differ, and with them their buffers and their sessions.
LEMMA OthersStand ==
  ASSUME IInv, NEW q \in Payment, WriteHead(q) \/ WriteBody(q),
         NEW p \in Sending, Clean(p), q # p
  PROVE  Stands(p)'
<1>0. TypeOK /\ Fresh /\ Written /\ Stands(p) /\ p \in Payment /\ q \in Sending
  BY DEF IInv, Steady, Sending, WriteHead, WriteBody
<1>1. Key(q) # Key(p)
  BY <1>0 DEF Stands
<1>2. PICK chunk \in Chunk : Listen(Key(q), chunk)
  <2>1. frame[q] <= Frames
    BY <1>0, ChunkTypes DEF WriteHead, WriteBody
  <2> QED BY <1>0, <2>1, ChunkTypes DEF WriteHead, WriteBody, HeadChunk, BodyChunk
<1>3. /\ UNCHANGED <<send, session>> /\ frame'[p] = frame[p] /\ half'[p] = half[p]
  BY <1>0 DEF WriteHead, WriteBody, screen, TypeOK
<1>4. /\ pending'[Key(p)] = pending[Key(p)]
      /\ sessions'[p] = sessions[p]
      /\ handed \subseteq handed'
  <2>0. Key(q) \in Keys /\ Key(p) \in Keys
    BY <1>0, Typing
  <2>1. CASE UNCHANGED <<pending, sessions, payments>>
    BY <2>1 DEF payments
  <2>2. CASE /\ UNCHANGED <<sessions, payments>>
             /\ \E text : pending' = [pending EXCEPT ![Key(q)] = text]
    BY <1>0, <1>1, <2>0, <2>2 DEF payments, TypeOK
  <2>3. CASE /\ Len(pending[Key(q)]) = 1
             /\ pending' = [pending EXCEPT ![Key(q)] = <<>>]
             /\ GetSessionFrames(FrameOf(pending[Key(q)][1], chunk))
    <3> DEFINE h == pending[Key(q)][1]
               f == FrameOf(h, chunk)
    <3>1. h \in Chunk /\ Key(h.payment) = Key(q)
      <4>1. pending[Key(q)] \in Seq(Chunk)
        BY <1>0, <2>0 DEF TypeOK
      <4>2. 1 \in 1..Len(pending[Key(q)])
        BY <2>3
      <4> QED BY <1>0, <2>0, <4>1, <4>2 DEF Written
    <3>2. f \in Frame /\ f.session = h.payment
      BY <1>2, <3>1 DEF FrameOf, Frame, Chunk, Piece
    <3>3. f.session # p
      BY <1>1, <3>1, <3>2
    <3> HIDE DEF f, h
    <3>4. \/ \E new : sessions' = [sessions EXCEPT ![f.session] = new] /\ UNCHANGED payments
          \/ /\ \E new : sessions' = [sessions EXCEPT ![f.session] = new]
             /\ \E c \in Payment : OnPayment(Whole(c))
      BY <1>0, <2>3, <3>2, FrameCases DEF f, h
    <3>5. handed \subseteq handed'
      BY <1>0, <3>4, PaymentEffect DEF payments
    <3>6. sessions'[p] = sessions[p]
      BY <1>0, <3>3, <3>4 DEF TypeOK
    <3>7. pending'[Key(p)] = pending[Key(p)]
      BY <1>0, <1>1, <2>0, <2>3 DEF TypeOK
    <3> QED BY <3>5, <3>6, <3>7
  <2> QED BY <1>0, <1>2, <2>0, <2>1, <2>2, <2>3, ListenCases
<1>5. HeadChunk(p)' = HeadChunk(p) /\ Got(p, frame[p] - 1)' = Got(p, frame[p] - 1) /\ Key(p)' = Key(p)
      /\ Sending' = Sending /\ Whole(p)' = Whole(p) /\ \A r : Key(r)' = Key(r)
  BY <1>3 DEF HeadChunk, Got, FrameOf, Key, Sending, Whole
<1> QED BY <1>0, <1>3, <1>4, <1>5 DEF Stands, HeadChunk, Got, FrameOf, Key, Sending, Whole

\* A clean transfer writes: its head waits in the buffer, its body puts the frame in its
\* session, and the last one hands it over.
LEMMA WriterStands ==
  ASSUME IInv, NEW p \in Sending, Clean(p), WriteHead(p) \/ WriteBody(p)
  PROVE  Stands(p)'
<1>0. /\ TypeOK /\ Fresh /\ Stands(p) /\ p \in Payment /\ Key(p) \in Keys
      /\ frame[p] \in 1..Frames /\ frame[p] \in Nat /\ HeadChunk(p) \in Chunk /\ BodyChunk(p) \in Chunk
  <2>1. TypeOK /\ Fresh /\ Stands(p) /\ p \in Payment
    BY DEF IInv, Steady, Sending
  <2>2. frame[p] <= Frames /\ frame[p] \in 1..Frames + 1
    BY <2>1, ChunkTypes DEF WriteHead, WriteBody, TypeOK
  <2> QED BY <2>1, <2>2, ChunkTypes, FramesAssumption
<1>1. UNCHANGED <<send, session>> /\ session # NoStart
  BY <1>0 DEF WriteHead, WriteBody, screen, Stands
<1>2. Key(p)' = Key(p) /\ Sending' = Sending /\ \A q : Key(q)' = Key(q)
  BY <1>1 DEF Key, Sending
<1>3. CASE WriteHead(p)
  <2>1. /\ frame' = frame /\ half'[p] /\ Listen(Key(p), HeadChunk(p)) /\ ~half[p]
    BY <1>0, <1>3 DEF WriteHead, HeadChunk, TypeOK
  <2>2. pending[Key(p)] = <<>>
    BY <1>0, <2>1 DEF Stands
  <2>3. pending' = [pending EXCEPT ![Key(p)] = <<HeadChunk(p)>>] /\ UNCHANGED <<sessions, payments>>
    BY <1>0, <1>1, <2>1, <2>2, HeadKept DEF HeadChunk
  <2>4. pending'[Key(p)] = <<HeadChunk(p)>>
    BY <1>0, <2>3 DEF TypeOK
  <2>5. sessions'[p] = Got(p, frame[p] - 1) /\ frame[p] <= Frames
    BY <1>0, <2>3 DEF Stands
  <2>6. \A q \in Sending : Key(q) = Key(p) => q = p
    BY <1>0 DEF Stands
  <2>7. HeadChunk(p)' = HeadChunk(p) /\ Got(p, frame[p] - 1)' = Got(p, frame[p] - 1)
    BY <2>1 DEF HeadChunk, Got, FrameOf
  <2>8. ~(frame'[p] > Frames)
    BY <1>0, <2>1, <2>5, FramesAssumption
  <2>9. sessions'[p] = sessions[p]
    BY <2>3
  <2> QED BY <1>1, <1>2, <2>1, <2>4, <2>5, <2>6, <2>7, <2>8, <2>9 DEF Stands
<1>4. CASE WriteBody(p)
  <2>1. /\ frame'[p] = frame[p] + 1 /\ ~half'[p] /\ Listen(Key(p), BodyChunk(p)) /\ half[p]
    BY <1>0, <1>4 DEF WriteBody, BodyChunk, TypeOK
  <2>2. pending[Key(p)] = <<HeadChunk(p)>> /\ sessions[p] = Got(p, frame[p] - 1)
    BY <1>0, <2>1 DEF Stands
  <2>3. /\ pending' = [pending EXCEPT ![Key(p)] = <<>>]
        /\ GetSessionFrames(FrameOf(HeadChunk(p), BodyChunk(p)))
    BY <1>0, <1>1, <2>1, <2>2, BodyRead DEF HeadChunk, BodyChunk
  <2>4. FrameOf(HeadChunk(p), BodyChunk(p)) = OwnFrame(p, frame[p])
    BY DEF HeadChunk, BodyChunk, OwnFrame, FrameOf
  <2>5. /\ frame[p] < Frames => sessions' = [sessions EXCEPT ![p] = Got(p, frame[p])]
        /\ frame[p] = Frames => Whole(p) \in handed'
    BY <1>0, <2>2, <2>3, <2>4, NextFrame
  <2>6. pending'[Key(p)] = <<>>
    BY <1>0, <2>3 DEF TypeOK
  <2>7. frame'[p] <= Frames => sessions'[p] = Got(p, frame'[p] - 1)
    BY <1>0, <2>1, <2>5, FramesAssumption DEF TypeOK
  <2>8. frame'[p] > Frames => Whole(p) \in handed'
    BY <1>0, <2>1, <2>5, FramesAssumption
  <2> QED BY <1>0, <1>1, <1>2, <2>1, <2>6, <2>7, <2>8
          DEF Stands, HeadChunk, Got, FrameOf, Key, Sending, Whole
<1> QED BY <1>3, <1>4

\* While a transfer is clean, buffer and session hold exactly what was written.
LEMMA SteadyInductive == IInv /\ [Next]_vars => Steady'
<1> SUFFICES ASSUME IInv, [Next]_vars, NEW p \in Sending', Clean(p)' PROVE Stands(p)'
  BY DEF Steady
<1>0. TypeOK /\ Fresh /\ Written /\ Steady /\ Numbered /\ p \in Payment
  BY DEF IInv, Sending
<1>1. ASSUME UNCHANGED <<frame, half, session, pending, sessions, handed>>,
             Sending' \subseteq Sending, Clean(p)
      PROVE  Stands(p)'
  <2>1. Stands(p)
    BY <1>0, <1>1 DEF Steady
  <2> QED BY <1>1, <2>1 DEF Stands, HeadChunk, Got, FrameOf, Key, Whole
<1>2. ASSUME NEW q \in Payment, Connect(q) PROVE Stands(p)'
  <2>1. /\ send' = [send EXCEPT ![q] = "connected"]
        /\ UNCHANGED <<frame, half, session, pending, sessions, handed>>
    BY <1>2 DEF Connect, screen, buffers, payments
  <2>2. Sending' = Sending \cup {q} /\ q \notin Sending
    BY <1>0, <1>2, <2>1 DEF Sending, TypeOK, Connect
  <2> DEFINE others == {r \in Sending : Key(r) = Key(q)}
  <2>3. CASE p = q
    <3>1. others = {} /\ pending[Key(p)] = <<>> /\ session # NoStart
      BY <1>0, <1>2, <2>3 DEF Clean, Connect
    <3>2. frame[p] = 1 /\ ~half[p]
      BY <1>0, <1>2, <2>3 DEF Connect, Fresh
    <3>3. sessions[p] = {}
      <4> SUFFICES ASSUME NEW f \in sessions[p] PROVE FALSE
        OBVIOUS
      <4>1. f.index \in 1..Frames
        BY <1>0 DEF TypeOK, Frame
      <4> QED BY <1>0, <3>2, <4>1, Typing DEF Written, HeadWritten
    <3>4. Got(p, frame[p] - 1) = {}
      BY <3>2 DEF Got
    <3>5. \A r \in Sending' : Key(r) = Key(p) => r = p
      BY <2>2, <2>3, <3>1
    <3> QED BY <2>1, <3>1, <3>2, <3>3, <3>4, <3>5, Typing
            DEF Stands, HeadChunk, Got, FrameOf, Key, Whole
  <2>4. CASE p # q
    <3>1. p \in Sending /\ Clean(p)
      BY <1>0, <1>2, <2>2, <2>4 DEF Clean, Connect
    <3>2. Stands(p) /\ p \notin others
      BY <1>0, <1>2, <3>1 DEF Steady, Clean, Connect
    <3>3. \A r \in Sending' : Key(r) = Key(p) => r = p
      BY <2>2, <3>1, <3>2 DEF Stands
    <3> QED BY <2>1, <3>2, <3>3 DEF Stands, HeadChunk, Got, FrameOf, Key, Whole
  <2> QED BY <2>3, <2>4
<1>3. ASSUME NEW q \in Payment, WriteHead(q) \/ WriteBody(q) PROVE Stands(p)'
  <2>1. Sending' = Sending /\ (Clean(p)' => Clean(p))
    BY <1>3 DEF WriteHead, WriteBody, Sending, Clean, history
  <2> QED BY <1>3, <2>1, OthersStand, WriterStands
<1>4. ASSUME NEW q \in Payment, Finish(q) PROVE Stands(p)'
  <2>1. Sending' \subseteq Sending
    BY <1>0, <1>4 DEF Finish, Lose, Sending, TypeOK
  <2> QED BY <1>1, <1>4, <2>1 DEF Finish, screen, buffers, payments, history, Clean
<1>5. ASSUME NEW d \in Device, Cut(d) PROVE Stands(p)'
  <2>1. Sending' \subseteq Sending
    BY <1>0, <1>5 DEF Cut, Lose, Sending, TypeOK
  <2> QED BY <1>1, <1>5, <2>1 DEF Cut, screen, buffers, payments, history, Clean
<1>6. ASSUME (\E w \in Wallet : Open(w)) \/ Close PROVE Stands(p)'
  <2>1. unheard' = unheard \cup Sending /\ send' = send
    BY <1>6 DEF Open, Close, senders
  <2> QED BY <2>1 DEF Sending, Clean
<1>7. ASSUME NEW s \in starting, Ready(s) PROVE Stands(p)'
  <2>1. p \in Sending /\ Clean(p)
    BY <1>7 DEF Ready, senders, history, Sending, Clean
  <2>2. session # NoStart
    BY <1>0, <2>1 DEF Steady, Stands
  <2>3. s # current
    BY <1>0, <2>2 DEF Numbered
  <2> QED BY <1>1, <1>7, <2>1, <2>3 DEF Ready, senders, buffers, payments, Sending
<1>8. ASSUME NEW k \in Keys, Elapse(k) PROVE Stands(p)'
  <2>1. p \in Sending /\ Clean(p) /\ Sending' = Sending
    BY <1>8 DEF Elapse, senders, history, Sending, Clean
  <2>2. Stands(p) /\ k # Key(p)
    BY <1>0, <1>8, <2>1 DEF Steady, Elapse
  <2>3. pending'[Key(p)] = pending[Key(p)]
    BY <1>0, <1>8, <2>2, Typing DEF Elapse, Keep, TypeOK
  <2> QED BY <1>8, <2>1, <2>2, <2>3
          DEF Elapse, senders, screen, payments, Stands, HeadChunk, Got, FrameOf, Key, Whole
<1>9. ASSUME NEW q \in Payment, ElapseSession(q) PROVE Stands(p)'
  BY <1>9 DEF ElapseSession, senders, Sending
<1>10. ASSUME NEW q \in Payment, Enqueue(q) \/ Refuse(q) \/ Receive(q) PROVE Stands(p)'
  <2>1. Sending' = Sending /\ Clean(p)
    BY <1>10 DEF Enqueue, Refuse, Receive, senders, history, Sending, Clean
  <2> QED BY <1>1, <1>10, <2>1 DEF Enqueue, Refuse, Receive, senders, screen, buffers
<1>11. ASSUME Kill PROVE Stands(p)'
  <2>1. Sending' = {}
    BY <1>0, <1>11 DEF Kill, Lose, Sending, TypeOK
  <2> QED BY <2>1
<1>12. CASE UNCHANGED vars
  <2>1. Sending' = Sending /\ Clean(p)
    BY <1>12 DEF vars, senders, history, Sending, Clean
  <2> QED BY <1>1, <1>12, <2>1 DEF vars, senders, screen, buffers, payments
<1> QED BY <1>2, <1>3, <1>4, <1>5, <1>6, <1>7, <1>8, <1>9, <1>10, <1>11, <1>12 DEF Next

\* Nothing is taken back from what was handed over.
LEMMA HandedGrows == IInv /\ [Next]_vars => handed \subseteq handed'
<1> SUFFICES ASSUME IInv, [Next]_vars PROVE handed \subseteq handed'
  OBVIOUS
<1>0. TypeOK /\ Fresh
  BY DEF IInv
<1>1. ASSUME NEW p \in Payment, WriteHead(p) \/ WriteBody(p) PROVE handed \subseteq handed'
  <2>1. PICK chunk \in Chunk : Listen(Key(p), chunk)
    <3>1. frame[p] <= Frames
      BY <1>0, <1>1, ChunkTypes DEF WriteHead, WriteBody
    <3> QED BY <1>0, <1>1, <3>1, ChunkTypes DEF WriteHead, WriteBody, HeadChunk, BodyChunk
  <2> DEFINE k == Key(p)
  <2>2. k \in Keys
    BY Typing
  <2>3. CASE UNCHANGED payments
    BY <2>3 DEF payments
  <2>4. CASE Len(pending[k]) = 1 /\ GetSessionFrames(FrameOf(pending[k][1], chunk))
    <3> DEFINE f == FrameOf(pending[k][1], chunk)
    <3>1. pending[k] \in Seq(Chunk)
      BY <1>0, <2>2 DEF TypeOK
    <3>2. pending[k][1] \in Chunk
      BY <2>4, <3>1
    <3>3. f \in Frame
      BY <3>2 DEF FrameOf, Frame, Chunk, Piece
    <3> HIDE DEF f
    <3>4. UNCHANGED payments \/ \E c \in Payment : OnPayment(Whole(c))
      BY <1>0, <2>4, <3>3, FrameCases DEF f
    <3> QED BY <1>0, <2>3, <3>4, PaymentEffect
  <2> QED BY <1>0, <2>1, <2>2, <2>3, <2>4, ListenCases DEF payments
<1>2. CASE UNCHANGED handed
  BY <1>2
<1>3. CASE UNCHANGED vars
  BY <1>3 DEF vars, payments
<1> QED BY <1>1, <1>2, <1>3
        DEF Next, Connect, Finish, Cut, Open, Close, Ready, Elapse, ElapseSession, Enqueue, Refuse,
            Receive, Kill, payments

\* A transfer that is clean to its end is handed over by its last chunk.
LEMMA CleanInductive == IInv /\ [Next]_vars => CleanIsHanded'
<1> SUFFICES ASSUME IInv, [Next]_vars, NEW p \in Payment, send'[p] = "shared", Clean(p)'
             PROVE  Whole(p) \in handed'
  BY DEF CleanIsHanded, Clean, Whole
<1>0. TypeOK /\ Steady /\ CleanIsHanded /\ handed \subseteq handed'
  BY HandedGrows DEF IInv
<1>1. CASE send[p] = "shared" /\ Clean(p)
  BY <1>0, <1>1 DEF CleanIsHanded, Clean
<1>2. ASSUME NEW q \in Payment, Finish(q) PROVE Whole(p) \in handed'
  <2>1. Clean(p) /\ (send[p] = "shared" \/ (p = q /\ p \in Sending /\ frame[p] > Frames))
    BY <1>0, <1>2 DEF Finish, Lose, Sending, TypeOK, history, Clean
  <2> QED BY <1>0, <1>1, <2>1 DEF Steady, Stands
<1>3. Clean(p)
  BY DEF Next, vars, Connect, WriteHead, WriteBody, Finish, Cut, Open, Close, Ready, Elapse,
         ElapseSession, Enqueue, Refuse, Receive, Kill, history, Clean
<1>4. CASE send' = send \/ (\E q \in Payment : Connect(q)) \/ (\E d \in Device : Cut(d)) \/ Kill
  <2>1. send[p] = "shared"
    BY <1>0, <1>4 DEF Connect, Cut, Kill, Lose, Sending, TypeOK
  <2> QED BY <1>1, <1>3, <2>1
<1> QED BY <1>2, <1>4
        DEF Next, vars, WriteHead, WriteBody, Open, Close, Ready, Elapse, ElapseSession, Enqueue,
            Refuse, Receive, senders

----------------------------------------------------------------------------
(* The refinement of Delivery.                                              *)

\* What onPayment carries was handed to it.
Arrived == \A p \in Payment : handler[p].at # "idle" => Whole(p) \in handed

\* A head hands nothing over.
LEMMA HeadDelivers ==
  ASSUME TypeOK, Fresh, NEW p \in Payment, WriteHead(p)
  PROVE  UNCHANGED <<frame, payments>>
<1>1. Listen(Key(p), HeadChunk(p)) /\ HeadChunk(p) \in Chunk /\ Key(p) \in Keys
  BY ChunkTypes DEF WriteHead, HeadChunk
<1>2. HeadChunk(p).part # "body"
  BY DEF HeadChunk
<1> QED BY <1>1, <1>2, ListenCases DEF WriteHead

\* A body hands over nothing but its own payment, and only if it is the last one.
LEMMA BodyDelivers ==
  ASSUME IInv, NEW p \in Payment, WriteBody(p)
  PROVE  /\ frame' = [frame EXCEPT ![p] = frame[p] + 1] /\ frame[p] \in 1..Frames
         /\ \/ UNCHANGED payments
            \/ frame[p] = Frames /\ OnPayment(Whole(p))
<1>0. TypeOK /\ Fresh /\ Written
  BY DEF IInv
<1>1. /\ frame' = [frame EXCEPT ![p] = frame[p] + 1] /\ frame[p] \in 1..Frames
      /\ frame \in [Payment -> 1..Frames + 1] /\ Frames \in Nat
  BY <1>0, FramesAssumption DEF WriteBody, Fresh, TypeOK
<1> DEFINE k == Key(p)
           h == pending[k][1]
           f == FrameOf(h, BodyChunk(p))
<1>2. Listen(k, BodyChunk(p)) /\ BodyChunk(p) \in Chunk /\ k \in Keys
  BY <1>0, <1>1, ChunkTypes DEF WriteBody, BodyChunk
<1>3. CASE Len(pending[k]) = 1 /\ GetSessionFrames(f)
  <2>1. pending[k] \in Seq(Chunk)
    BY <1>0, <1>2 DEF TypeOK
  <2>2. h \in Chunk
    BY <1>3, <2>1
  <2>3. f \in Frame /\ f.data = [payment |-> p, index |-> frame[p]]
    BY <1>2, <2>2 DEF FrameOf, Frame, Chunk, Piece, BodyChunk
  <2> HIDE DEF f
  <2>4. CASE \E c \in Payment :
               /\ OnPayment(Whole(c))
               /\ f.data = [payment |-> c, index |-> f.index]
               /\ \E g \in Joined(f) : g.data = [payment |-> c, index |-> Frames]
    <3>1. PICK c \in Payment :
               /\ OnPayment(Whole(c))
               /\ f.data = [payment |-> c, index |-> f.index]
               /\ \E g \in Joined(f) : g.data = [payment |-> c, index |-> Frames]
      BY <2>4
    <3>2. c = p /\ f.index = frame[p]
      BY <2>3, <3>1
    <3>3. PICK g \in Joined(f) : g.data = [payment |-> p, index |-> Frames]
      BY <3>1, <3>2
    <3>4. CASE g = f
      <4>1. f.data.index = frame[p] /\ f.data.index = Frames
        BY <2>3, <3>3, <3>4
      <4> QED BY <1>1, <3>1, <3>2, <4>1
    <3>5. CASE g # f
      <4>1. g \in sessions[f.session] /\ f.session \in Payment
        BY <2>3, <3>3, <3>5 DEF Joined, Frame
      <4>2. Frames < frame[p]
        BY <1>0, <3>3, <4>1 DEF Written
      <4> QED BY <1>1, <4>2
    <3> QED BY <3>4, <3>5
  <2> QED BY <1>0, <1>1, <1>3, <2>3, <2>4, FrameCases
<1> QED BY <1>0, <1>1, <1>2, <1>3, ListenCases DEF payments

\* A step that leaves alone what Delivery sees.
LEMMA NothingDelivered ==
  ASSUME frame' = frame, UNCHANGED <<handed, queue, receipts>>
  PROVE  UNCHANGED Delivering!vars
BY DEF Delivering!vars

\* Every step is a step of Delivery or leaves what it sees alone.
LEMMA StepDelivers ==
  ASSUME IInv, Arrived, [Next]_vars
  PROVE  [Delivering!Next]_(Delivering!vars) /\ Arrived'
<1>0. /\ TypeOK /\ Fresh /\ Carried /\ QueuedForItsWallet
      /\ handler \in [Payment -> [at : {"idle", "queueing", "queued"}, wallet : Wallet \cup {NoWallet}]]
      /\ handed \subseteq handed'
  BY HandedGrows DEF IInv, TypeOK
<1>k. \A p \in Payment : Whole(p)' = Whole(p)
  BY DEF Whole
<1>1. CASE frame' = frame /\ UNCHANGED <<handed, handler, queue, receipts>>
  BY <1>1, <1>k, NothingDelivered DEF Arrived
<1>2. ASSUME NEW p \in Payment, WriteHead(p)
      PROVE  [Delivering!Next]_(Delivering!vars) /\ Arrived'
  BY <1>0, <1>1, <1>2, HeadDelivers DEF payments
<1>3. ASSUME NEW p \in Payment, WriteBody(p)
      PROVE  [Delivering!Next]_(Delivering!vars) /\ Arrived'
  <2>1. /\ frame' = [frame EXCEPT ![p] = frame[p] + 1] /\ frame[p] \in 1..Frames
        /\ UNCHANGED payments \/ (frame[p] = Frames /\ OnPayment(Whole(p)))
    BY <1>3, BodyDelivers DEF IInv
  <2>2. /\ frame \in [Payment -> 1..Frames + 1] /\ Frames \in Nat
        /\ \A q \in Payment \ {p} : frame'[q] = frame[q]
        /\ frame'[p] = frame[p] + 1
    BY <1>0, <2>1, FramesAssumption DEF TypeOK
  <2> DEFINE done == {q \in Payment : frame[q] > Frames}
             then == {q \in Payment : frame'[q] > Frames}
  <2>3. p \notin done
    BY <2>1, <2>2
  <2>4. UNCHANGED <<queue, receipts>> /\ handed' \in {handed, handed \cup {Whole(p)}}
    BY <1>0, <2>1, PaymentEffect DEF payments
  <2>5. Arrived'
    <3>1. CASE UNCHANGED payments
      BY <1>k, <3>1 DEF payments, Arrived
    <3>2. CASE OnPayment(Whole(p))
      <4>1. /\ Whole(p) \in handed'
            /\ \A q \in Payment \ {p} : handler'[q] = handler[q]
        BY <1>0, <3>2, PaymentEffect
      <4> QED BY <1>0, <1>k, <4>1 DEF Arrived
    <3> QED BY <2>1, <3>1, <3>2
  <2>6. CASE frame[p] = Frames
    <3>1. then = done \cup {p}
      BY <2>2, <2>6
    <3>2. Delivering!Write(p)
      BY <1>k, <2>3, <2>4, <3>1 DEF Delivering!Write
    <3> QED BY <2>5, <3>2 DEF Delivering!Next
  <2>7. CASE frame[p] # Frames
    <3>1. then = done
      BY <2>1, <2>2, <2>7
    <3>2. handed' = handed
      BY <2>1, <2>7 DEF payments
    <3> QED BY <2>4, <2>5, <3>1, <3>2 DEF Delivering!vars
  <2> QED BY <2>6, <2>7
<1>4. ASSUME NEW p \in Payment, Enqueue(p)
      PROVE  [Delivering!Next]_(Delivering!vars) /\ Arrived'
  <2>1. /\ handler[p].at = "queueing" /\ handler[p].wallet = To[p] /\ Whole(p) \in handed
        /\ \A q \in Payment \ {p} : handler'[q] = handler[q]
        /\ queue' = queue \cup {[payment |-> p, wallet |-> handler[p].wallet]}
        /\ UNCHANGED <<frame, handed, receipts>>
    BY <1>0, <1>4 DEF Enqueue, senders, Carried, Arrived
  <2>2. Delivering!Queue(p)
    BY <2>1 DEF Delivering!Queue, Delivering!Item
  <2> QED BY <1>0, <1>k, <2>1, <2>2 DEF Delivering!Next, Arrived
<1>5. ASSUME NEW p \in Payment, Receive(p)
      PROVE  [Delivering!Next]_(Delivering!vars) /\ Arrived'
  <2>1. /\ [payment |-> p, wallet |-> To[p]] \in queue
        /\ receipts' = receipts \cup {p}
        /\ UNCHANGED <<frame, handed, queue>>
        /\ \A q \in Payment : handler'[q] = handler[q] \/ handler'[q].at = "idle"
    BY <1>0, <1>5 DEF Receive, senders, Carried, Idle
  <2>2. Delivering!Receive(p)
    BY <2>1 DEF Delivering!Receive, Delivering!Item
  <2> QED BY <1>k, <2>1, <2>2 DEF Delivering!Next, Arrived
<1>6. CASE (\E p \in Payment : Refuse(p)) \/ Kill
  <2>1. /\ UNCHANGED <<frame, handed, queue, receipts>>
        /\ \A q \in Payment : handler'[q] = handler[q] \/ handler'[q].at = "idle"
    BY <1>0, <1>6 DEF Refuse, Kill, senders, Idle
  <2> QED BY <1>k, <2>1, NothingDelivered DEF Arrived
<1>7. CASE UNCHANGED vars
  BY <1>1, <1>7 DEF vars, senders, payments
<1> QED BY <1>1, <1>2, <1>3, <1>4, <1>5, <1>6, <1>7
        DEF Next, Connect, Finish, Cut, Open, Close, Ready, Elapse, ElapseSession, senders, payments

\* The initial states are Delivery's.
LEMMA InitDelivers == Init => Delivering!Init /\ Arrived
<1> SUFFICES ASSUME Init PROVE Delivering!Init /\ Arrived
  OBVIOUS
<1>1. \A p \in Payment : ~(frame[p] > Frames) /\ handler[p].at = "idle"
  BY FramesAssumption DEF Init, Idle
<1> QED BY <1>1 DEF Init, Delivering!Init, Arrived

----------------------------------------------------------------------------
(* The theorems.                                                            *)

\* The inductive invariant holds in every reachable state.
THEOREM Invariance == Spec => []IInv
<1>1. IInv /\ [Next]_vars => IInv'
  BY TypeInductive, NumberedInductive, FreshInductive, WrittenInductive, CarriedInductive,
     SteadyInductive, CleanInductive DEF IInv
<1> QED BY <1>1, InitIInv, PTL DEF Spec

\* The state keeps its shape: only the latest run of the effect listens, no buffer
\* outgrows its limit, a session holds only its own frames.
THEOREM TypeCorrect == Spec => []TypeOK
<1>1. IInv => TypeOK
  BY DEF IInv
<1> QED BY <1>1, Invariance, PTL

\* What the listener hands over is one payment, whole and wholly written, however the
\* chunks of several senders mix.
THEOREM HandedWhole == Spec => []HandedIsWhole
<1>1. IInv => HandedIsWhole
  BY DEF IInv
<1> QED BY <1>1, Invariance, PTL

\* A transfer nothing interferes with is handed over when its sender is told so.
THEOREM CleanHanded == Spec => []CleanIsHanded
<1>1. IInv => CleanIsHanded
  BY DEF IInv
<1> QED BY <1>1, Invariance, PTL

\* A payment is queued only for the wallet it pays, and a receipt has its item.
THEOREM QueuedRight == Spec => []QueuedForItsWallet
<1>1. IInv => QueuedForItsWallet
  BY DEF IInv
<1> QED BY <1>1, Invariance, PTL

\* With the native calls of the starts answered in order, a listening phone can be found.
THEOREM ListenerFound ==
  ASSUME InOrder
  PROVE  Spec => []ListenerIsFound
<1>1. IInv => ListenerIsFound
  BY DEF IInv, Found
<1> QED BY <1>1, Invariance, PTL

(***************************************************************************)
(* The listener, however chunks mix and links are cut, and the receive     *)
(* screen, however it is restarted, implement Delivery.                    *)
(***************************************************************************)
THEOREM ImplementsDelivery == Spec => DeliveredWhole
<1>1. IInv /\ Arrived /\ [Next]_vars => [Delivering!Next]_(Delivering!vars) /\ Arrived'
  BY StepDelivers
<1>2. Init => Delivering!Init /\ Arrived
  BY InitDelivers
<1> QED BY <1>1, <1>2, Invariance, PTL DEF Spec, Delivering!Spec, DeliveredWhole
=================================================================================
