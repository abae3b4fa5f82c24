------------------------------- MODULE BleTransfer -------------------------------
(***************************************************************************)
(* The delivery of a signed offline payment over Bluetooth: the sender's   *)
(* write loop (lib/offline/offline-ble-transport.ts), the framing it uses  *)
(* (lib/offline/offline-ble-protocol.ts), the listener that puts the       *)
(* chunks back together, and the receive screen's effect that starts and   *)
(* stops the listener and queues what it hands over                        *)
(* (hooks/useOfflineBleReceiver.ts).                                       *)
(*                                                                         *)
(* One receiving phone, any number of sending ones.  A frame is written in *)
(* chunks of 180 bytes; two stand for them: the head, which ends within    *)
(* the frame's header, and the body, with the checksum and the data.  A    *)
(* wallet stands for a wallet on a network.                                *)
(***************************************************************************)
EXTENDS Naturals, Sequences

CONSTANTS
    Device,      \* the sending phones
    Payment,     \* the signed payments; each is sent once
    Wallet,      \* the wallets the receiving phone may have active
    Named,       \* those whose writes carry a device id
    From,        \* the phone that sends a payment
    To,          \* the wallet a payment is addressed to
    Frames,      \* the frames of a payment
    MaxPending,  \* the chunks that fit in 32,768 hexadecimal characters
    MaxStarts,   \* bound: starts of the receiver
    InOrder,     \* are the starts' native calls answered in the order asked?
    NoName,      \* the key 'default' of a phone whose writes carry no id
    NoWallet

ASSUME NamedAssumption == Named \in SUBSET Device
ASSUME FromAssumption == From \in [Payment -> Device]
ASSUME ToAssumption == To \in [Payment -> Wallet]
ASSUME FramesAssumption == Frames \in Nat \ {0}
ASSUME MaxPendingAssumption == MaxPending \in Nat /\ MaxPending >= 2
ASSUME MaxStartsAssumption == MaxStarts \in Nat
ASSUME InOrderAssumption == InOrder \in BOOLEAN
ASSUME NoNameAssumption == NoName \notin Device
ASSUME NoWalletAssumption == NoWallet \notin Wallet

Chunk == [payment : Payment, index : 1..Frames, part : {"head", "body"}]

\* What the receiver reads from a head and a body: the session of the head, the
\* checksum and the data of the body.
Piece == [payment : Payment, index : 1..Frames]
Frame == [session : Payment, index : 1..Frames, check : Payment, data : Piece]
Text == [1..Frames -> Piece]

\* One run of the effect that starts the receiver, for the wallet of that render.
Start == [id : 1..MaxStarts, wallet : Wallet]
NoStart == [id |-> 0, wallet |-> NoWallet]

VARIABLES
    \* the senders
    send,        \* what a payment's sender was told: a toast, or nothing yet
    frame,       \* the frame a sender writes next
    half,        \* is the head of that frame written?
    \* the receiver
    starts,      \* how many times the effect ran
    starting,    \* the runs that still await the native module
    current,     \* the run that is not cancelled
    session,     \* the run whose listener is subscribed
    identity,    \* the wallet the identity characteristic tells
    advertising,
    pending,     \* pendingFrameWrites: the text so far, of each key
    sessions,    \* the frames so far, of each session
    handed,      \* the texts handed to onPayment
    handled,     \* handledTxIds
    handler,     \* how far onPayment is with a payment, and for which wallet
    queue,       \* the receiving phone's pending-backup queue (persisted)
    receipts,    \* its receipts (persisted)
    \* history
    unheard,     \* a listener was missing or changed during the transfer
    crossed,     \* another transfer used the same buffer at the same time
    leftover     \* the buffer held a cut transfer's chunks when this one began

senders == <<send, frame, half>>
screen == <<starts, starting, current, session, identity, advertising>>
buffers == <<pending, sessions>>
payments == <<handed, handled, handler, queue, receipts>>
history == <<unheard, crossed, leftover>>
vars == <<senders, screen, buffers, payments, history>>

----------------------------------------------------------------------------
Keys == Device \cup {NoName}
Key(p) == IF From[p] \in Named THEN From[p] ELSE NoName

Sending == {p \in Payment : send[p] = "connected"}

\* The text of a payment, which its checksum is the checksum of.
Whole(p) == [i \in 1..Frames |-> [payment |-> p, index |-> i]]

NoPending == [k \in Keys |-> <<>>]
NoSessions == [p \in Payment |-> {}]
Idle == [at |-> "idle", wallet |-> NoWallet]

Init ==
    /\ send = [p \in Payment |-> "nothing"]
    /\ frame = [p \in Payment |-> 1]
    /\ half = [p \in Payment |-> FALSE]
    /\ starts = 0
    /\ starting = {}
    /\ current = NoStart
    /\ session = NoStart
    /\ identity = NoWallet
    /\ advertising = FALSE
    /\ pending = NoPending
    /\ sessions = NoSessions
    /\ handed = {}
    /\ handled = {}
    /\ handler = [p \in Payment |-> Idle]
    /\ queue = {}
    /\ receipts = {}
    /\ unheard = {}
    /\ crossed = {}
    /\ leftover = {}

----------------------------------------------------------------------------
(* What the receiver makes of a payment it was handed.                      *)

\* A mutant for the checks: the recipient is not compared with the wallet.
AcceptsAny(p) == p \notin handled

Accepts(p) == To[p] = session.wallet /\ p \notin handled

OnPayment(text) ==
    LET p == text[1].payment IN
    /\ handed' = handed \cup {text}
    /\ IF Accepts(p)
         THEN /\ handled' = handled \cup {p}
              /\ handler' = [handler EXCEPT ![p] = [at |-> "queueing", wallet |-> session.wallet]]
         ELSE UNCHANGED <<handled, handler>>
    /\ UNCHANGED <<queue, receipts>>

\* The frames' data in the order of their indexes.
TextOf(got) == [i \in 1..Frames |-> (CHOOSE f \in got : f.index = i).data]

\* A mutant for the checks: the frames are joined without their checksum.
ReassemblesUnchecked(got) == TRUE

Reassembles(got) == \E c \in Payment :
    /\ \A f \in got : f.check = c
    /\ TextOf(got) = Whole(c)

Reassemble(got) ==
    IF Reassembles(got) THEN OnPayment(TextOf(got)) ELSE UNCHANGED payments

\* A frame with an index already there replaces it; all the indexes end the session.
GetSessionFrames(f) ==
    LET got == {g \in sessions[f.session] : g.index # f.index} \cup {f} IN
    IF {g.index : g \in got} = 1..Frames
      THEN /\ sessions' = [sessions EXCEPT ![f.session] = {}]
           /\ Reassemble(got)
      ELSE /\ sessions' = [sessions EXCEPT ![f.session] = got]
           /\ UNCHANGED payments

(* What the listener makes of a chunk.                                      *)

FrameOf(head, body) ==
    [session |-> head.payment, index |-> head.index, check |-> body.payment,
     data |-> [payment |-> body.payment, index |-> body.index]]

\* How a text reads: as a frame, as JSON that is none, or as no JSON (yet).  A head and
\* a body of one frame are that frame; of two, what the lengths happen to make them.
Readings == {"frame", "invalid", "partial"}

HeadAndBody(text) == Len(text) = 2 /\ text[1].part = "head" /\ text[2].part = "body"

Parses(text) ==
    IF ~HeadAndBody(text) THEN {"partial"}
    ELSE IF text[1].payment = text[2].payment /\ text[1].index = text[2].index
      THEN {"frame"}
    ELSE Readings

\* A mutant for the checks: a frame that was read stays in the buffer.
KeepForgetful(k, text) == pending' = [pending EXCEPT ![k] = IF text = <<>> THEN @ ELSE text]

Keep(k, text) == pending' = [pending EXCEPT ![k] = text]

\* A text may still become JSON if it began as JSON does, or goes on from one that did.
MayGoOn(k, text) == pending[k] # <<>> \/ text[1].part = "head"

Take(k, text, reading) ==
    IF Len(text) > MaxPending THEN Keep(k, <<>>) /\ UNCHANGED <<sessions, payments>>
    ELSE IF reading = "frame"
      THEN Keep(k, <<>>) /\ GetSessionFrames(FrameOf(text[1], text[2]))
    ELSE /\ Keep(k, IF reading = "partial" /\ MayGoOn(k, text) THEN text ELSE <<>>)
         /\ UNCHANGED <<sessions, payments>>

\* A write request; nobody hears it while no listener is subscribed.
Listen(k, chunk) ==
    IF session = NoStart THEN UNCHANGED <<buffers, payments>>
    ELSE LET text == Append(pending[k], chunk)
         IN  \E reading \in Parses(text) : Take(k, text, reading)

----------------------------------------------------------------------------
(* The sending phones.                                                      *)

\* The sender reads the wallet from the identity characteristic before it writes.
Connect(p) ==
    LET others == {q \in Sending : Key(q) = Key(p)} IN
    /\ send[p] = "nothing"
    /\ identity = To[p]
    /\ send' = [send EXCEPT ![p] = "connected"]
    /\ unheard' = IF session = NoStart THEN unheard \cup {p} ELSE unheard
    /\ crossed' = IF others = {} THEN crossed ELSE crossed \cup others \cup {p}
    /\ leftover' = IF pending[Key(p)] = <<>> THEN leftover ELSE leftover \cup {p}
    /\ UNCHANGED <<frame, half, screen, buffers, payments>>

WriteHead(p) ==
    /\ send[p] = "connected" /\ frame[p] <= Frames /\ ~half[p]
    /\ half' = [half EXCEPT ![p] = TRUE]
    /\ Listen(Key(p), [payment |-> p, index |-> frame[p], part |-> "head"])
    /\ UNCHANGED <<send, frame, screen, history>>

WriteBody(p) ==
    /\ send[p] = "connected" /\ half[p]
    /\ half' = [half EXCEPT ![p] = FALSE]
    /\ frame' = [frame EXCEPT ![p] = frame[p] + 1]
    /\ Listen(Key(p), [payment |-> p, index |-> frame[p], part |-> "body"])
    /\ UNCHANGED <<send, screen, history>>

\* 'Bluetooth delivery pending': a write was rejected; the payment is queued.
Lose(lost) == [q \in Payment |-> IF q \in lost THEN "pending" ELSE send[q]]

\* 'Signed payment shared'.  The sender then disconnects, and with it whatever else
\* this phone still writes over that connection.
Finish(p) ==
    /\ send[p] = "connected" /\ frame[p] > Frames
    /\ send' = [Lose({q \in Sending : From[q] = From[p]}) EXCEPT ![p] = "shared"]
    /\ UNCHANGED <<frame, half, screen, buffers, payments, history>>

\* The link is lost, or the sending app is killed.
Cut(d) ==
    /\ \E p \in Sending : From[p] = d
    /\ send' = Lose({q \in Sending : From[q] = d})
    /\ UNCHANGED <<frame, half, screen, buffers, payments, history>>

----------------------------------------------------------------------------
(* The receiving phone: the effect of the receive screen.                   *)

\* The wallet or the network changed: handledTxIds is cleared.
Cleared(w) == IF current # NoStart /\ current.wallet # w THEN {} ELSE handled

\* A mutant for the checks: the effect runs again and the old listener stays subscribed.
OpenSubscribed(w) ==
    /\ starts < MaxStarts
    /\ starts' = starts + 1
    /\ current' = [id |-> starts + 1, wallet |-> w]
    /\ starting' = starting \cup {current'}
    /\ handled' = Cleared(w)
    /\ unheard' = unheard \cup Sending
    /\ UNCHANGED <<senders, session, identity, advertising, buffers, handed, handler, queue,
                   receipts, crossed, leftover>>

Open(w) ==
    /\ starts < MaxStarts
    /\ starts' = starts + 1
    /\ current' = [id |-> starts + 1, wallet |-> w]
    /\ starting' = starting \cup {current'}
    /\ session' = NoStart
    /\ advertising' = (advertising /\ session = NoStart)
    /\ handled' = Cleared(w)
    /\ unheard' = unheard \cup Sending
    /\ UNCHANGED <<senders, identity, buffers, handed, handler, queue, receipts, crossed,
                   leftover>>

\* A mutant for the checks: the screen is left and its listener stays subscribed.
CloseSubscribed ==
    /\ current # NoStart
    /\ advertising' = (advertising /\ session = NoStart)
    /\ UNCHANGED <<senders, starts, starting, current, session, identity, buffers, payments,
                   history>>

\* The wallet leaves offline mode, or the screen is left: then its handledTxIds go too.
Close ==
    /\ current # NoStart
    /\ current' = NoStart
    /\ session' = NoStart
    /\ advertising' = (advertising /\ session = NoStart)
    /\ unheard' = unheard \cup Sending
    /\ handled' \in {handled, {}}
    /\ UNCHANGED <<senders, starts, starting, identity, buffers, handed, handler, queue,
                   receipts, crossed, leftover>>

\* The native module answered: the services are set, the phone advertises and the
\* listener is subscribed with empty maps.  A run cancelled meanwhile stops at once,
\* and stopping ends the advertising of the phone.
Ready(s) ==
    /\ s \in starting
    /\ InOrder => \A t \in starting : s.id <= t.id
    /\ starting' = starting \ {s}
    /\ identity' = s.wallet
    /\ IF s = current
         THEN /\ session' = s
              /\ advertising' = TRUE
              /\ pending' = NoPending
              /\ sessions' = NoSessions
         ELSE /\ advertising' = FALSE
              /\ UNCHANGED <<session, buffers>>
    /\ UNCHANGED <<senders, starts, current, payments, history>>

\* Two minutes without a write of this key, or without a frame of this session.
Elapse(k) ==
    /\ pending[k] # <<>>
    /\ \A p \in Sending : Key(p) # k
    /\ Keep(k, <<>>)
    /\ UNCHANGED <<senders, screen, sessions, payments, history>>

ElapseSession(p) ==
    /\ sessions[p] # {} /\ Sending = {}
    /\ sessions' = [sessions EXCEPT ![p] = {}]
    /\ UNCHANGED <<senders, screen, pending, payments, history>>

----------------------------------------------------------------------------
(* The receiving phone: onPayment after it accepted a payment.              *)

\* enqueueReceivedOfflineSignedPayment: the transaction is verified and queued.
Enqueue(p) ==
    /\ handler[p].at = "queueing"
    /\ handler' = [handler EXCEPT ![p].at = "queued"]
    /\ queue' = queue \cup {[payment |-> p, wallet |-> handler[p].wallet]}
    /\ UNCHANGED <<senders, screen, buffers, handed, handled, receipts, history>>

\* It throws, before or after the item is written.
Refuse(p) ==
    /\ handler[p].at \in {"queueing", "queued"}
    /\ handler' = [handler EXCEPT ![p] = Idle]
    /\ handled' = handled \ {p}
    /\ UNCHANGED <<senders, screen, buffers, handed, queue, receipts, history>>

\* addReceipt, the notification and the settlement engine's requestRun.
Receive(p) ==
    /\ handler[p].at = "queued"
    /\ handler' = [handler EXCEPT ![p] = Idle]
    /\ receipts' = receipts \cup {p}
    /\ UNCHANGED <<senders, screen, buffers, handed, handled, queue, history>>

\* The receiving app is killed: everything but the queue and the receipts is lost.
Kill ==
    /\ starts > 0
    /\ send' = Lose(Sending)
    /\ starting' = {}
    /\ current' = NoStart /\ session' = NoStart
    /\ identity' = NoWallet /\ advertising' = FALSE
    /\ pending' = NoPending /\ sessions' = NoSessions
    /\ handled' = {}
    /\ handler' = [p \in Payment |-> Idle]
    /\ UNCHANGED <<frame, half, starts, handed, queue, receipts, history>>

----------------------------------------------------------------------------
Next ==
    \/ \E p \in Payment :
          Connect(p) \/ WriteHead(p) \/ WriteBody(p) \/ Finish(p)
          \/ ElapseSession(p) \/ Enqueue(p) \/ Refuse(p) \/ Receive(p)
    \/ \E d \in Device : Cut(d)
    \/ \E w \in Wallet : Open(w)
    \/ Close
    \/ \E s \in starting : Ready(s)
    \/ \E k \in Keys : Elapse(k)
    \/ Kill

Spec == Init /\ [][Next]_vars

----------------------------------------------------------------------------
(* Properties.                                                              *)

\* The shape of the state, and what ties it together: only the effect's latest run
\* listens, no buffer outgrows its limit, and a session holds only its own frames.
TypeOK ==
    /\ send \in [Payment -> {"nothing", "connected", "shared", "pending"}]
    /\ frame \in [Payment -> 1..Frames + 1]
    /\ half \in [Payment -> BOOLEAN]
    /\ starts \in 0..MaxStarts
    /\ starting \in SUBSET Start
    /\ current \in Start \cup {NoStart}
    /\ session \in {NoStart, current}
    /\ identity \in Wallet \cup {NoWallet}
    /\ advertising \in BOOLEAN
    /\ pending \in [Keys -> Seq(Chunk)]
    /\ \A k \in Keys : Len(pending[k]) <= MaxPending
    /\ sessions \in [Payment -> SUBSET Frame]
    /\ \A p \in Payment : \A f \in sessions[p] : f.session = p
    /\ handed \in SUBSET Text
    /\ handled \in SUBSET Payment
    /\ handler \in [Payment -> [at : {"idle", "queueing", "queued"}, wallet : Wallet \cup {NoWallet}]]
    /\ queue \in SUBSET [payment : Payment, wallet : Wallet]
    /\ receipts \in SUBSET Payment
    /\ unheard \in SUBSET Payment
    /\ crossed \in SUBSET Payment
    /\ leftover \in SUBSET Payment

\* A text handed to the receive screen is one payment's, every piece of it in its
\* place, and its sender has written all of it: no mix of two senders, of two
\* payments of one sender, or of a cut transfer and the next one gets through
\* (reassembleOfflineBlePayload).
HandedIsWhole ==
    \A text \in handed : \E p \in Payment : text = Whole(p) /\ frame[p] > Frames

\* A transfer that met one listener from its first write to its last, and had its
\* key's buffer to itself from empty, was handed over when its sender is told
\* 'Signed payment shared': the listener loses nothing by itself.
CleanIsHanded ==
    \A p \in Payment : send[p] = "shared" /\ p \notin unheard \cup crossed \cup leftover
        => Whole(p) \in handed

\* A received payment is queued only for the wallet it pays, whichever wallet is
\* active when its last frame arrives (the recipient check of onPayment), and a
\* receipt 'Payment received' stands for such an item: the engine settles only the
\* items of the wallet that is active.
QueuedForItsWallet ==
    /\ \A item \in queue : item.wallet = To[item.payment]
    /\ \A p \in receipts : [payment |-> p, wallet |-> To[p]] \in queue

\* A subscribed listener can be found: the phone advertises, and the wallet its
\* identity tells is the one the listener takes payments for, whatever starts and
\* stops crossed.  It needs the starts' native calls answered in order.
ListenerIsFound ==
    session # NoStart => advertising /\ identity = session.wallet

\* What the sender is told, 'Signed payment shared. The receiver can confirm it
\* offline.' (PrivatePaymentSendFlow.tsx), taken at its word for a receiver that
\* listened all along to this one transfer.
SharedIsHanded ==
    \A p \in Payment : send[p] = "shared" /\ p \notin unheard \cup crossed
        => Whole(p) \in handed

\* The transfer as Delivery sees it.
Delivering ==
    INSTANCE Delivery
      WITH Content <- [p \in Payment |-> Whole(p)],
           written <- {p \in Payment : frame[p] > Frames},
           arrived <- handed, queued <- queue, received <- receipts

\* Senders, listener and receive screen keep the promise of Delivery: what is handed
\* over is the payment whose last chunk was just written, whole; it is queued after
\* that, for the wallet it pays, and shown as received after it was queued.
DeliveredWhole == Delivering!Spec
==================================================================================
