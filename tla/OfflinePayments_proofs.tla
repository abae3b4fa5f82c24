----------------------- MODULE OfflinePayments_proofs -----------------------
(***************************************************************************)
(* Proofs about OfflinePayments, for every set of payments and slots and   *)
(* every Overlap, with or without faults and lagging reads.  Inv is the    *)
(* conjunction of five parts, each with an Init and a Step lemma:          *)
(*   TypeInv      types, and what a task in flight has at hand             *)
(*   Settlement   confirmed, marked and dropped items have landed          *)
(*   Backups      the bucket holds backups of queued items only            *)
(*   SignedFirst  only signed transactions are queued or handed over       *)
(*   NoncesSeen   stored and carried nonce values existed on chain         *)
(* Then come the refinement of the abstract ledger and its two promises,   *)
(* and two invariants that hold until a step that is named breaks them:    *)
(*   Locks        an open payment is the only holder of its slot, until a  *)
(*                lock is lost (LosesLock)                                 *)
(*   Current      what is offered for signing is the account's value,      *)
(*                until a refresh offers an overtaken one (StaleOffer)     *)
(***************************************************************************)
EXTENDS OfflinePayments, TLAPS

(***************************************************************************)
(* Types.  A task in flight has what its next steps use.                   *)
(***************************************************************************)
PayInFlight == pc["pay"] # "idle" => pay \in Payment

ItemInHand ==
  /\ pc["settle"] \in {"saveslot", "savesingle", "reject", "forget", "drop", "cleandrop"}
       => item.id \in Pay
  /\ pc["settle"] \in {"saveslot", "savesingle"} => item.mark # "none"
  /\ item.slot \in Slot => item.nonce \in Nonce

TypeInv == TypeOK /\ PayInFlight /\ ItemInHand

\* The empty view, and the one item without a mark, have their types.
LEMMA NoViewType == NoView \in Views
BY DEF NoView, Views, FreshSlots, SlotRecord, SlotStatus, Nonce

\* The empty item, alone or with an id, has its type.
LEMMA NoItemType ==
  /\ NoItem \in Items
  /\ \A p \in Pay : [NoItem EXCEPT !.id = p] \in Items
BY DEF NoItem, Items, NonceState

\* Advancing any account keeps the type of the nonces.
LEMMA AdvanceType ==
  ASSUME nonce \in [Slot -> Nonce], NEW s
  PROVE  [nonce EXCEPT ![s] = @ + 1] \in [Slot -> Nonce]
<1>1. CASE s \in Slot
  BY <1>1 DEF Nonce
<1>2. CASE s \notin Slot
  BY <1>2
<1> QED BY <1>1, <1>2

\* Loading the records of a mark keeps the types.
LEMMA MarkLoadType ==
  ASSUME TypeInv, NEW p \in Pay, NEW mark \in {"settling", "settled", "locked"},
         MarkLoad(p, mark)
  PROVE  TypeInv'
<1>1. PICK s \in SlotsOf(p) :
        item' = [NoItem EXCEPT !.id = p, !.mark = mark, !.slot = s,
                               !.nonce = IF s = NoSlot THEN 0 ELSE slot[s].nonce]
  BY DEF MarkLoad
<1>2. s = NoSlot \/ (s \in Slot /\ s # NoSlot /\ slot[s].nonce \in Nonce)
  <2>1. s = NoSlot \/ s \in Slot
    BY <1>1 DEF SlotsOf
  <2>2. s \in Slot => slot[s] \in SlotRecord
    BY DEF TypeInv, TypeOK
  <2>3. s \in Slot => slot[s].nonce \in Nonce /\ s # NoSlot
    BY <2>2, OfflineAssumption DEF SlotRecord
  <2> QED BY <2>1, <2>3
<1>3. item' \in Items /\ item'.id = p /\ item'.mark = mark
      /\ (item'.slot \in Slot => item'.nonce \in Nonce)
  BY <1>1, <1>2, OfflineAssumption DEF NoItem, Items, NonceState, Nonce
<1> QED
  BY <1>3 DEF MarkLoad, TypeInv, TypeOK, PayInFlight, ItemInHand, chain, device,
              At, GoTo, Tasks, PayLabels, SyncLabels, SettleLabels

\* Initially nothing is in flight.
LEMMA TypeInit == Init => TypeInv
BY OfflineAssumption, NoViewType, NoItemType
   DEF Init, TypeInv, TypeOK, PayInFlight, ItemInHand, FreshSlots, Tasks, PayLabels,
       SyncLabels, SettleLabels, Nonce, SlotRecord, SlotStatus, NonceState,
       QueueStatus, ReceiptStatus, Unsigned, NoItem

\* A slot's record stays one when it is given a status and a transaction.
LEMMA RecordSet ==
  ASSUME NEW r \in SlotRecord, NEW status \in SlotStatus, NEW tx \in Pay \cup {NoTx}
  PROVE  [r EXCEPT !.status = status, !.tx = tx] \in SlotRecord
BY DEF SlotRecord

\* Every step keeps the types.
LEMMA TypeStep ==
  ASSUME TypeInv, [Next]_vars
  PROVE  TypeInv'
<1> USE DEF TypeInv, TypeOK, PayInFlight, ItemInHand, chain, device, tasks, At, GoTo, Tasks,
         PayLabels, SyncLabels, SettleLabels
<1>1. ASSUME NEW p \in Pay, Land(p) PROVE TypeInv'
  BY <1>1, AdvanceType DEF Land, Executable
<1>2. ASSUME NEW p \in Pay, FailOnChain(p) PROVE TypeInv'
  BY <1>2, AdvanceType DEF FailOnChain, Executable
<1>3. ASSUME NEW p \in Pay, PayStart(p) PROVE TypeInv'
  <2>1. pay' \in Payment
    <3>1. PICK n \in NonceForSigning : pay' = [id |-> p, slot |-> n.slot, nonce |-> n.nonce]
      BY <1>3 DEF PayStart
    <3>2. n.slot \in Slot /\ n.nonce \in Nonce
      BY <3>1 DEF NonceForSigning, ReadySlots, SlotRecord, NonceState, NoNonce
    <3> QED BY <3>1, <3>2 DEF Payment
  <2> QED BY <1>3, <2>1 DEF PayStart, MayStart
<1>4. CASE PaySaveNonce
  <2>1. single' \in NonceState
    BY <1>4 DEF PaySaveNonce, NonceState, Payment, SlotStatus
  <2> QED BY <1>4, <2>1 DEF PaySaveNonce
<1>5. CASE PayLockNonce
  <2>1. CASE CanBeLocked
    <3>1. pay \in Payment /\ single' = [single EXCEPT !.status = "locked", !.tx = pay.id]
      BY <1>5, <2>1 DEF PayLockNonce
    <3>2. single # NoNonce
      BY <2>1, <3>1, OfflineAssumption DEF CanBeLocked, NoNonce, Payment
    <3>3. single' \in NonceState
      BY <3>1, <3>2 DEF NonceState, SlotStatus, Payment
    <3> QED BY <1>5, <2>1, <3>3 DEF PayLockNonce
  <2>2. CASE ~CanBeLocked
    BY <1>5, <2>2 DEF PayLockNonce
  <2> QED BY <2>1, <2>2
<1>6. CASE PayEnqueue
  <2>1. pay \in Payment
    BY <1>6 DEF PayEnqueue
  <2>2. signed' \in [Pay -> [slot : Slot, nonce : Nonce] \cup {Unsigned}]
    BY <1>6, <2>1 DEF PayEnqueue, Payment
  <2>3. queue' \in [Pay -> QueueStatus]
    BY <1>6, <2>1 DEF PayEnqueue, Payment, QueueStatus
  <2> QED BY <1>6, <2>2, <2>3 DEF PayEnqueue
<1>7. CASE PayEnqueueFails
  <2>1. single' \in NonceState
    BY <1>7 DEF PayEnqueueFails, ReleaseNonce, NonceState, Payment, SlotStatus
  <2> QED BY <1>7, <2>1 DEF PayEnqueueFails, ReleaseNonce
<1>8. CASE PayStore
  BY <1>8 DEF PayStore
<1>9. CASE PayStoreFails
  <2>1. single' \in NonceState
    BY <1>9 DEF PayStoreFails, ReleaseNonce, NonceState, Payment, SlotStatus
  <2> QED BY <1>9, <2>1 DEF PayStoreFails, ReleaseNonce
<1>10. CASE PayLockSlot
  <2>1. pay \in Payment
    BY <1>10 DEF PayLockSlot
  <2>2. pay.slot \in Slot /\ pay.id \in Pay
    BY <2>1 DEF Payment
  <2>3. [slot[pay.slot] EXCEPT !.status = "locked", !.tx = pay.id] \in SlotRecord
    <3>1. slot[pay.slot] \in SlotRecord
      BY <2>2
    <3>2. "locked" \in SlotStatus
      BY DEF SlotStatus
    <3> QED BY <2>2, <3>1, <3>2, RecordSet
  <2>4. slot' = [slot EXCEPT ![pay.slot] =
                   [slot[pay.slot] EXCEPT !.status = "locked", !.tx = pay.id]]
    BY <1>10 DEF PayLockSlot
  <2>5. slot' \in [Slot -> SlotRecord]
    BY <2>3, <2>4
  <2> QED BY <1>10, <2>5 DEF PayLockSlot
<1>11. CASE PayPublish
  <2>1. pay \in Payment
    BY <1>11 DEF PayPublish
  <2>2. receipt' \in [Pay -> ReceiptStatus] /\ sent' \subseteq Pay
    BY <1>11, <2>1 DEF PayPublish, ReceiptStatus, Payment
  <2> QED BY <1>11, <2>2 DEF PayPublish
<1>12. CASE SyncFetch
  <2>1. PICK seen \in [Slot -> UNION {Readable(s) : s \in Slot}] :
          /\ \A s \in Slot : seen[s] \in Readable(s)
          /\ view' = [NoView EXCEPT !.seen = seen]
    BY <1>12 DEF SyncFetch
  <2>2. seen \in [Slot -> Nonce]
    BY <2>1 DEF Readable, Nonce
  <2>3. view' \in Views
    BY <2>1, <2>2, NoViewType DEF Views
  <2> QED BY <1>12, <2>3 DEF SyncFetch
<1>13. CASE SyncLoad
  <2>1. view' \in Views
    BY <1>13 DEF SyncLoad, Views
  <2> QED BY <1>13, <2>1 DEF SyncLoad
<1>14. ASSUME NEW s \in Slot, SyncWrite(s) PROVE TypeInv'
  <2>1. view.copy[s] \in SlotRecord /\ view.seen[s] \in Nonce
    BY DEF Views
  <2>2. Merged(view.copy[s], view.seen[s]) \in SlotRecord
    BY <2>1 DEF Merged, SlotRecord, SlotStatus
  <2>3. CASE view.todo = {s}
    BY <1>14, <2>2, <2>3, NoViewType DEF SyncWrite
  <2>4. CASE view.todo # {s}
    <3>1. view' \in Views
      BY <1>14, <2>4 DEF SyncWrite, Views
    <3>2. slot' \in [Slot -> SlotRecord]
      BY <1>14, <2>2 DEF SyncWrite
    <3> QED BY <1>14, <2>4, <3>1, <3>2 DEF SyncWrite
  <2> QED BY <2>3, <2>4
<1>15. CASE SettleStart
  BY <1>15 DEF SettleStart, MayStart, Queued
<1>16. CASE SettleSelect
  BY <1>16 DEF SettleSelect, Queued
<1>17. CASE SettleNoKey
  BY <1>17 DEF SettleNoKey
<1>18. CASE MarkSlot
  <2>1. /\ item.id \in Pay /\ item.mark \in {"settling", "settled", "locked"}
        /\ item.slot \in Slot => item.nonce \in Nonce
        /\ item' = [item EXCEPT !.single = single]
    BY <1>18 DEF MarkSlot, Items
  <2>2. slot' \in [Slot -> SlotRecord]
    BY <1>18, <2>1 DEF MarkSlot, SlotRecord, SlotStatus
  <2>3. item' \in Items /\ item'.id = item.id /\ item'.mark = item.mark
        /\ item'.slot = item.slot /\ item'.nonce = item.nonce
    BY <2>1 DEF Items
  <2> QED BY <1>18, <2>1, <2>2, <2>3 DEF MarkSlot
<1>19. CASE MarkSingle
  <2>1. /\ item.id \in Pay /\ item.mark \in {"settling", "settled", "locked"}
        /\ item.single \in NonceState
    BY <1>19 DEF MarkSingle, Items
  <2>2. single' \in NonceState
    <3>1. ASSUME item.single.tx = item.id
          PROVE  [item.single EXCEPT !.status = item.mark] \in NonceState
      <4>1. item.single # NoNonce
        BY <2>1, <3>1, OfflineAssumption DEF NoNonce
      <4> QED BY <2>1, <4>1 DEF NonceState, SlotStatus
    <3> QED BY <1>19, <3>1 DEF MarkSingle
  <2>3. receipt' \in [Pay -> ReceiptStatus]
    BY <1>19, <2>1 DEF MarkSingle, ReceiptMarked, ReceiptMark, ReceiptStatus
  <2>4. \/ AfterMark[item.mark] = "mark"
        \/ AfterMark[item.mark] \in {"forget", "reject"} /\ item.mark # "settling"
    <3>1. CASE item.mark = "settling" BY <3>1 DEF AfterMark
    <3>2. CASE item.mark = "settled" BY <3>2 DEF AfterMark
    <3>3. CASE item.mark = "locked" BY <3>3 DEF AfterMark
    <3> QED BY <2>1, <3>1, <3>2, <3>3
  <2>5. item' \in Items /\ (item.mark # "settling" => item'.id = item.id)
        /\ item'.slot = NoSlot
    BY <1>19, <2>1, NoItemType DEF MarkSingle, NoItem
  <2> QED BY <1>19, <2>2, <2>3, <2>4, <2>5, OfflineAssumption DEF MarkSingle
<1>20. CASE SettleSubmit
  BY <1>20 DEF SettleSubmit
<1>21. CASE SettleSubmitFails
  BY <1>21 DEF SettleSubmitFails
<1>22. CASE SettleCleanup
  <2>1. receipt' \in [Pay -> ReceiptStatus]
    BY <1>22 DEF SettleCleanup, ReceiptStatus
  <2> QED BY <1>22, <2>1 DEF SettleCleanup
<1>23. CASE SettleEnd
  BY <1>23 DEF SettleEnd
<1>24. ASSUME NEW p \in Pay, SettleUpload(p) PROVE TypeInv'
  BY <1>24 DEF SettleUpload
<1>25. ASSUME NEW p \in Pay, SettleMark(p) PROVE TypeInv'
  BY <1>25, MarkLoadType DEF SettleMark
<1>26. ASSUME NEW p \in Pay, SettleUnknown(p) PROVE TypeInv'
  <2>1. queue' \in [Pay -> QueueStatus]
    BY <1>26 DEF SettleUnknown, SetStatus, QueueStatus
  <2> QED BY <1>26, <2>1, NoItemType, OfflineAssumption DEF SettleUnknown, NoItem
<1>27. ASSUME NEW p \in Pay, SettleRejected(p) PROVE TypeInv'
  BY <1>27, MarkLoadType DEF SettleRejected
<1>28. ASSUME NEW p \in Pay, SettleReject(p) PROVE TypeInv'
  <2>1. queue' \in [Pay -> QueueStatus]
    BY <1>28 DEF SettleReject, SetStatus, QueueStatus
  <2> QED BY <1>28, <2>1, NoItemType, OfflineAssumption DEF SettleReject, NoItem
<1>29. ASSUME NEW p \in Pay, SettleConfirmed(p) PROVE TypeInv'
  BY <1>29, MarkLoadType DEF SettleConfirmed
<1>30. ASSUME NEW p \in Pay, SettleForget(p) PROVE TypeInv'
  BY <1>30 DEF SettleForget
<1>31. ASSUME NEW p \in Pay, SettleForgetFails(p) PROVE TypeInv'
  <2>1. queue' \in [Pay -> QueueStatus]
    BY <1>31 DEF SettleForgetFails, SetStatus, QueueStatus
  <2> QED BY <1>31, <2>1, NoItemType, OfflineAssumption DEF SettleForgetFails, NoItem
<1>32. ASSUME NEW p \in Pay, SettleDrop(p) PROVE TypeInv'
  <2>1. queue' \in [Pay -> QueueStatus]
    BY <1>32 DEF SettleDrop, DropItem, QueueStatus
  <2> QED BY <1>32, <2>1, NoItemType, OfflineAssumption DEF SettleDrop, DropItem, NoItem
<1>33. ASSUME NEW p \in Pay, CleanupForget(p) PROVE TypeInv'
  BY <1>33, NoItemType, OfflineAssumption DEF CleanupForget, NoItem
<1>34. ASSUME NEW p \in Pay, CleanupForgetFails(p) PROVE TypeInv'
  BY <1>34 DEF CleanupForgetFails
<1>35. ASSUME NEW p \in Pay, CleanupDrop(p) PROVE TypeInv'
  <2>1. queue' \in [Pay -> QueueStatus]
    BY <1>35 DEF CleanupDrop, DropItem, QueueStatus
  <2> QED BY <1>35, <2>1, NoItemType, OfflineAssumption DEF CleanupDrop, DropItem, NoItem
<1>36. CASE Crash
  BY <1>36, NoViewType, NoItemType, OfflineAssumption DEF Crash, NoItem
<1>37. CASE UNCHANGED vars
  BY <1>37 DEF vars
<1>38. CASE SettleDecrypted
  BY <1>38 DEF SettleDecrypted
<1>39. ASSUME NEW p \in Pay, SettleUnreadable(p) PROVE TypeInv'
  BY <1>39, MarkLoadType DEF SettleUnreadable
<1> QED
  BY <1>1, <1>2, <1>3, <1>4, <1>5, <1>6, <1>7, <1>8, <1>9, <1>10, <1>11,
     <1>12, <1>13, <1>14, <1>15, <1>16, <1>17, <1>18, <1>19, <1>20, <1>21,
     <1>22, <1>23, <1>24, <1>25, <1>26, <1>27, <1>28, <1>29, <1>30, <1>31,
     <1>32, <1>33, <1>34, <1>35, <1>36, <1>37, <1>38, <1>39
     DEF Next, ChainStep, PayStep, SyncStep, SettleStep

\* Type correctness of the whole system.
THEOREM TypeCorrect == Spec => []TypeOK
<1>1. TypeInv => TypeOK
  BY DEF TypeInv
<1> QED BY TypeInit, TypeStep, <1>1, PTL DEF Spec

(***************************************************************************)
(* Settlement.  NoPaymentForgotten and SettledIsOnChain are not inductive: *)
(* a run confirms an item, suspends, and drops or marks it steps later.    *)
(* ItemLanded says what it still knows then: the item it is at, and the    *)
(* items its cleanup has yet to visit, are of landed payments.             *)
(***************************************************************************)
ItemLanded ==
  /\ \/ pc["settle"] \in {"saveslot", "savesingle"} /\ item.mark = "settled"
     \/ pc["settle"] \in {"forget", "drop", "cleandrop"}
     => item.id \in landed
  /\ pc["settle"] \in {"cleanup", "cleandrop"} => work \subseteq landed

Settlement == ItemLanded /\ NoPaymentForgotten /\ SettledIsOnChain

\* Initially nothing is signed, marked or settled.
LEMMA SettlementInit == Init => Settlement
BY DEF Init, Settlement, ItemLanded, NoPaymentForgotten, SettledIsOnChain, FreshSlots,
       NoNonce, Tasks

\* Every step keeps the settlement invariant.
LEMMA SettlementStep ==
  ASSUME TypeInv, Settlement, [Next]_vars
  PROVE  Settlement'
<1> USE DEF Settlement, ItemLanded, NoPaymentForgotten, SettledIsOnChain, TypeInv, TypeOK,
         chain, device, tasks, At, GoTo, Tasks
<1>1. ASSUME NEW p \in Pay, Land(p) PROVE Settlement'
  BY <1>1 DEF Land, Executable
<1>2. ASSUME NEW p \in Pay, FailOnChain(p) PROVE Settlement'
  BY <1>2 DEF FailOnChain, Executable
<1>3. ASSUME NEW p \in Pay, PayStart(p) PROVE Settlement'
  BY <1>3 DEF PayStart
<1>4. CASE PaySaveNonce
  BY <1>4 DEF PaySaveNonce
<1>5. CASE PayLockNonce
  <2>1. CASE CanBeLocked
    BY <1>5, <2>1 DEF PayLockNonce, NonceState, NoNonce
  <2>2. CASE ~CanBeLocked
    BY <1>5, <2>2 DEF PayLockNonce
  <2> QED BY <2>1, <2>2
<1>6. CASE PayEnqueue
  BY <1>6 DEF PayEnqueue
<1>7. CASE PayEnqueueFails
  BY <1>7 DEF PayEnqueueFails, ReleaseNonce
<1>8. CASE PayStore
  BY <1>8 DEF PayStore
<1>9. CASE PayStoreFails
  BY <1>9 DEF PayStoreFails, ReleaseNonce
<1>10. CASE PayLockSlot
  BY <1>10 DEF PayLockSlot
<1>11. CASE PayPublish
  BY <1>11 DEF PayPublish
<1>12. CASE SyncFetch
  BY <1>12 DEF SyncFetch
<1>13. CASE SyncLoad
  BY <1>13 DEF SyncLoad
<1>14. ASSUME NEW s \in Slot, SyncWrite(s) PROVE Settlement'
  BY <1>14 DEF SyncWrite, Merged, LocalPending
<1>15. CASE SettleStart
  BY <1>15 DEF SettleStart
<1>16. CASE SettleSelect
  BY <1>16 DEF SettleSelect
<1>17. CASE SettleNoKey
  BY <1>17 DEF SettleNoKey
<1>18. CASE MarkSlot
  BY <1>18 DEF MarkSlot
<1>19. CASE MarkSingle
  <2>1. /\ item.id \in Pay /\ item.mark \in {"settling", "settled", "locked"}
        /\ item.single \in NonceState
    BY <1>19 DEF MarkSingle, Items, ItemInHand
  <2>2. single'.status = "settled" => single'.tx \in landed
    <3>1. ASSUME item.single.tx = item.id
          PROVE  /\ [item.single EXCEPT !.status = item.mark].status = item.mark
                 /\ [item.single EXCEPT !.status = item.mark].tx = item.id
      BY <2>1, <3>1 DEF NonceState, NoNonce
    <3>2. CASE single' = single
      BY <1>19, <3>2 DEF MarkSingle
    <3>3. CASE item.single.tx = item.id /\ single' = [item.single EXCEPT !.status = item.mark]
      BY <1>19, <3>1, <3>3 DEF MarkSingle
    <3> QED BY <1>19, <3>2, <3>3 DEF MarkSingle
  <2>3. \A q \in Pay : receipt'[q] = "settled" => q \in landed
    <3>1. ReceiptMark[item.mark] = "settled" => item.id \in landed
      BY <1>19, <2>1 DEF MarkSingle, ReceiptMark
    <3> QED BY <1>19, <3>1 DEF MarkSingle, ReceiptMarked
  <2>4. AfterMark[item.mark] \in {"mark", "forget", "reject"}
        /\ (AfterMark[item.mark] = "forget" => item.mark = "settled")
    <3>1. CASE item.mark = "settling" BY <3>1 DEF AfterMark
    <3>2. CASE item.mark = "settled" BY <3>2 DEF AfterMark
    <3>3. CASE item.mark = "locked" BY <3>3 DEF AfterMark
    <3> QED BY <2>1, <3>1, <3>2, <3>3
  <2>5. item.mark # "settling" => item'.id = item.id
    BY <1>19 DEF MarkSingle, NoItem
  <2>6. ItemLanded'
    BY <1>19, <2>1, <2>4, <2>5 DEF MarkSingle
  <2> QED BY <1>19, <2>2, <2>3, <2>6 DEF MarkSingle
<1>20. CASE SettleSubmit
  BY <1>20 DEF SettleSubmit
<1>21. CASE SettleSubmitFails
  BY <1>21 DEF SettleSubmitFails
<1>22. CASE SettleCleanup
  BY <1>22 DEF SettleCleanup
<1>23. CASE SettleEnd
  BY <1>23 DEF SettleEnd
<1>24. ASSUME NEW p \in Pay, SettleUpload(p) PROVE Settlement'
  BY <1>24 DEF SettleUpload
<1>25. ASSUME NEW p \in Pay, SettleMark(p) PROVE Settlement'
  BY <1>25 DEF SettleMark, MarkLoad
<1>26. ASSUME NEW p \in Pay, SettleUnknown(p) PROVE Settlement'
  BY <1>26 DEF SettleUnknown, SetStatus
<1>27. ASSUME NEW p \in Pay, SettleRejected(p) PROVE Settlement'
  BY <1>27 DEF SettleRejected, MarkLoad
<1>28. ASSUME NEW p \in Pay, SettleReject(p) PROVE Settlement'
  BY <1>28 DEF SettleReject, SetStatus
<1>29. ASSUME NEW p \in Pay, SettleConfirmed(p) PROVE Settlement'
  BY <1>29 DEF SettleConfirmed, MarkLoad
<1>30. ASSUME NEW p \in Pay, SettleForget(p) PROVE Settlement'
  BY <1>30 DEF SettleForget
<1>31. ASSUME NEW p \in Pay, SettleForgetFails(p) PROVE Settlement'
  BY <1>31 DEF SettleForgetFails, SetStatus
<1>32. ASSUME NEW p \in Pay, SettleDrop(p) PROVE Settlement'
  BY <1>32 DEF SettleDrop, DropItem
<1>33. ASSUME NEW p \in Pay, CleanupForget(p) PROVE Settlement'
  BY <1>33 DEF CleanupForget
<1>34. ASSUME NEW p \in Pay, CleanupForgetFails(p) PROVE Settlement'
  BY <1>34 DEF CleanupForgetFails
<1>35. ASSUME NEW p \in Pay, CleanupDrop(p) PROVE Settlement'
  BY <1>35 DEF CleanupDrop, DropItem
<1>36. CASE Crash
  BY <1>36 DEF Crash
<1>37. CASE UNCHANGED vars
  BY <1>37 DEF vars
<1>38. CASE SettleDecrypted
  BY <1>38 DEF SettleDecrypted
<1>39. ASSUME NEW p \in Pay, SettleUnreadable(p) PROVE Settlement'
  BY <1>39 DEF SettleUnreadable, MarkLoad
<1> QED
  BY <1>1, <1>2, <1>3, <1>4, <1>5, <1>6, <1>7, <1>8, <1>9, <1>10, <1>11,
     <1>12, <1>13, <1>14, <1>15, <1>16, <1>17, <1>18, <1>19, <1>20, <1>21,
     <1>22, <1>23, <1>24, <1>25, <1>26, <1>27, <1>28, <1>29, <1>30, <1>31,
     <1>32, <1>33, <1>34, <1>35, <1>36, <1>37, <1>38, <1>39
     DEF Next, ChainStep, PayStep, SyncStep, SettleStep

(***************************************************************************)
(* Backups.  The uploads of a run are of queued items, and an item is      *)
(* dropped only after its backup: the two facts a run carries from one     *)
(* await to the next.                                                      *)
(***************************************************************************)
UploadsQueued ==
  /\ pc["settle"] = "upload" => work \subseteq Queued
  /\ pc["settle"] \in {"drop", "cleandrop"} => item.id \notin remote

Backups == UploadsQueued /\ BackupOnlyWhileQueued

\* Initially the bucket is empty.
LEMMA BackupsInit == Init => Backups
BY DEF Init, Backups, UploadsQueued, BackupOnlyWhileQueued, Tasks

\* Every step keeps them.
LEMMA BackupsStep ==
  ASSUME TypeInv, Backups, [Next]_vars
  PROVE  Backups'
<1> USE DEF Backups, UploadsQueued, BackupOnlyWhileQueued, TypeInv, TypeOK, Queued,
         chain, device, tasks, At, GoTo, Tasks
<1>1. ASSUME NEW p \in Pay, Land(p) PROVE Backups'
  BY <1>1 DEF Land
<1>2. ASSUME NEW p \in Pay, FailOnChain(p) PROVE Backups'
  BY <1>2 DEF FailOnChain
<1>3. ASSUME NEW p \in Pay, PayStart(p) PROVE Backups'
  BY <1>3 DEF PayStart
<1>4. CASE PaySaveNonce
  BY <1>4 DEF PaySaveNonce
<1>5. CASE PayLockNonce
  BY <1>5 DEF PayLockNonce
<1>6. CASE PayEnqueue
  <2>1. Queued \subseteq Queued'
    BY <1>6 DEF PayEnqueue, QueueStatus
  <2> QED BY <1>6, <2>1 DEF PayEnqueue
<1>7. CASE PayEnqueueFails
  BY <1>7 DEF PayEnqueueFails, ReleaseNonce
<1>8. CASE PayStore
  BY <1>8 DEF PayStore
<1>9. CASE PayStoreFails
  BY <1>9 DEF PayStoreFails, ReleaseNonce
<1>10. CASE PayLockSlot
  BY <1>10 DEF PayLockSlot
<1>11. CASE PayPublish
  BY <1>11 DEF PayPublish
<1>12. CASE SyncFetch
  BY <1>12 DEF SyncFetch
<1>13. CASE SyncLoad
  BY <1>13 DEF SyncLoad
<1>14. ASSUME NEW s \in Slot, SyncWrite(s) PROVE Backups'
  BY <1>14 DEF SyncWrite
<1>15. CASE SettleStart
  BY <1>15 DEF SettleStart
<1>16. CASE SettleSelect
  BY <1>16 DEF SettleSelect
<1>17. CASE SettleNoKey
  BY <1>17 DEF SettleNoKey
<1>18. CASE MarkSlot
  BY <1>18 DEF MarkSlot
<1>19. CASE MarkSingle
  <2>1. AfterMark[item.mark] \in {"mark", "forget", "reject"}
    <3>1. item.mark \in {"settling", "settled", "locked"}
      BY <1>19 DEF MarkSingle, ItemInHand, Items
    <3> QED BY <3>1 DEF AfterMark
  <2> QED BY <1>19, <2>1 DEF MarkSingle
<1>20. CASE SettleSubmit
  BY <1>20 DEF SettleSubmit
<1>21. CASE SettleSubmitFails
  BY <1>21 DEF SettleSubmitFails
<1>22. CASE SettleCleanup
  BY <1>22 DEF SettleCleanup
<1>23. CASE SettleEnd
  BY <1>23 DEF SettleEnd
<1>24. ASSUME NEW p \in Pay, SettleUpload(p) PROVE Backups'
  BY <1>24 DEF SettleUpload
<1>25. ASSUME NEW p \in Pay, SettleMark(p) PROVE Backups'
  BY <1>25 DEF SettleMark, MarkLoad
<1>26. ASSUME NEW p \in Pay, SettleUnknown(p) PROVE Backups'
  BY <1>26 DEF SettleUnknown, SetStatus
<1>27. ASSUME NEW p \in Pay, SettleRejected(p) PROVE Backups'
  BY <1>27 DEF SettleRejected, MarkLoad
<1>28. ASSUME NEW p \in Pay, SettleReject(p) PROVE Backups'
  BY <1>28 DEF SettleReject, SetStatus
<1>29. ASSUME NEW p \in Pay, SettleConfirmed(p) PROVE Backups'
  BY <1>29 DEF SettleConfirmed, MarkLoad
<1>30. ASSUME NEW p \in Pay, SettleForget(p) PROVE Backups'
  BY <1>30 DEF SettleForget
<1>31. ASSUME NEW p \in Pay, SettleForgetFails(p) PROVE Backups'
  BY <1>31 DEF SettleForgetFails, SetStatus
<1>32. ASSUME NEW p \in Pay, SettleDrop(p) PROVE Backups'
  BY <1>32 DEF SettleDrop, DropItem
<1>33. ASSUME NEW p \in Pay, CleanupForget(p) PROVE Backups'
  BY <1>33 DEF CleanupForget, NoItem
<1>34. ASSUME NEW p \in Pay, CleanupForgetFails(p) PROVE Backups'
  BY <1>34 DEF CleanupForgetFails
<1>35. ASSUME NEW p \in Pay, CleanupDrop(p) PROVE Backups'
  BY <1>35 DEF CleanupDrop, DropItem
<1>36. CASE Crash
  BY <1>36 DEF Crash
<1>37. CASE UNCHANGED vars
  BY <1>37 DEF vars
<1>38. CASE SettleDecrypted
  BY <1>38 DEF SettleDecrypted
<1>39. ASSUME NEW p \in Pay, SettleUnreadable(p) PROVE Backups'
  BY <1>39 DEF SettleUnreadable, MarkLoad
<1> QED
  BY <1>1, <1>2, <1>3, <1>4, <1>5, <1>6, <1>7, <1>8, <1>9, <1>10, <1>11,
     <1>12, <1>13, <1>14, <1>15, <1>16, <1>17, <1>18, <1>19, <1>20, <1>21,
     <1>22, <1>23, <1>24, <1>25, <1>26, <1>27, <1>28, <1>29, <1>30, <1>31,
     <1>32, <1>33, <1>34, <1>35, <1>36, <1>37, <1>38, <1>39
     DEF Next, ChainStep, PayStep, SyncStep, SettleStep

(***************************************************************************)
(* Nonces.  Whatever the device stores or carries across an await is a     *)
(* value the account has or had: it never invents one.                     *)
(***************************************************************************)
NoncesSeen ==
  /\ \A s \in Slot : /\ slot[s].nonce <= nonce[s]
                     /\ view.seen[s] <= nonce[s]
                     /\ view.copy[s].nonce <= nonce[s]
  /\ single # NoNonce => single.nonce <= nonce[single.slot]
  /\ item.single # NoNonce => item.single.nonce <= nonce[item.single.slot]
  /\ item.slot \in Slot => item.nonce <= nonce[item.slot]
  /\ pay # NoPay => pay.nonce <= nonce[pay.slot]

(***************************************************************************)
(* Only signed transactions are queued, settled or handed over, and one    *)
(* that was signed is built again over the same value only.                *)
(***************************************************************************)
Signed == {p \in Pay : signed[p] # Unsigned}

SignedFirst ==
  /\ Queued \subseteq Signed /\ sent \subseteq Signed
  /\ batch \subseteq Signed /\ work \subseteq Signed
  /\ pc["pay"] # "idle" =>
       signed[pay.id] \in {Unsigned, [slot |-> pay.slot, nonce |-> pay.nonce]}
  /\ pc["pay"] \in {"queued", "stored", "publish"} => pay.id \in Signed

\* Initially nothing is signed, and every value is the first one.
LEMMA SignedFirstInit == Init => SignedFirst
BY DEF Init, SignedFirst, Signed, Queued, Tasks

\* Initially every stored value is the account's first.
LEMMA NoncesSeenInit == Init => NoncesSeen
BY OfflineAssumption
   DEF Init, NoncesSeen, FreshSlots, NoView, NoPay, NoItem, NoNonce

\* Every step keeps the signatures in front of the queue.
LEMMA SignedFirstStep ==
  ASSUME TypeInv, SignedFirst, [Next]_vars
  PROVE  SignedFirst'
<1> USE DEF SignedFirst, Signed, TypeInv, TypeOK, PayInFlight, Payment, Queued,
         chain, device, tasks, At, GoTo, Tasks
<1>1. ASSUME NEW p \in Pay, Land(p) PROVE SignedFirst'
  BY <1>1 DEF Land
<1>2. ASSUME NEW p \in Pay, FailOnChain(p) PROVE SignedFirst'
  BY <1>2 DEF FailOnChain
<1>3. ASSUME NEW p \in Pay, PayStart(p) PROVE SignedFirst'
  <2>1. PICK n \in NonceForSigning :
          /\ signed[p] \in {Unsigned, n}
          /\ pay' = [id |-> p, slot |-> n.slot, nonce |-> n.nonce]
    BY <1>3 DEF PayStart
  <2>2. n = [slot |-> n.slot, nonce |-> n.nonce]
    BY <2>1 DEF NonceForSigning
  <2> QED BY <1>3, <2>1, <2>2 DEF PayStart
<1>4. CASE PaySaveNonce
  BY <1>4 DEF PaySaveNonce
<1>5. CASE PayLockNonce
  BY <1>5 DEF PayLockNonce
<1>6. CASE PayEnqueue
  <2>1. pay \in Payment /\ pay.nonce # 0
    BY <1>6 DEF PayEnqueue, Nonce
  <2>2. [slot |-> pay.slot, nonce |-> pay.nonce] # Unsigned
    BY <2>1 DEF Unsigned
  <2>3. signed' = [signed EXCEPT ![pay.id] = [slot |-> pay.slot, nonce |-> pay.nonce]]
    BY <1>6 DEF PayEnqueue
  <2>4. Signed' = Signed \cup {pay.id}
    BY <2>1, <2>2, <2>3
  <2>5. Queued' \subseteq Queued \cup {pay.id}
    BY <1>6, <2>1 DEF PayEnqueue
  <2> QED BY <1>6, <2>1, <2>3, <2>4, <2>5 DEF PayEnqueue
<1>7. CASE PayEnqueueFails
  BY <1>7 DEF PayEnqueueFails, ReleaseNonce
<1>8. CASE PayStore
  BY <1>8 DEF PayStore
<1>9. CASE PayStoreFails
  BY <1>9 DEF PayStoreFails, ReleaseNonce
<1>10. CASE PayLockSlot
  BY <1>10 DEF PayLockSlot
<1>11. CASE PayPublish
  BY <1>11 DEF PayPublish
<1>12. CASE SyncFetch
  BY <1>12 DEF SyncFetch
<1>13. CASE SyncLoad
  BY <1>13 DEF SyncLoad
<1>14. ASSUME NEW s \in Slot, SyncWrite(s) PROVE SignedFirst'
  BY <1>14 DEF SyncWrite
<1>15. CASE SettleStart
  BY <1>15 DEF SettleStart
<1>16. CASE SettleSelect
  BY <1>16 DEF SettleSelect
<1>17. CASE SettleNoKey
  BY <1>17 DEF SettleNoKey
<1>18. CASE MarkSlot
  BY <1>18 DEF MarkSlot
<1>19. CASE MarkSingle
  BY <1>19 DEF MarkSingle
<1>20. CASE SettleSubmit
  BY <1>20 DEF SettleSubmit
<1>21. CASE SettleSubmitFails
  BY <1>21 DEF SettleSubmitFails
<1>22. CASE SettleCleanup
  BY <1>22 DEF SettleCleanup
<1>23. CASE SettleEnd
  BY <1>23 DEF SettleEnd
<1>24. ASSUME NEW p \in Pay, SettleUpload(p) PROVE SignedFirst'
  BY <1>24 DEF SettleUpload
<1>25. ASSUME NEW p \in Pay, SettleMark(p) PROVE SignedFirst'
  BY <1>25 DEF SettleMark, MarkLoad
<1>26. ASSUME NEW p \in Pay, SettleUnknown(p) PROVE SignedFirst'
  BY <1>26 DEF SettleUnknown, SetStatus
<1>27. ASSUME NEW p \in Pay, SettleRejected(p) PROVE SignedFirst'
  BY <1>27 DEF SettleRejected, MarkLoad
<1>28. ASSUME NEW p \in Pay, SettleReject(p) PROVE SignedFirst'
  BY <1>28 DEF SettleReject, SetStatus
<1>29. ASSUME NEW p \in Pay, SettleConfirmed(p) PROVE SignedFirst'
  BY <1>29 DEF SettleConfirmed, MarkLoad
<1>30. ASSUME NEW p \in Pay, SettleForget(p) PROVE SignedFirst'
  BY <1>30 DEF SettleForget
<1>31. ASSUME NEW p \in Pay, SettleForgetFails(p) PROVE SignedFirst'
  BY <1>31 DEF SettleForgetFails, SetStatus
<1>32. ASSUME NEW p \in Pay, SettleDrop(p) PROVE SignedFirst'
  BY <1>32 DEF SettleDrop, DropItem
<1>33. ASSUME NEW p \in Pay, CleanupForget(p) PROVE SignedFirst'
  BY <1>33 DEF CleanupForget
<1>34. ASSUME NEW p \in Pay, CleanupForgetFails(p) PROVE SignedFirst'
  BY <1>34 DEF CleanupForgetFails
<1>35. ASSUME NEW p \in Pay, CleanupDrop(p) PROVE SignedFirst'
  BY <1>35 DEF CleanupDrop, DropItem
<1>36. CASE Crash
  BY <1>36 DEF Crash
<1>37. CASE UNCHANGED vars
  BY <1>37 DEF vars
<1>38. CASE SettleDecrypted
  BY <1>38 DEF SettleDecrypted
<1>39. ASSUME NEW p \in Pay, SettleUnreadable(p) PROVE SignedFirst'
  BY <1>39 DEF SettleUnreadable, MarkLoad
<1> QED
  BY <1>1, <1>2, <1>3, <1>4, <1>5, <1>6, <1>7, <1>8, <1>9, <1>10, <1>11,
     <1>12, <1>13, <1>14, <1>15, <1>16, <1>17, <1>18, <1>19, <1>20, <1>21,
     <1>22, <1>23, <1>24, <1>25, <1>26, <1>27, <1>28, <1>29, <1>30, <1>31,
     <1>32, <1>33, <1>34, <1>35, <1>36, <1>37, <1>38, <1>39
     DEF Next, ChainStep, PayStep, SyncStep, SettleStep

\* Loading the records of a mark keeps what is known within what was.
LEMMA MarkLoadNonces ==
  ASSUME TypeInv, NoncesSeen, NEW p \in Pay, NEW mark, MarkLoad(p, mark)
  PROVE  NoncesSeen'
<1>1. PICK s \in SlotsOf(p) :
        item' = [NoItem EXCEPT !.id = p, !.mark = mark, !.slot = s,
                               !.nonce = IF s = NoSlot THEN 0 ELSE slot[s].nonce]
  BY DEF MarkLoad
<1>2. item'.slot = s /\ item'.nonce = (IF s = NoSlot THEN 0 ELSE slot[s].nonce)
      /\ item'.single = NoNonce
  BY <1>1 DEF NoItem
<1> QED
  BY <1>2, OfflineAssumption DEF MarkLoad, NoncesSeen, chain, device

\* A step of the chain only moves the accounts forward.
LEMMA AdvanceNonces ==
  ASSUME TypeInv, NoncesSeen, NEW s, nonce' = [nonce EXCEPT ![s] = @ + 1],
         UNCHANGED <<slot, view, single, item, pay>>
  PROVE  NoncesSeen'
<1>1. \A r \in Slot : nonce[r] \in Nat /\ nonce'[r] \in Nat /\ nonce[r] <= nonce'[r]
  BY DEF TypeInv, TypeOK, Nonce
<1>2. \A r \in Slot : /\ slot[r].nonce \in Nat /\ view.seen[r] \in Nat
                      /\ view.copy[r].nonce \in Nat
  BY DEF TypeInv, TypeOK, Nonce, Views, SlotRecord
<1>3. single # NoNonce => single.slot \in Slot /\ single.nonce \in Nat
  BY DEF TypeInv, TypeOK, NonceState, Nonce
<1>4. item.single # NoNonce => item.single.slot \in Slot /\ item.single.nonce \in Nat
  BY DEF TypeInv, TypeOK, Items, NonceState, Nonce
<1>5. item.nonce \in Nat /\ (pay # NoPay => pay.slot \in Slot /\ pay.nonce \in Nat)
  BY DEF TypeInv, TypeOK, Items, Payment, Nonce
<1>6. \A r \in Slot : /\ slot[r].nonce <= nonce'[r]
                      /\ view.seen[r] <= nonce'[r]
                      /\ view.copy[r].nonce <= nonce'[r]
  BY <1>1, <1>2 DEF NoncesSeen
<1>7. single # NoNonce => single.nonce <= nonce'[single.slot]
  BY <1>1, <1>3 DEF NoncesSeen
<1>8. item.single # NoNonce => item.single.nonce <= nonce'[item.single.slot]
  BY <1>1, <1>4 DEF NoncesSeen
<1>9. item.slot \in Slot => item.nonce <= nonce'[item.slot]
  BY <1>1, <1>5 DEF NoncesSeen
<1>10. pay # NoPay => pay.nonce <= nonce'[pay.slot]
  BY <1>1, <1>5 DEF NoncesSeen
<1> QED BY <1>6, <1>7, <1>8, <1>9, <1>10 DEF NoncesSeen

\* Every step keeps what is known within what was.
LEMMA NoncesSeenStep ==
  ASSUME TypeInv, NoncesSeen, [Next]_vars
  PROVE  NoncesSeen'
<1> USE DEF NoncesSeen, chain, device, tasks, At, GoTo
<1>1. ASSUME NEW p \in Pay, Land(p) PROVE NoncesSeen'
  BY <1>1, AdvanceNonces DEF Land
<1>2. ASSUME NEW p \in Pay, FailOnChain(p) PROVE NoncesSeen'
  BY <1>2, AdvanceNonces DEF FailOnChain
<1>3. ASSUME NEW p \in Pay, PayStart(p) PROVE NoncesSeen'
  <2>1. PICK n \in NonceForSigning :
          pay' = [id |-> p, slot |-> n.slot, nonce |-> n.nonce]
    BY <1>3 DEF PayStart
  <2>2. n.nonce <= nonce[n.slot]
    BY <2>1 DEF NonceForSigning, ReadySlots, NoNonce
  <2> QED BY <1>3, <2>1, <2>2 DEF PayStart
<1>4. CASE PaySaveNonce
  <2>1. pay # NoPay
    BY <1>4, OfflineAssumption DEF PaySaveNonce, TypeInv, PayInFlight, Payment, NoPay
  <2> QED BY <1>4, <2>1 DEF PaySaveNonce
<1>5. CASE PayLockNonce
  <2>1. CASE CanBeLocked
    <3>1. pay \in Payment
      BY <1>5 DEF PayLockNonce, TypeInv, PayInFlight
    <3>2. single \in NonceState \ {NoNonce}
      BY <2>1, <3>1, OfflineAssumption
         DEF CanBeLocked, NoNonce, Payment, TypeInv, TypeOK, NonceState
    <3>3. single'.slot = single.slot /\ single'.nonce = single.nonce
      BY <1>5, <2>1, <3>2 DEF PayLockNonce, NonceState
    <3> QED BY <1>5, <2>1, <3>2, <3>3 DEF PayLockNonce
  <2>2. CASE ~CanBeLocked
    BY <1>5, <2>2 DEF PayLockNonce
  <2> QED BY <2>1, <2>2
<1>6. CASE PayEnqueue
  BY <1>6 DEF PayEnqueue
<1>7. CASE PayEnqueueFails
  <2>1. pay # NoPay
    BY <1>7, OfflineAssumption DEF PayEnqueueFails, TypeInv, PayInFlight, Payment, NoPay
  <2> QED BY <1>7, <2>1 DEF PayEnqueueFails, ReleaseNonce
<1>8. CASE PayStore
  BY <1>8 DEF PayStore
<1>9. CASE PayStoreFails
  <2>1. pay # NoPay
    BY <1>9, OfflineAssumption DEF PayStoreFails, TypeInv, PayInFlight, Payment, NoPay
  <2> QED BY <1>9, <2>1 DEF PayStoreFails, ReleaseNonce
<1>10. CASE PayLockSlot
  <2>1. \A s \in Slot : slot'[s].nonce = slot[s].nonce
    BY <1>10 DEF PayLockSlot, TypeInv, TypeOK, SlotRecord
  <2> QED BY <1>10, <2>1 DEF PayLockSlot
<1>11. CASE PayPublish
  BY <1>11 DEF PayPublish
<1>12. CASE SyncFetch
  <2>1. PICK seen \in [Slot -> UNION {Readable(s) : s \in Slot}] :
          /\ \A s \in Slot : seen[s] \in Readable(s)
          /\ view' = [NoView EXCEPT !.seen = seen]
    BY <1>12 DEF SyncFetch
  <2>2. \A s \in Slot : seen[s] <= nonce[s]
    BY <2>1 DEF Readable, TypeInv, TypeOK, Nonce
  <2>3. \A s \in Slot : view'.seen[s] <= nonce[s] /\ view'.copy[s].nonce <= nonce[s]
    BY <2>1, <2>2 DEF NoView, FreshSlots, TypeInv, TypeOK, Nonce
  <2> QED BY <1>12, <2>3 DEF SyncFetch
<1>13. CASE SyncLoad
  <2>1. view'.seen = view.seen /\ view'.copy = slot
    BY <1>13 DEF SyncLoad, TypeInv, TypeOK, Views
  <2> QED BY <1>13, <2>1 DEF SyncLoad
<1>14. ASSUME NEW s \in Slot, SyncWrite(s) PROVE NoncesSeen'
  <2>1. view.copy[s] \in SlotRecord
    BY DEF TypeInv, TypeOK, Views
  <2>2. Merged(view.copy[s], view.seen[s]).nonce = view.seen[s]
    BY <2>1 DEF Merged, SlotRecord
  <2>3. \A r \in Slot : slot'[r].nonce <= nonce[r]
    BY <1>14, <2>2 DEF SyncWrite, TypeInv, TypeOK
  <2>4. \A r \in Slot : view'.seen[r] <= nonce[r] /\ view'.copy[r].nonce <= nonce[r]
    BY <1>14 DEF SyncWrite, NoView, FreshSlots, TypeInv, TypeOK, Views, Nonce
  <2> QED BY <1>14, <2>3, <2>4 DEF SyncWrite
<1>15. CASE SettleStart
  BY <1>15 DEF SettleStart
<1>16. CASE SettleSelect
  BY <1>16 DEF SettleSelect
<1>17. CASE SettleNoKey
  BY <1>17 DEF SettleNoKey
<1>18. CASE MarkSlot
  <2>1. \A s \in Slot : slot'[s].nonce <= nonce[s]
    BY <1>18 DEF MarkSlot
  <2>2. item'.slot = item.slot /\ item'.nonce = item.nonce /\ item'.single = single
    BY <1>18 DEF MarkSlot, TypeInv, TypeOK, Items
  <2> QED BY <1>18, <2>1, <2>2 DEF MarkSlot
<1>19. CASE MarkSingle
  <2>1. item.id \in Pay /\ item.single \in NonceState
    BY <1>19 DEF MarkSingle, TypeInv, TypeOK, ItemInHand, Items
  <2>2. ASSUME item.single.tx = item.id
        PROVE  LET new == [item.single EXCEPT !.status = item.mark]
               IN  /\ item.single # NoNonce
                   /\ new.slot = item.single.slot /\ new.nonce = item.single.nonce
    BY <2>1, <2>2, OfflineAssumption DEF NonceState, NoNonce
  <2>3. single' # NoNonce => single'.nonce <= nonce[single'.slot]
    <3>1. CASE single' = single
      BY <3>1
    <3>2. CASE item.single.tx = item.id /\ single' = [item.single EXCEPT !.status = item.mark]
      BY <3>2, <2>2
    <3> QED BY <1>19, <3>1, <3>2 DEF MarkSingle
  <2>4. item'.single = NoNonce /\ item'.slot = NoSlot
    BY <1>19 DEF MarkSingle, NoItem
  <2> QED BY <1>19, <2>3, <2>4, OfflineAssumption DEF MarkSingle
<1>20. CASE SettleSubmit
  BY <1>20 DEF SettleSubmit
<1>21. CASE SettleSubmitFails
  BY <1>21 DEF SettleSubmitFails
<1>22. CASE SettleCleanup
  BY <1>22 DEF SettleCleanup
<1>23. CASE SettleEnd
  BY <1>23 DEF SettleEnd
<1>24. ASSUME NEW p \in Pay, SettleUpload(p) PROVE NoncesSeen'
  BY <1>24 DEF SettleUpload
<1>25. ASSUME NEW p \in Pay, SettleMark(p) PROVE NoncesSeen'
  BY <1>25, MarkLoadNonces DEF SettleMark
<1>26. ASSUME NEW p \in Pay, SettleUnknown(p) PROVE NoncesSeen'
  BY <1>26 DEF SettleUnknown, SetStatus
<1>27. ASSUME NEW p \in Pay, SettleRejected(p) PROVE NoncesSeen'
  BY <1>27, MarkLoadNonces DEF SettleRejected
<1>28. ASSUME NEW p \in Pay, SettleReject(p) PROVE NoncesSeen'
  BY <1>28, OfflineAssumption DEF SettleReject, SetStatus, NoItem
<1>29. ASSUME NEW p \in Pay, SettleConfirmed(p) PROVE NoncesSeen'
  BY <1>29, MarkLoadNonces DEF SettleConfirmed
<1>30. ASSUME NEW p \in Pay, SettleForget(p) PROVE NoncesSeen'
  BY <1>30 DEF SettleForget
<1>31. ASSUME NEW p \in Pay, SettleForgetFails(p) PROVE NoncesSeen'
  BY <1>31, OfflineAssumption DEF SettleForgetFails, SetStatus, NoItem
<1>32. ASSUME NEW p \in Pay, SettleDrop(p) PROVE NoncesSeen'
  BY <1>32, OfflineAssumption DEF SettleDrop, DropItem, NoItem
<1>33. ASSUME NEW p \in Pay, CleanupForget(p) PROVE NoncesSeen'
  BY <1>33, OfflineAssumption DEF CleanupForget, NoItem
<1>34. ASSUME NEW p \in Pay, CleanupForgetFails(p) PROVE NoncesSeen'
  BY <1>34 DEF CleanupForgetFails
<1>35. ASSUME NEW p \in Pay, CleanupDrop(p) PROVE NoncesSeen'
  BY <1>35, OfflineAssumption DEF CleanupDrop, DropItem, NoItem
<1>36. CASE Crash
  <2>1. \A s \in Slot : view'.seen[s] <= nonce[s] /\ view'.copy[s].nonce <= nonce[s]
    BY <1>36 DEF Crash, NoView, FreshSlots, TypeInv, TypeOK, Nonce
  <2> QED BY <1>36, <2>1, OfflineAssumption DEF Crash, NoItem
<1>37. CASE UNCHANGED vars
  BY <1>37 DEF vars
<1>38. CASE SettleDecrypted
  BY <1>38 DEF SettleDecrypted
<1>39. ASSUME NEW p \in Pay, SettleUnreadable(p) PROVE NoncesSeen'
  BY <1>39, MarkLoadNonces DEF SettleUnreadable
<1> QED
  BY <1>1, <1>2, <1>3, <1>4, <1>5, <1>6, <1>7, <1>8, <1>9, <1>10, <1>11,
     <1>12, <1>13, <1>14, <1>15, <1>16, <1>17, <1>18, <1>19, <1>20, <1>21,
     <1>22, <1>23, <1>24, <1>25, <1>26, <1>27, <1>28, <1>29, <1>30, <1>31,
     <1>32, <1>33, <1>34, <1>35, <1>36, <1>37, <1>38, <1>39
     DEF Next, ChainStep, PayStep, SyncStep, SettleStep

(***************************************************************************)
(* The invariant of the system, and what follows from it.                  *)
(***************************************************************************)
Inv == TypeInv /\ Settlement /\ Backups /\ SignedFirst /\ NoncesSeen

\* The invariant holds in every state of every behaviour.
THEOREM Invariance == Spec => []Inv
<1>1. Init => Inv
  BY TypeInit, SettlementInit, BackupsInit, SignedFirstInit, NoncesSeenInit DEF Inv
<1>2. Inv /\ [Next]_vars => Inv'
  BY TypeStep, SettlementStep, BackupsStep, SignedFirstStep, NoncesSeenStep DEF Inv
<1> QED BY <1>1, <1>2, PTL DEF Spec

\* A signed payment stays queued until it has landed, whichever tasks
\* overlap, wherever the app is killed and whatever calls fail.
THEOREM PaymentsKept == Spec => []NoPaymentForgotten
<1>1. Inv => NoPaymentForgotten
  BY DEF Inv, Settlement
<1> QED BY Invariance, <1>1, PTL

\* No slot, nonce state, receipt or queue item ever claims a settlement the
\* chain does not know, although marks are saved after awaits.
THEOREM SettlementsTrue == Spec => []SettledIsOnChain
<1>1. Inv => SettledIsOnChain
  BY DEF Inv, Settlement
<1> QED BY Invariance, <1>1, PTL

\* The worker's bucket holds backups of queued items only.
THEOREM NoOrphanBackup == Spec => []BackupOnlyWhileQueued
<1>1. Inv => BackupOnlyWhileQueued
  BY DEF Inv, Backups
<1> QED BY Invariance, <1>1, PTL

(***************************************************************************)
(* Refinement.  The chain's steps execute, PayEnqueue issues, the two      *)
(* drops forget, and every other step leaves the ledger alone.             *)
(***************************************************************************)
LEMMA LedgerStutter ==
  ASSUME UNCHANGED <<nonce, signed, landed, failed>>, Queued' = Queued
  PROVE  [Ledger!Next]_(Ledger!vars)
BY DEF Ledger!vars

\* Writing a settlement status neither adds nor removes an item.
LEMMA SetStatusQueued ==
  ASSUME TypeInv, NEW p \in Pay, NEW status, status # "absent", SetStatus(p, status)
  PROVE  Queued' = Queued
BY DEF SetStatus, Queued, TypeInv, TypeOK

\* A dropped item is of a landed payment.
LEMMA DropForgets ==
  ASSUME Inv, NEW p \in Pay, NEW next, DropItem(p, next), p \in landed
  PROVE  Ledger!Forget(p)
<1>1. Queued' = Queued \ {p}
  BY DEF DropItem, Queued, Inv, TypeInv, TypeOK
<1> QED BY <1>1 DEF Ledger!Forget, DropItem, chain

\* Every step of the system is a step of the ledger or leaves it alone.
LEMMA LedgerStep ==
  ASSUME Inv, [Next]_vars
  PROVE  [Ledger!Next]_(Ledger!vars)
<1> USE DEF chain, device, tasks
<1>1. ASSUME NEW p \in Pay, Land(p) \/ FailOnChain(p) PROVE Ledger!Next
  <2>1. signed[p] # Unsigned /\ p \notin Decided
    BY <1>1 DEF Land, FailOnChain, Executable, Inv, SignedFirst, Signed
  <2>2. Queued' = Queued
    BY <1>1 DEF Land, FailOnChain, Queued
  <2>3. Ledger!Executable(p)
    BY <1>1, <2>1 DEF Land, FailOnChain, Executable, Ledger!Executable, Decided,
                      Ledger!Decided, Unsigned, Ledger!Unsigned
  <2>4. Ledger!Execute(p)
    BY <1>1, <2>2, <2>3 DEF Land, FailOnChain, Ledger!Execute
  <2> QED BY <2>4 DEF Ledger!Next
<1>2. CASE PayEnqueue
  <2>1. pay \in Payment /\ pay.nonce \in 1..nonce[pay.slot]
    <3>1. pay \in Payment
      BY <1>2 DEF PayEnqueue, At, Inv, TypeInv, PayInFlight
    <3>2. pay.slot \in Slot /\ pay.nonce \in Nonce /\ nonce[pay.slot] \in Nat
      BY <3>1 DEF Payment, Inv, TypeInv, TypeOK, Nonce
    <3>3. pay.nonce <= nonce[pay.slot]
      BY <3>1, OfflineAssumption DEF Payment, NoPay, Inv, NoncesSeen
    <3> QED BY <3>1, <3>2, <3>3 DEF Nonce
  <2>2. signed[pay.id] \in {Ledger!Unsigned, [slot |-> pay.slot, nonce |-> pay.nonce]}
    BY <1>2 DEF PayEnqueue, At, Inv, SignedFirst, Unsigned, Ledger!Unsigned
  <2>3. signed' = [signed EXCEPT ![pay.id] = [slot |-> pay.slot, nonce |-> pay.nonce]]
        /\ UNCHANGED <<nonce, landed, failed>>
    BY <1>2 DEF PayEnqueue
  <2>4. Queued' = Queued \cup {pay.id}
    BY <1>2, <2>1 DEF PayEnqueue, Queued, Payment, Inv, TypeInv, TypeOK
  <2>5. Ledger!Issue(pay.id)
    BY <2>1, <2>2, <2>3, <2>4 DEF Ledger!Issue, Payment
  <2> QED BY <2>1, <2>5 DEF Ledger!Next, Payment
<1>3. ASSUME NEW p \in Pay, SettleDrop(p) \/ CleanupDrop(p) PROVE Ledger!Next
  <2>1. p \in landed
    BY <1>3 DEF SettleDrop, CleanupDrop, DropItem, At, Inv, Settlement, ItemLanded
  <2>2. Ledger!Forget(p)
    BY <1>3, <2>1, DropForgets DEF SettleDrop, CleanupDrop
  <2> QED BY <2>2 DEF Ledger!Next
<1>4. ASSUME NEW p \in Pay,
             SettleUnknown(p) \/ SettleReject(p) \/ SettleForgetFails(p)
      PROVE  [Ledger!Next]_(Ledger!vars)
  <2>1. Queued' = Queued
    BY <1>4, SetStatusQueued
       DEF SettleUnknown, SettleReject, SettleForgetFails, Inv
  <2> QED BY <1>4, <2>1, LedgerStutter
           DEF SettleUnknown, SettleReject, SettleForgetFails
<1>5. ASSUME UNCHANGED <<nonce, signed, landed, failed, queue>>
      PROVE  [Ledger!Next]_(Ledger!vars)
  BY <1>5, LedgerStutter DEF Queued
<1>6. CASE PayStep
  <2>1. ASSUME NEW p \in Pay, PayStart(p) PROVE [Ledger!Next]_(Ledger!vars)
    BY <1>5, <2>1 DEF PayStart
  <2>2. CASE PaySaveNonce \/ PayLockNonce \/ PayEnqueueFails \/ PayStore
              \/ PayStoreFails \/ PayLockSlot \/ PayPublish
    BY <1>5, <2>2 DEF PaySaveNonce, PayLockNonce, PayEnqueueFails, PayStore,
                      PayStoreFails, PayLockSlot, PayPublish
  <2> QED BY <1>2, <1>6, <2>1, <2>2 DEF PayStep
<1>7. CASE SyncStep
  BY <1>5, <1>7 DEF SyncStep, SyncFetch, SyncLoad, SyncWrite
<1>8. CASE SettleStep
  <2>1. CASE \/ SettleStart \/ SettleSelect \/ SettleNoKey \/ SettleDecrypted
             \/ SettleSubmit \/ SettleSubmitFails \/ MarkSlot \/ MarkSingle
             \/ SettleCleanup \/ SettleEnd
    BY <1>5, <2>1 DEF SettleStart, SettleSelect, SettleNoKey, SettleDecrypted, SettleSubmit,
                      SettleSubmitFails, MarkSlot, MarkSingle, SettleCleanup, SettleEnd
  <2>2. ASSUME NEW p \in Pay,
               \/ SettleUpload(p) \/ SettleUnreadable(p) \/ SettleMark(p)
               \/ SettleRejected(p) \/ SettleConfirmed(p)
               \/ SettleForget(p) \/ CleanupForget(p) \/ CleanupForgetFails(p)
        PROVE  [Ledger!Next]_(Ledger!vars)
    BY <1>5, <2>2 DEF SettleUpload, SettleUnreadable, SettleMark, SettleRejected,
                      SettleConfirmed, MarkLoad, SettleForget, CleanupForget, CleanupForgetFails
  <2> QED BY <1>3, <1>4, <1>8, <2>1, <2>2 DEF SettleStep
<1>9. CASE Crash
  BY <1>5, <1>9 DEF Crash
<1>10. CASE UNCHANGED vars
  BY <1>5, <1>10 DEF vars
<1> QED
  BY <1>1, <1>6, <1>7, <1>8, <1>9, <1>10 DEF Next, ChainStep

\* The device, the worker and the chain implement the abstract ledger.
THEOREM ImplementsLedger == Spec => LedgerSpec
<1>1. Init => Ledger!Init
  BY DEF Init, Ledger!Init, Queued, Unsigned, Ledger!Unsigned
<1>2. Inv /\ [Next]_vars => [Ledger!Next]_(Ledger!vars)
  BY LedgerStep
<1> QED BY Invariance, <1>1, <1>2, PTL DEF Spec, LedgerSpec, Ledger!Spec
-----------------------------------------------------------------------------
(***************************************************************************)
(* The ledger itself.  Its invariant adds to its two promises that a       *)
(* decided payment is signed over a consumed value: this is what makes a   *)
(* second payment over the same value unexecutable.                        *)
(***************************************************************************)
DecidedConsumed ==
  \A p \in Ledger!Decided :
    signed[p] # Ledger!Unsigned /\ signed[p].nonce < nonce[signed[p].slot]

LedgerInv ==
  /\ Ledger!TypeOK /\ DecidedConsumed
  /\ Ledger!OnePaymentPerNonce /\ Ledger!NothingForgotten

\* The initial states satisfy the invariant.
LEMMA LedgerInit == Ledger!Init => LedgerInv
BY DEF Ledger!Init, LedgerInv, Ledger!TypeOK, DecidedConsumed, Ledger!OnePaymentPerNonce,
       Ledger!NothingForgotten, Ledger!Decided, Ledger!Unsigned

\* Signing a payment keeps the invariant: a decided one keeps its signature.
LEMMA LedgerIssue ==
  ASSUME LedgerInv, NEW p \in Pay, Ledger!Issue(p)
  PROVE  LedgerInv'
<1>1. PICK s \in Slot : \E n \in 1..nonce[s] :
        /\ signed[p] \in {Ledger!Unsigned, [slot |-> s, nonce |-> n]}
        /\ signed' = [signed EXCEPT ![p] = [slot |-> s, nonce |-> n]]
  BY DEF Ledger!Issue
<1>n. PICK n \in 1..nonce[s] :
        /\ signed[p] \in {Ledger!Unsigned, [slot |-> s, nonce |-> n]}
        /\ signed' = [signed EXCEPT ![p] = [slot |-> s, nonce |-> n]]
  BY <1>1
<1>2. nonce[s] \in Nat \ {0} /\ n \in Nat \ {0}
  BY <1>n DEF LedgerInv, Ledger!TypeOK
<1>3. [slot |-> s, nonce |-> n] # Ledger!Unsigned
  BY <1>2 DEF Ledger!Unsigned
<1>4. Ledger!TypeOK'
  BY <1>n, <1>2 DEF LedgerInv, Ledger!TypeOK, Ledger!Issue
<1>5. \A q \in Ledger!Decided : signed'[q] = signed[q]
  BY <1>n DEF LedgerInv, Ledger!TypeOK, DecidedConsumed, Ledger!Decided
<1>6. DecidedConsumed' /\ Ledger!OnePaymentPerNonce'
  BY <1>5 DEF LedgerInv, DecidedConsumed, Ledger!OnePaymentPerNonce, Ledger!Decided,
              Ledger!Unsigned, Ledger!Issue
<1>7. Ledger!NothingForgotten'
  BY <1>n DEF LedgerInv, Ledger!NothingForgotten, Ledger!TypeOK, Ledger!Issue, Ledger!Unsigned
<1> QED BY <1>4, <1>6, <1>7 DEF LedgerInv

\* Executing a payment consumes the value no decided payment is signed over.
LEMMA LedgerExecute ==
  ASSUME LedgerInv, NEW p \in Pay, Ledger!Execute(p)
  PROVE  LedgerInv'
<1> DEFINE s == signed[p].slot
<1>1. signed[p] # Ledger!Unsigned /\ signed[p].nonce = nonce[s] /\ p \notin Ledger!Decided
  BY DEF Ledger!Execute, Ledger!Executable
<1>2. s \in Slot /\ nonce[s] \in Nat \ {0}
  BY <1>1 DEF LedgerInv, Ledger!TypeOK
<1>3. nonce' = [nonce EXCEPT ![s] = @ + 1] /\ signed' = signed
  BY DEF Ledger!Execute
<1>4. Ledger!Decided' = Ledger!Decided \cup {p}
  BY DEF Ledger!Execute, Ledger!Decided
<1>5. Ledger!TypeOK'
  BY <1>2, <1>3 DEF LedgerInv, Ledger!TypeOK, Ledger!Execute
<1>6. \A q \in Ledger!Decided : signed[q].slot \in Slot /\ signed[q].nonce \in Nat
  BY DEF LedgerInv, Ledger!TypeOK, DecidedConsumed, Ledger!Decided
<1>7. \A t \in Slot : nonce[t] \in Nat /\ nonce'[t] \in Nat /\ nonce[t] <= nonce'[t]
  BY <1>2, <1>3 DEF LedgerInv, Ledger!TypeOK
<1>8. nonce[s] < nonce'[s]
  BY <1>2, <1>3 DEF LedgerInv, Ledger!TypeOK
<1>9. DecidedConsumed'
  BY <1>1, <1>2, <1>3, <1>4, <1>6, <1>7, <1>8
     DEF LedgerInv, DecidedConsumed, Ledger!Unsigned
<1>10. \A q \in Ledger!Decided : signed[q] # signed[p]
  BY <1>1, <1>2, <1>6 DEF LedgerInv, DecidedConsumed
<1>11. Ledger!OnePaymentPerNonce'
  BY <1>3, <1>4, <1>10 DEF LedgerInv, Ledger!OnePaymentPerNonce
<1>12. Ledger!NothingForgotten'
  BY DEF LedgerInv, Ledger!NothingForgotten, Ledger!Execute, Ledger!Unsigned
<1> QED BY <1>5, <1>9, <1>11, <1>12 DEF LedgerInv

\* Only a landed payment is forgotten.
LEMMA LedgerForget ==
  ASSUME LedgerInv, NEW p \in Pay, Ledger!Forget(p)
  PROVE  LedgerInv'
<1>1. Ledger!TypeOK'
  BY DEF LedgerInv, Ledger!TypeOK, Ledger!Forget
<1>2. DecidedConsumed' /\ Ledger!OnePaymentPerNonce'
  BY DEF LedgerInv, DecidedConsumed, Ledger!OnePaymentPerNonce, Ledger!Decided,
         Ledger!Forget, Ledger!Unsigned
<1>3. Ledger!NothingForgotten'
  BY DEF LedgerInv, Ledger!NothingForgotten, Ledger!Forget, Ledger!Unsigned
<1> QED BY <1>1, <1>2, <1>3 DEF LedgerInv

\* The invariant holds in every reachable state of the ledger.
THEOREM LedgerInvariant == Ledger!Spec => []LedgerInv
<1>1. LedgerInv /\ [Ledger!Next]_(Ledger!vars) => LedgerInv'
  <2> SUFFICES ASSUME LedgerInv, [Ledger!Next]_(Ledger!vars) PROVE LedgerInv'
    OBVIOUS
  <2>1. ASSUME NEW p \in Pay, Ledger!Issue(p) PROVE LedgerInv'
    BY <2>1, LedgerIssue
  <2>2. ASSUME NEW p \in Pay, Ledger!Execute(p) PROVE LedgerInv'
    BY <2>2, LedgerExecute
  <2>3. ASSUME NEW p \in Pay, Ledger!Forget(p) PROVE LedgerInv'
    BY <2>3, LedgerForget
  <2>4. CASE UNCHANGED Ledger!vars
    BY <2>4 DEF LedgerInv, Ledger!TypeOK, DecidedConsumed, Ledger!OnePaymentPerNonce,
                Ledger!NothingForgotten, Ledger!Decided, Ledger!Unsigned, Ledger!vars
  <2> QED BY <2>1, <2>2, <2>3, <2>4 DEF Ledger!Next
<1> QED BY LedgerInit, <1>1, PTL DEF Ledger!Spec

\* The chain never executes two payments signed over one nonce value.
THEOREM LedgerOnePaymentPerNonce == Ledger!Spec => []Ledger!OnePaymentPerNonce
<1>1. LedgerInv => Ledger!OnePaymentPerNonce
  BY DEF LedgerInv
<1> QED BY LedgerInvariant, <1>1, PTL

\* An issued payment that is no longer tracked has landed.
THEOREM LedgerNothingForgotten == Ledger!Spec => []Ledger!NothingForgotten
<1>1. LedgerInv => Ledger!NothingForgotten
  BY DEF LedgerInv
<1> QED BY LedgerInvariant, <1>1, PTL

\* Of the payments queued on the device and executed by the chain no two
\* share a nonce value.
THEOREM OnePaymentPerNonce == Spec => []Ledger!OnePaymentPerNonce
BY ImplementsLedger, LedgerOnePaymentPerNonce, PTL DEF LedgerSpec
-----------------------------------------------------------------------------
(***************************************************************************)
(* Locks.  Three promises about the nonce locks of the device can be       *)
(* broken (MCOfflinePayments_lost_lock, MCOfflinePayments_crash_reuse).    *)
(* They are proved of every behaviour without the two kinds of step that   *)
(* break them, whatever else overlaps, lags, fails or is killed:           *)
(*   KilledUnlocked  a build ends after it stored its item and before it   *)
(*                   locked its slot                                       *)
(*   LostUpdate      a refresh or a mark saves a slot from a record it     *)
(*                   loaded before the slot went to another payment        *)
(***************************************************************************)
KilledUnlocked == (Crash \/ PayStoreFails) /\ pc["pay"] \in {"queued", "stored"}

LostByRefresh == \E s \in Slot : SyncWrite(s) /\ view.copy[s].tx # slot[s].tx
LostByMark == MarkSlot /\ item.slot \in Slot /\ slot[item.slot].tx # item.id
LostUpdate == LostByRefresh \/ LostByMark

LosesLock == KilledUnlocked \/ LostUpdate

\* p is being built, and its slot is not locked yet.
Building == {"signing", "saved", "locked", "queued", "stored"}
Unlocked(p) == pay.id = p /\ pc["pay"] \in Building
Taken(record, p) == record.tx = p /\ record.status \in {"locked", "settling"}

\* An open payment holds its slot, and a slot is recorded for its own payment.
Holds == \A p \in Pay : Open(p) /\ ~Unlocked(p) => Taken(slot[signed[p].slot], p)
Own == \A s \in Slot : \A p \in Pay : slot[s].tx = p => signed[p].slot = s

\* A record that was given up is of a landed payment, in the copies too.
GivenUp(record) == \A p \in Pay : record.tx = p => Taken(record, p) \/ p \in landed
Released == \A s \in Slot : GivenUp(slot[s]) /\ GivenUp(view.copy[s])

\* A build has its slot to itself, and a ready nonce state offers a free one.
Alone ==
  pc["pay"] \in Building =>
    /\ \A q \in Pay : Open(q) /\ q # pay.id => signed[q].slot # pay.slot
    /\ pc["pay"] \in {"signing", "saved", "locked"} => ~Open(pay.id)

Spare ==
  /\ single.status = "ready" => \A q \in Pay : Open(q) => signed[q].slot # single.slot
  /\ pc["pay"] \in {"locked", "queued", "stored", "publish"} => single.status # "ready"

Locks == Holds /\ Own /\ Released /\ Alone /\ Spare

\* Initially nothing is queued, no slot is taken and nothing is in flight.
LEMMA LocksInit == Init => Locks
BY OfflineAssumption
   DEF Init, Locks, Holds, Own, Released, GivenUp, Alone, Spare, Open, FreshSlots, NoView,
       NoNonce, Tasks, Building

\* An open payment is signed over a slot of the wallet, the one of its build.
LEMMA OpenSigned ==
  ASSUME Inv, Locks, NEW p \in Pay, Open(p)
  PROVE  /\ signed[p].slot \in Slot /\ signed[p] # Unsigned
         /\ Unlocked(p) => pay.slot = signed[p].slot
BY DEF Inv, SignedFirst, Signed, Queued, TypeInv, TypeOK, Open, Unsigned, Unlocked, Locks,
       Alone, Building

\* Two open payments are not signed over the same slot.
LEMMA OneHolder ==
  ASSUME Inv, Locks, NEW p \in Pay, NEW q \in Pay, Open(p), Open(q),
         signed[p].slot = signed[q].slot
  PROVE  p = q
<1>1. CASE Unlocked(p) \/ Unlocked(q)
  BY <1>1, OpenSigned DEF Locks, Alone, Unlocked
<1>2. CASE ~Unlocked(p) /\ ~Unlocked(q)
  BY <1>2 DEF Locks, Holds, Taken
<1> QED BY <1>1, <1>2

\* The value a build is offered is of a slot no open payment holds.
LEMMA OfferedIsFree ==
  ASSUME Locks, pc["pay"] = "idle", NEW n \in NonceForSigning, NEW q \in Pay, Open(q)
  PROVE  signed[q].slot # n.slot
<1>1. ~Unlocked(q)
  BY DEF Unlocked, Building
<1>2. slot[signed[q].slot].status # "ready"
  BY <1>1 DEF Locks, Holds, Taken
<1>3. CASE ReadySlots # {}
  BY <1>2, <1>3 DEF NonceForSigning, ReadySlots
<1>4. CASE ReadySlots = {}
  BY <1>4 DEF NonceForSigning, Locks, Spare
<1> QED BY <1>3, <1>4

\* What leaves the slots and the build alone, and opens no payment.
LEMMA LocksKept ==
  ASSUME Inv, Locks, UNCHANGED <<signed, slot, pay, pc["pay"]>>, landed \subseteq landed',
         \A s \in Slot : view'.copy[s] \in {view.copy[s], slot[s], FreshSlots[s]},
         single' = single \/ single'.status # "ready",
         \A q \in Pay : Open(q)' => Open(q)
  PROVE  Locks'
<1>1. pc["pay"] \in Building => pay.id \in Pay
  BY DEF Inv, TypeInv, PayInFlight, Payment, Building
<1>2. Holds'
  BY DEF Locks, Holds, Taken, Unlocked
<1>3. Own' /\ Spare'
  BY DEF Locks, Own, Spare
<1>4. Alone'
  BY <1>1 DEF Locks, Alone
<1>5. Released'
  <2>1. \A s \in Slot : GivenUp(FreshSlots[s])
    BY OfflineAssumption DEF GivenUp, FreshSlots
  <2>2. \A s \in Slot : GivenUp(slot'[s]) /\ GivenUp(view'.copy[s])
    BY <2>1 DEF Locks, Released
  <2> QED BY <2>2 DEF Released, GivenUp, Taken
<1> QED BY <1>2, <1>3, <1>4, <1>5 DEF Locks

\* A step of the chain closes payments only.
LEMMA ChainLocks ==
  ASSUME Inv, Locks, ChainStep
  PROVE  Locks'
<1>1. /\ UNCHANGED <<device, tasks>> /\ landed \subseteq landed'
      /\ \A q \in Pay : Open(q)' => Open(q)
  BY DEF ChainStep, Land, FailOnChain, Open, Decided, device
<1> QED BY <1>1, LocksKept DEF device, tasks

\* The steps of a settlement run that save no slot.
LEMMA SettleLocks ==
  ASSUME Inv, Locks, SettleStep, ~MarkSlot
  PROVE  Locks'
<1> DEFINE Frame == /\ UNCHANGED <<signed, slot, pay, view, landed, pc["pay"]>>
                    /\ single' = single \/ single'.status # "ready"
           Calm == \A q \in Pay : Open(q)' => Open(q)
<1> USE DEF GoTo, At, device, chain, Tasks, Inv, TypeInv, TypeOK, Open, Decided
<1>1. ASSUME SettleStart \/ SettleSelect \/ SettleNoKey \/ SettleDecrypted PROVE Frame /\ Calm
  BY <1>1 DEF SettleStart, MayStart, SettleSelect, SettleNoKey, SettleDecrypted
<1>2. ASSUME SettleSubmit \/ SettleSubmitFails \/ SettleCleanup \/ SettleEnd
      PROVE  Frame /\ Calm
  BY <1>2 DEF SettleSubmit, SettleSubmitFails, SettleCleanup, SettleEnd
<1>3. ASSUME MarkSingle PROVE Frame /\ Calm
  <2>1. item.id \in Pay /\ item.mark \in {"settling", "settled", "locked"}
        /\ item.single \in NonceState
    BY <1>3 DEF MarkSingle, ItemInHand, Items
  <2>2. ASSUME item.single.tx = item.id
        PROVE  [item.single EXCEPT !.status = item.mark].status = item.mark
    BY <2>1, <2>2, OfflineAssumption DEF NonceState, NoNonce
  <2> QED BY <1>3, <2>1, <2>2 DEF MarkSingle
<1>4. ASSUME NEW p \in Pay, SettleUpload(p) PROVE Frame /\ Calm
  BY <1>4 DEF SettleUpload
<1>5. ASSUME NEW p \in Pay, \/ SettleUnreadable(p) \/ SettleMark(p) \/ SettleRejected(p)
                            \/ SettleConfirmed(p)
      PROVE  Frame /\ Calm
  BY <1>5 DEF SettleUnreadable, SettleMark, SettleRejected, SettleConfirmed, MarkLoad
<1>6. ASSUME NEW p \in Pay, SettleUnknown(p) \/ SettleReject(p) \/ SettleForgetFails(p)
      PROVE  Frame /\ Calm
  <2>1. \A q \in Pay : queue[q] = "absent" => queue'[q] = "absent"
    BY <1>6 DEF SettleUnknown, SettleReject, SettleForgetFails, SetStatus
  <2>2. Frame /\ UNCHANGED failed
    BY <1>6 DEF SettleUnknown, SettleReject, SettleForgetFails
  <2> QED BY <2>1, <2>2
<1>7. ASSUME NEW p \in Pay, SettleForget(p) \/ CleanupForget(p) \/ CleanupForgetFails(p)
      PROVE  Frame /\ Calm
  BY <1>7 DEF SettleForget, CleanupForget, CleanupForgetFails
<1>8. ASSUME NEW p \in Pay, SettleDrop(p) \/ CleanupDrop(p) PROVE Frame /\ Calm
  BY <1>8 DEF SettleDrop, CleanupDrop, DropItem
<1>9. Frame /\ Calm
  BY <1>1, <1>2, <1>3, <1>4, <1>5, <1>6, <1>7, <1>8 DEF SettleStep
<1> QED BY <1>9, LocksKept

\* A mark saves the slot of its own payment, which is the only holder.
LEMMA MarkSlotLocks ==
  ASSUME Inv, Locks, MarkSlot, ~LostUpdate
  PROVE  Locks'
<1>1. /\ UNCHANGED <<pc["pay"], signed, single, queue, pay, view, landed, failed>>
      /\ item.id \in Pay /\ item.mark \in {"settling", "settled", "locked"}
      /\ item.mark = "settled" => item.id \in landed
  BY DEF MarkSlot, At, GoTo, chain, Inv, TypeInv, TypeOK, ItemInHand, Items, Tasks,
         Settlement, ItemLanded
<1>2. \A q \in Pay : Open(q)' <=> Open(q)
  BY <1>1 DEF Open, Decided
<1>3. CASE slot' = slot
  BY <1>1, <1>2, <1>3, LocksKept
<1>4. CASE \A s \in Slot :
             slot'[s] = IF s = item.slot
                        THEN [status |-> item.mark, nonce |-> item.nonce, tx |-> item.id]
                        ELSE slot[s]
  <2>1. \A s \in Slot : slot'[s].tx = slot[s].tx
    BY <1>4 DEF LostUpdate, LostByMark
  <2>2. \A s \in Slot : \A q \in Pay : Taken(slot[s], q) => Taken(slot'[s], q) \/ q \in landed
    BY <1>1, <1>4, <2>1 DEF Taken
  <2>3. Holds'
    <3>1. ASSUME NEW q \in Pay, Open(q), ~Unlocked(q) PROVE Taken(slot'[signed[q].slot], q)
      BY <2>2, <3>1, OpenSigned DEF Locks, Holds, Open, Decided
    <3> QED BY <1>1, <1>2, <3>1 DEF Holds, Unlocked, Taken
  <2>4. Own'
    BY <1>1, <2>1 DEF Locks, Own
  <2>5. Released'
    <3>1. \A s \in Slot : GivenUp(slot'[s])
      BY <1>1, <2>1, <2>2 DEF Locks, Released, GivenUp
    <3> QED BY <1>1, <3>1 DEF Locks, Released, GivenUp, Taken
  <2>6. Alone' /\ Spare'
    <3>1. pc["pay"] \in Building => pay.id \in Pay
      BY DEF Inv, TypeInv, PayInFlight, Payment, Building
    <3> QED BY <1>1, <1>2, <3>1 DEF Locks, Alone, Spare
  <2> QED BY <2>3, <2>4, <2>5, <2>6 DEF Locks
<1> QED BY <1>3, <1>4 DEF MarkSlot

\* A refresh that knows the holder of a slot leaves the slot to it.
LEMMA SyncLocks ==
  ASSUME Inv, Locks, SyncStep, ~LostUpdate
  PROVE  Locks'
<1> USE DEF At, GoTo, chain, device, Inv, TypeInv, TypeOK, Tasks
<1>1. UNCHANGED <<pc["pay"], signed, single, queue, pay, landed, failed>>
  BY DEF SyncStep, SyncFetch, SyncLoad, SyncWrite, MayStart
<1>2. \A q \in Pay : Open(q)' <=> Open(q)
  BY <1>1 DEF Open, Decided
<1>3. CASE SyncFetch
  <2>1. slot' = slot /\ view'.copy = FreshSlots
    BY <1>3 DEF SyncFetch, NoView
  <2> QED BY <1>1, <1>2, <2>1, LocksKept
<1>4. CASE SyncLoad
  <2>1. slot' = slot /\ view'.copy = slot
    BY <1>4 DEF SyncLoad, Views
  <2> QED BY <1>1, <1>2, <2>1, LocksKept
<1>5. ASSUME NEW s \in Slot, SyncWrite(s) PROVE Locks'
  <2> DEFINE new == Merged(view.copy[s], view.seen[s])
  <2>1. /\ slot' = [slot EXCEPT ![s] = new] /\ view.copy[s] \in SlotRecord
        /\ \A r \in Slot : view'.copy[r] \in {view.copy[r], FreshSlots[r]}
    BY <1>5 DEF SyncWrite, NoView, Views
  <2>2. new.tx = view.copy[s].tx /\ view.copy[s].tx = slot[s].tx
    BY <1>5, <2>1 DEF Merged, SlotRecord, LostUpdate, LostByRefresh
  <2>3. \A q \in Pay : Taken(view.copy[s], q) => Taken(new, q)
    BY <2>1, OfflineAssumption DEF Merged, LocalPending, SlotRecord, Taken
  <2>4. GivenUp(new)
    BY <2>2, <2>3 DEF Locks, Released, GivenUp
  <2>5. Holds'
    <3>1. ASSUME NEW q \in Pay, Open(q), ~Unlocked(q) PROVE Taken(slot'[signed[q].slot], q)
      <4>1. Taken(slot[signed[q].slot], q) /\ signed[q].slot \in Slot /\ q \notin landed
        BY <3>1, OpenSigned DEF Locks, Holds, Open, Decided
      <4>2. signed[q].slot = s => Taken(new, q)
        BY <2>2, <2>4, <4>1 DEF GivenUp, Taken
      <4> QED BY <2>1, <4>1, <4>2
    <3> QED BY <1>1, <1>2, <3>1 DEF Holds, Unlocked, Taken
  <2>6. Own'
    BY <1>1, <2>1, <2>2 DEF Locks, Own
  <2>7. Released'
    <3>1. \A r \in Slot : GivenUp(slot'[r]) /\ GivenUp(view'.copy[r])
      <4>1. \A r \in Slot : GivenUp(FreshSlots[r])
        BY OfflineAssumption DEF GivenUp, FreshSlots
      <4> QED BY <2>1, <2>4, <4>1 DEF Locks, Released
    <3> QED BY <1>1, <3>1 DEF Released, GivenUp, Taken
  <2>8. Alone' /\ Spare'
    <3>1. pc["pay"] \in Building => pay.id \in Pay
      BY DEF PayInFlight, Payment, Building
    <3> QED BY <1>1, <1>2, <3>1 DEF Locks, Alone, Spare
  <2> QED BY <2>5, <2>6, <2>7, <2>8 DEF Locks
<1> QED BY <1>3, <1>4, <1>5 DEF SyncStep

\* A build takes a free slot, and locks it before it lets go of it.
LEMMA PayLocks ==
  ASSUME Inv, Locks, PayStep, ~KilledUnlocked
  PROVE  Locks'
<1> USE DEF At, GoTo, chain, device, Inv, TypeInv, TypeOK, Tasks
<1>1. UNCHANGED <<view, landed, failed>>
  BY DEF PayStep, PayStart, PaySaveNonce, PayLockNonce, PayEnqueue, PayEnqueueFails,
         ReleaseNonce, PayStore, PayStoreFails, PayLockSlot, PayPublish
<1>2. pc["pay"] # "idle" => pay \in Payment /\ pay.id \in Pay
  BY DEF PayInFlight, Payment
<1>3. ASSUME UNCHANGED <<signed, slot>> PROVE Own' /\ Released'
  BY <1>1, <1>3 DEF Locks, Own, Released, GivenUp, Taken
<1>4. ASSUME UNCHANGED queue PROVE \A q \in Pay : Open(q)' <=> Open(q)
  BY <1>1, <1>4 DEF Open, Decided
<1>5. ASSUME NEW p \in Pay, PayStart(p) PROVE Locks'
  <2>1. PICK n \in NonceForSigning :
          signed[p] \in {Unsigned, n} /\ pay' = [id |-> p, slot |-> n.slot, nonce |-> n.nonce]
    BY <1>5 DEF PayStart
  <2>2. pc["pay"] = "idle" /\ pc'["pay"] = "signing" /\ UNCHANGED <<signed, queue, slot, single>>
    BY <1>5 DEF PayStart, MayStart
  <2>3. \A q \in Pay : Open(q) => signed[q].slot # n.slot
    BY <2>2, OfferedIsFree
  <2>4. ~Open(p)
    BY <2>1, <2>3, OpenSigned
  <2>5. Alone'
    BY <1>4, <2>1, <2>2, <2>3, <2>4 DEF Alone
  <2>6. Holds'
    BY <1>4, <2>2 DEF Locks, Holds, Taken, Unlocked, Building
  <2>7. Spare'
    BY <1>4, <2>2 DEF Locks, Spare
  <2> QED BY <1>3, <2>2, <2>5, <2>6, <2>7 DEF Locks
<1>6. CASE PaySaveNonce
  <2>1. /\ pc["pay"] = "signing" /\ pc'["pay"] = "saved" /\ UNCHANGED <<signed, queue, slot, pay>>
        /\ single'.slot = pay.slot
    BY <1>6 DEF PaySaveNonce
  <2>2. \A q \in Pay : Open(q) => signed[q].slot # pay.slot
    BY <2>1 DEF Locks, Alone, Building
  <2>3. Alone' /\ Spare'
    BY <1>2, <1>4, <2>1, <2>2 DEF Locks, Alone, Spare, Building
  <2>4. Holds'
    BY <1>4, <2>1 DEF Locks, Holds, Taken, Unlocked, Building
  <2> QED BY <1>3, <2>1, <2>3, <2>4 DEF Locks
<1>7. CASE PayLockNonce
  <2>1. pc["pay"] = "saved" /\ UNCHANGED <<signed, queue, slot>>
    BY <1>7 DEF PayLockNonce
  <2>2. CASE CanBeLocked
    <3>1. pc'["pay"] = "locked" /\ pay' = pay /\ single'.status # "ready"
      <4>1. /\ pc'["pay"] = "locked" /\ pay' = pay /\ pay \in Payment
            /\ single' = [single EXCEPT !.status = "locked", !.tx = pay.id]
        BY <1>2, <1>7, <2>2 DEF PayLockNonce
      <4>2. single # NoNonce
        BY <2>2, <4>1, OfflineAssumption DEF CanBeLocked, NoNonce, Payment
      <4> QED BY <4>1, <4>2 DEF NonceState
    <3>2. Alone' /\ Spare'
      BY <1>2, <1>4, <2>1, <3>1 DEF Locks, Alone, Spare, Building
    <3>3. Holds'
      BY <1>4, <2>1, <3>1 DEF Locks, Holds, Taken, Unlocked, Building
    <3> QED BY <1>3, <2>1, <3>2, <3>3 DEF Locks
  <2>3. CASE ~CanBeLocked
    <3>1. pc'["pay"] = "idle" /\ UNCHANGED single
      BY <1>7, <2>3 DEF PayLockNonce
    <3>2. Alone' /\ Spare'
      BY <1>4, <2>1, <3>1 DEF Locks, Alone, Spare, Building
    <3>3. Holds'
      BY <1>4, <2>1, <3>1 DEF Locks, Alone, Holds, Taken, Unlocked, Building
    <3> QED BY <1>3, <2>1, <3>2, <3>3 DEF Locks
  <2> QED BY <2>2, <2>3
<1>8. CASE PayEnqueue
  <2>1. /\ pc["pay"] = "locked" /\ pc'["pay"] = "queued" /\ UNCHANGED <<slot, single, pay>>
        /\ signed' = [signed EXCEPT ![pay.id] = [slot |-> pay.slot, nonce |-> pay.nonce]]
        /\ queue' = [queue EXCEPT ![pay.id] = IF @ = "confirmed" THEN @ ELSE "pending"]
    BY <1>8 DEF PayEnqueue
  <2>2. /\ signed'[pay.id].slot = pay.slot
        /\ \A q \in Pay : q # pay.id => signed'[q] = signed[q] /\ queue'[q] = queue[q]
        /\ \A q \in Pay : signed[q] # Unsigned => signed'[q] = signed[q]
    BY <1>2, <2>1 DEF SignedFirst
  <2>3. \A q \in Pay : q # pay.id => (Open(q)' <=> Open(q))
    BY <1>1, <2>2 DEF Open, Decided
  <2>4. Holds'
    BY <2>1, <2>2, <2>3 DEF Locks, Holds, Taken, Unlocked, Building
  <2>5. Own'
    <3>1. Unsigned.slot \notin Slot
      BY OfflineAssumption DEF Unsigned
    <3> QED BY <2>1, <2>2, <3>1 DEF Locks, Own
  <2>6. Released'
    BY <1>1, <2>1 DEF Locks, Released, GivenUp, Taken
  <2>7. Alone'
    BY <1>2, <2>1, <2>2, <2>3 DEF Locks, Alone, Building
  <2>8. Spare'
    BY <2>1 DEF Locks, Spare
  <2> QED BY <2>4, <2>5, <2>6, <2>7, <2>8 DEF Locks
<1>9. CASE PayEnqueueFails
  <2>1. /\ pc["pay"] = "locked" /\ pc'["pay"] = "idle" /\ UNCHANGED <<signed, queue, slot>>
        /\ single'.slot = pay.slot
    BY <1>9 DEF PayEnqueueFails, ReleaseNonce
  <2>2. Alone' /\ Spare'
    BY <1>4, <2>1 DEF Locks, Alone, Spare, Building
  <2>3. Holds'
    BY <1>4, <2>1 DEF Locks, Alone, Holds, Taken, Unlocked, Building
  <2> QED BY <1>3, <2>1, <2>2, <2>3 DEF Locks
<1>10. CASE PayStore
  <2>1. /\ pc["pay"] = "queued" /\ pc'["pay"] = "stored"
        /\ UNCHANGED <<signed, queue, slot, single, pay>>
    BY <1>10 DEF PayStore
  <2>2. Alone' /\ Spare'
    BY <1>2, <1>4, <2>1 DEF Locks, Alone, Spare, Building
  <2>3. Holds'
    BY <1>4, <2>1 DEF Locks, Holds, Taken, Unlocked, Building
  <2> QED BY <1>3, <2>1, <2>2, <2>3 DEF Locks
<1>11. CASE PayLockSlot
  <2>1. /\ pc["pay"] = "stored" /\ pc'["pay"] = "publish"
        /\ UNCHANGED <<signed, queue, single, pay>>
        /\ slot' = [slot EXCEPT ![pay.slot].status = "locked", ![pay.slot].tx = pay.id]
    BY <1>11 DEF PayLockSlot
  <2>2. /\ pay.slot \in Slot /\ slot'[pay.slot].status = "locked" /\ slot'[pay.slot].tx = pay.id
        /\ \A s \in Slot : s # pay.slot => slot'[s] = slot[s]
    BY <1>2, <2>1 DEF Payment, SlotRecord
  <2>3. signed[pay.id].slot = pay.slot
        /\ \A q \in Pay : Open(q) /\ q # pay.id => signed[q].slot # pay.slot
    BY <1>2, <2>1 DEF Locks, Alone, Building, SignedFirst, Signed
  <2>4. Holds'
    <3> SUFFICES ASSUME NEW q \in Pay, Open(q) PROVE Taken(slot'[signed[q].slot], q)
      BY <1>4, <2>1 DEF Holds, Taken
    <3>1. signed[q].slot \in Slot
      BY OpenSigned
    <3>2. CASE q = pay.id
      BY <2>2, <2>3, <3>2 DEF Taken
    <3>3. CASE q # pay.id
      BY <2>2, <2>3, <3>1, <3>3 DEF Locks, Holds, Taken, Unlocked
    <3> QED BY <3>2, <3>3
  <2>5. Own'
    BY <2>1, <2>2, <2>3 DEF Locks, Own
  <2>6. Released'
    BY <1>1, <2>2 DEF Locks, Released, GivenUp, Taken
  <2>7. Alone' /\ Spare'
    BY <1>4, <2>1 DEF Locks, Alone, Spare, Building
  <2> QED BY <2>4, <2>5, <2>6, <2>7 DEF Locks
<1>12. CASE PayPublish
  <2>1. /\ pc["pay"] = "publish" /\ pc'["pay"] = "idle"
        /\ UNCHANGED <<signed, queue, slot, single>>
    BY <1>12 DEF PayPublish
  <2>2. Alone' /\ Spare'
    BY <1>4, <2>1 DEF Locks, Alone, Spare, Building
  <2>3. Holds'
    BY <1>4, <2>1 DEF Locks, Holds, Taken, Unlocked, Building
  <2> QED BY <1>3, <2>1, <2>2, <2>3 DEF Locks
<1>13. ~PayStoreFails
  BY DEF PayStoreFails, KilledUnlocked
<1> QED
  BY <1>5, <1>6, <1>7, <1>8, <1>9, <1>10, <1>11, <1>12, <1>13 DEF PayStep

\* A kill elsewhere leaves no open payment without its lock.
LEMMA CrashLocks ==
  ASSUME Inv, Locks, Crash, ~KilledUnlocked
  PROVE  Locks'
<1>1. /\ UNCHANGED <<signed, slot, single, queue, landed, failed>>
      /\ pc'["pay"] = "idle" /\ view'.copy = FreshSlots /\ pc["pay"] \notin {"queued", "stored"}
  BY DEF Crash, KilledUnlocked, device, chain, Tasks, NoView
<1>2. \A q \in Pay : (Open(q)' <=> Open(q)) /\ (Open(q) => ~Unlocked(q))
  BY <1>1 DEF Open, Decided, Unlocked, Building, Locks, Alone
<1>3. Holds' /\ Own'
  BY <1>1, <1>2 DEF Locks, Holds, Own, Taken
<1>4. Released'
  BY <1>1, OfflineAssumption DEF Locks, Released, GivenUp, Taken, FreshSlots
<1>5. Alone' /\ Spare'
  BY <1>1, <1>2 DEF Locks, Alone, Spare, Building
<1> QED BY <1>3, <1>4, <1>5 DEF Locks

\* Every other step keeps the locks.
LEMMA LocksStep ==
  ASSUME Inv, Locks, [Next]_vars, [~LosesLock]_vars
  PROVE  Locks'
<1>1. CASE UNCHANGED vars
  BY <1>1 DEF vars, chain, device, tasks, Locks, Holds, Own, Released, GivenUp, Alone, Spare,
              Open, Decided, Unlocked, Taken, Building
<1>2. CASE Next /\ ~KilledUnlocked /\ ~LostUpdate
  BY <1>2, ChainLocks, PayLocks, SyncLocks, SettleLocks, MarkSlotLocks, CrashLocks DEF Next
<1> QED BY <1>1, <1>2 DEF LosesLock

\* The locks hold in every state of every behaviour that loses none.
THEOREM LocksInvariance == Spec => [](Inv /\ Locks) \/ <><<LosesLock>>_vars
<1>1. Inv /\ Locks /\ [Next]_vars /\ [~LosesLock]_vars => Locks'
  BY LocksStep
<1> QED BY LocksInit, <1>1, Invariance, PTL DEF Spec

\* Two payments share a nonce value only after a build ended between the
\* enqueue of its item and the lock of its slot, or after a save overwrote
\* the lock: no other overlap, kill, lag or failed write leads there.
THEOREM ExclusiveNonces == Spec => []NoncesExclusive \/ <><<LosesLock>>_vars
<1>1. Inv /\ Locks => NoncesExclusive
  BY OneHolder DEF NoncesExclusive
<1> QED BY LocksInvariance, <1>1, PTL

\* Nor does a payment that awaits settlement lose its slot in another way.
THEOREM SlotsHeld == Spec => []OpenPaymentHoldsItsSlot \/ <><<LosesLock>>_vars
<1>1. Inv /\ Locks => OpenPaymentHoldsItsSlot
  BY DEF OpenPaymentHoldsItsSlot, Locks, Holds, Taken, Unlocked
<1> QED BY LocksInvariance, <1>1, PTL

\* A save that knows the holder of a pinned slot leaves the slot to it.
LEMMA PinnedStep ==
  ASSUME Inv, Locks, [Next]_vars, [~LosesLock]_vars, NEW s \in PinnedSlots
  PROVE  slot'[s].tx = slot[s].tx /\ slot'[s].status # "ready"
<1> DEFINE t == slot[s].tx
<1>1. /\ s \in Slot /\ slot[s].status \in {"locked", "settling"} /\ slot[s] \in SlotRecord
      /\ t \in Pay /\ Open(t) /\ signed[t].slot = s /\ t \notin landed
  BY DEF PinnedSlots, Inv, TypeInv, TypeOK, SlotRecord, Locks, Own, Open, Decided
<1>2. CASE UNCHANGED slot
  BY <1>1, <1>2
<1>n. UNCHANGED slot \/ ~LostUpdate
  BY DEF LosesLock, vars, device
<1>3. CASE PayLockSlot
  <2>1. /\ slot' = [slot EXCEPT ![pay.slot].status = "locked", ![pay.slot].tx = pay.id]
        /\ pc["pay"] = "stored" /\ slot \in [Slot -> SlotRecord]
    BY <1>3 DEF PayLockSlot, At, Inv, TypeInv, TypeOK
  <2>2. pay.slot = s => pay.id = t
    BY <1>1, <2>1 DEF Locks, Alone, Building
  <2> QED BY <1>1, <2>1, <2>2 DEF SlotRecord
<1>4. ASSUME NEW r \in Slot, SyncWrite(r) PROVE slot'[s].tx = t /\ slot'[s].status # "ready"
  <2>1. /\ view.copy[r] \in SlotRecord /\ slot \in [Slot -> SlotRecord]
        /\ slot' = [slot EXCEPT ![r] = Merged(view.copy[r], view.seen[r])]
    BY <1>4 DEF SyncWrite, Inv, TypeInv, TypeOK, Views
  <2>2. UNCHANGED slot \/ (r = s => view.copy[r].tx = t)
    BY <1>4, <1>n DEF LostUpdate, LostByRefresh
  <2>3. UNCHANGED slot \/ (r = s => Taken(view.copy[r], t))
    BY <1>1, <2>2 DEF Locks, Released, GivenUp
  <2> QED BY <1>1, <1>2, <2>1, <2>3, OfflineAssumption DEF Merged, LocalPending, SlotRecord, Taken
<1>5. CASE MarkSlot
  <2>1. /\ item.mark \in {"settling", "settled", "locked"}
        /\ slot' = slot \/ slot'[s] = IF s = item.slot
                           THEN [status |-> item.mark, nonce |-> item.nonce, tx |-> item.id]
                           ELSE slot[s]
    BY <1>1, <1>5 DEF MarkSlot, At, Inv, TypeInv, TypeOK, ItemInHand, Items
  <2>2. slot' = slot \/ (item.slot = s => item.id = t)
    BY <1>1, <1>5, <1>n DEF LostUpdate, LostByMark
  <2> QED BY <1>1, <2>1, <2>2
<1> QED
  BY <1>2, <1>3, <1>4, <1>5
     DEF Next, ChainStep, Land, FailOnChain, PayStep, PayStart, PaySaveNonce, PayLockNonce,
         PayEnqueue, PayEnqueueFails, PayStore, PayStoreFails, PayPublish, SyncStep, SyncFetch,
         SyncLoad, SettleStep, SettleStart, SettleSelect, SettleNoKey, SettleDecrypted,
         SettleUpload, SettleUnreadable, SettleMark, MarkLoad, MarkSingle, SettleSubmit,
         SettleSubmitFails, SettleUnknown, SettleRejected, SettleReject, SettleConfirmed,
         SettleForget, SettleForgetFails, SettleDrop, DropItem, SettleCleanup, CleanupForget,
         CleanupForgetFails, CleanupDrop, SettleEnd, Crash, device, vars

\* A slot whose payment awaits settlement is given back only by a save of a
\* record loaded before the payment took it, or after such a loss.
THEOREM SlotsPinned == Spec => PendingSlotsPinned \/ <><<LosesLock>>_vars
<1>1. Inv /\ Locks /\ [Next]_vars /\ [~LosesLock]_vars =>
        [\A s \in PinnedSlots : slot'[s].tx = slot[s].tx /\ slot'[s].status # "ready"]_vars
  BY PinnedStep
<1> QED BY LocksInvariance, <1>1, PTL DEF Spec, PendingSlotsPinned
-----------------------------------------------------------------------------
(***************************************************************************)
(* Current values.  A value is consumed only while an open payment is      *)
(* signed over the account, and such an account is offered to no one: so   *)
(* what is offered for signing stays the value of its account, until a     *)
(* refresh offers a slot with an answer the chain has overtaken, or a lock *)
(* is lost.                                                                *)
(***************************************************************************)
StaleOffer ==
  \E s \in Slot : SyncWrite(s) /\ ~LocalPending(view.copy[s]) /\ view.seen[s] # nonce[s]

SlotsCurrent ==
  \A s \in Slot : slot[s].status = "ready" =>
    slot[s].nonce = nonce[s] \/ (pc["pay"] \in {"queued", "stored"} /\ pay.slot = s)

SingleCurrent == single.status = "ready" => single.nonce = nonce[single.slot]

BuildCurrent == pc["pay"] \in {"signing", "saved", "locked"} => pay.nonce = nonce[pay.slot]

Current == SlotsCurrent /\ SingleCurrent /\ BuildCurrent

\* Initially every account has its first value, and so has every slot.
LEMMA CurrentInit == Init => Current
BY DEF Init, Current, SlotsCurrent, SingleCurrent, BuildCurrent, FreshSlots, NoNonce, Tasks

\* The payment whose execution consumes a value is an open one.
LEMMA ConsumerIsOpen ==
  ASSUME Inv, NEW p \in Pay, Executable(p)
  PROVE  Open(p)
BY DEF Executable, Decided, Open, Inv, SignedFirst, Signed, Settlement, NoPaymentForgotten

\* A consumed value is offered by no slot, nonce state or build.
LEMMA ConsumeCurrent ==
  ASSUME Inv, Locks, Current, NEW p \in Pay, Executable(p),
         nonce' = [nonce EXCEPT ![signed[p].slot] = @ + 1], UNCHANGED <<device, tasks>>
  PROVE  Current'
<1>1. Open(p) /\ signed[p].slot \in Slot
  BY ConsumerIsOpen, OpenSigned
<1>2. \A s \in Slot : s # signed[p].slot => nonce'[s] = nonce[s]
  BY DEF Inv, TypeInv, TypeOK
<1>3. SlotsCurrent'
  <2>1. slot[signed[p].slot].status = "ready" =>
          pc["pay"] \in {"queued", "stored"} /\ pay.slot = signed[p].slot
    BY <1>1, OpenSigned DEF Locks, Holds, Alone, Taken, Unlocked, Building
  <2> QED BY <1>2, <2>1 DEF device, tasks, Current, SlotsCurrent
<1>4. SingleCurrent'
  <2>1. single.status = "ready" => single.slot \in Slot /\ single.slot # signed[p].slot
    BY <1>1 DEF Inv, TypeInv, TypeOK, NonceState, NoNonce, Locks, Spare
  <2> QED BY <1>2, <2>1 DEF device, tasks, Current, SingleCurrent
<1>5. BuildCurrent'
  <2>1. pc["pay"] \in {"signing", "saved", "locked"} =>
          pay.slot \in Slot /\ pay.slot # signed[p].slot
    BY <1>1 DEF Inv, TypeInv, PayInFlight, Payment, Locks, Alone, Building
  <2> QED BY <1>2, <2>1 DEF device, tasks, Current, BuildCurrent
<1> QED BY <1>3, <1>4, <1>5 DEF Current

\* A build takes a current value, and its slot has no other holder.
LEMMA PayCurrent ==
  ASSUME Inv, Current, PayStep, ~KilledUnlocked
  PROVE  Current'
<1> USE DEF At, GoTo, chain, device, Inv, TypeInv, TypeOK, Tasks
<1>1. nonce' = nonce
  BY DEF PayStep, PayStart, PaySaveNonce, PayLockNonce, PayEnqueue, PayEnqueueFails,
         ReleaseNonce, PayStore, PayStoreFails, PayLockSlot, PayPublish
<1>2. pc["pay"] # "idle" => pay \in Payment
  BY DEF PayInFlight
<1>3. ASSUME NEW p \in Pay, PayStart(p) PROVE Current'
  <2>1. PICK n \in NonceForSigning : pay' = [id |-> p, slot |-> n.slot, nonce |-> n.nonce]
    BY <1>3 DEF PayStart
  <2>2. n.nonce = nonce[n.slot]
    BY <1>3, <2>1 DEF PayStart, MayStart, NonceForSigning, ReadySlots, Current, SlotsCurrent,
                      SingleCurrent
  <2> QED BY <1>1, <1>3, <2>1, <2>2
          DEF PayStart, MayStart, Current, SlotsCurrent, SingleCurrent, BuildCurrent
<1>4. CASE PaySaveNonce \/ PayEnqueueFails
  BY <1>1, <1>4 DEF PaySaveNonce, PayEnqueueFails, ReleaseNonce, Current, SlotsCurrent,
                    SingleCurrent, BuildCurrent
<1>5. CASE PayLockNonce
  <2>1. CASE CanBeLocked
    <3>1. /\ pc["pay"] = "saved" /\ pc'["pay"] = "locked" /\ UNCHANGED <<slot, pay>>
          /\ single' = [single EXCEPT !.status = "locked", !.tx = pay.id]
      BY <1>5, <2>1 DEF PayLockNonce
    <3>2. single # NoNonce
      BY <1>2, <2>1, <3>1, OfflineAssumption DEF CanBeLocked, NoNonce, Payment
    <3>3. single'.status = "locked"
      BY <3>1, <3>2 DEF NonceState
    <3> QED BY <1>1, <3>1, <3>3 DEF Current, SlotsCurrent, SingleCurrent, BuildCurrent
  <2>2. CASE ~CanBeLocked
    BY <1>1, <1>5, <2>2 DEF PayLockNonce, Current, SlotsCurrent, SingleCurrent, BuildCurrent
  <2> QED BY <2>1, <2>2
<1>6. CASE PayEnqueue \/ PayStore
  BY <1>1, <1>6 DEF PayEnqueue, PayStore, Current, SlotsCurrent, SingleCurrent, BuildCurrent
<1>7. CASE PayLockSlot
  <2>1. /\ pc["pay"] = "stored" /\ pc'["pay"] = "publish" /\ UNCHANGED single
        /\ slot' = [slot EXCEPT ![pay.slot].status = "locked", ![pay.slot].tx = pay.id]
    BY <1>7 DEF PayLockSlot
  <2>2. \A s \in Slot : slot'[s].status = "ready" => s # pay.slot /\ slot'[s] = slot[s]
    BY <2>1 DEF SlotRecord
  <2> QED BY <1>1, <2>1, <2>2 DEF Current, SlotsCurrent, SingleCurrent, BuildCurrent
<1>8. CASE PayPublish
  BY <1>1, <1>8 DEF PayPublish, Current, SlotsCurrent, SingleCurrent, BuildCurrent
<1>9. ~PayStoreFails
  BY DEF PayStoreFails, KilledUnlocked
<1> QED BY <1>3, <1>4, <1>5, <1>6, <1>7, <1>8, <1>9 DEF PayStep

\* A refresh that makes a slot ready gives it the value it was answered.
LEMMA SyncCurrent ==
  ASSUME Inv, Current, SyncStep, ~StaleOffer
  PROVE  Current'
<1>1. UNCHANGED <<pc["pay"], nonce, single, pay>>
  BY DEF SyncStep, SyncFetch, SyncLoad, SyncWrite, MayStart, At, GoTo, chain, device, Inv,
         TypeInv, TypeOK, Tasks
<1>2. CASE slot' = slot
  BY <1>1, <1>2 DEF Current, SlotsCurrent, SingleCurrent, BuildCurrent
<1>3. ASSUME NEW s \in Slot, SyncWrite(s) PROVE Current'
  <2> DEFINE new == Merged(view.copy[s], view.seen[s])
  <2>1. slot' = [slot EXCEPT ![s] = new] /\ view.copy[s] \in SlotRecord
    BY <1>3 DEF SyncWrite, Inv, TypeInv, TypeOK, Views
  <2>2. new.status = "ready" => new.nonce = nonce[s]
    <3>1. new.status = "ready" => ~LocalPending(view.copy[s]) /\ new.nonce = view.seen[s]
      BY <2>1 DEF Merged, LocalPending, SlotRecord
    <3> QED BY <1>3, <3>1 DEF StaleOffer
  <2>3. \A r \in Slot : slot'[r] = slot[r] \/ (r = s /\ slot'[r] = new)
    BY <2>1 DEF Inv, TypeInv, TypeOK
  <2> QED BY <1>1, <2>2, <2>3 DEF Current, SlotsCurrent, SingleCurrent, BuildCurrent
<1> QED BY <1>2, <1>3 DEF SyncStep, SyncFetch, SyncLoad, device

\* A settlement run offers nothing for signing.
LEMMA SettleCurrent ==
  ASSUME Inv, Current, SettleStep
  PROVE  Current'
<1> USE DEF At, GoTo, chain, device, Inv, TypeInv, TypeOK, Tasks
<1>1. CASE MarkSlot
  <2>1. item.mark \in {"settling", "settled", "locked"}
    BY <1>1 DEF MarkSlot, ItemInHand, Items
  <2>2. UNCHANGED <<nonce, single, pay, pc["pay"]>>
    BY <1>1 DEF MarkSlot
  <2>3. \A s \in Slot : slot'[s].status = "ready" => slot'[s] = slot[s]
    BY <1>1, <2>1 DEF MarkSlot
  <2> QED BY <2>2, <2>3 DEF Current, SlotsCurrent, SingleCurrent, BuildCurrent
<1>2. CASE MarkSingle
  <2>1. /\ item.mark \in {"settling", "settled", "locked"} /\ item.single \in NonceState
        /\ item.id \in Pay
    BY <1>2 DEF MarkSingle, ItemInHand, Items
  <2>2. ASSUME item.single.tx = item.id
        PROVE  [item.single EXCEPT !.status = item.mark].status = item.mark
    BY <2>1, <2>2, OfflineAssumption DEF NonceState, NoNonce
  <2>3. single' = single \/ single'.status # "ready"
    BY <1>2, <2>1, <2>2 DEF MarkSingle
  <2>4. UNCHANGED <<nonce, slot, pay, pc["pay"]>>
    BY <1>2 DEF MarkSingle
  <2> QED BY <2>3, <2>4 DEF Current, SlotsCurrent, SingleCurrent, BuildCurrent
<1>3. CASE ~MarkSlot /\ ~MarkSingle
  <2>1. UNCHANGED <<nonce, slot, single, pay, pc["pay"]>>
    BY <1>3 DEF SettleStep, SettleStart, MayStart, SettleSelect, SettleNoKey, SettleDecrypted,
                SettleUpload, SettleUnreadable, SettleMark, MarkLoad, SettleSubmit,
                SettleSubmitFails, SettleUnknown, SettleRejected, SettleReject,
                SettleConfirmed, SettleForget, SettleForgetFails, SettleDrop, DropItem,
                SettleCleanup, CleanupForget, CleanupForgetFails, CleanupDrop, SettleEnd
  <2> QED BY <2>1 DEF Current, SlotsCurrent, SingleCurrent, BuildCurrent
<1> QED BY <1>1, <1>2, <1>3

\* Every other step keeps what is offered current.
LEMMA CurrentStep ==
  ASSUME Inv, Locks, Current, [Next]_vars, [~(LosesLock \/ StaleOffer)]_vars
  PROVE  Current'
<1>1. CASE UNCHANGED vars
  BY <1>1 DEF vars, chain, device, tasks, Current, SlotsCurrent, SingleCurrent, BuildCurrent
<1>2. CASE Next /\ ~KilledUnlocked /\ ~StaleOffer
  <2>1. ASSUME NEW p \in Pay, Land(p) \/ FailOnChain(p) PROVE Current'
    BY <2>1, ConsumeCurrent DEF Land, FailOnChain
  <2>2. CASE Crash
    BY <1>2, <2>2 DEF Crash, KilledUnlocked, chain, device, Tasks, Current, SlotsCurrent,
                      SingleCurrent, BuildCurrent
  <2> QED BY <1>2, <2>1, <2>2, PayCurrent, SyncCurrent, SettleCurrent DEF Next, ChainStep
<1> QED BY <1>1, <1>2 DEF LosesLock

\* A payment is signed over the value its account has at that moment, unless
\* a refresh offered an overtaken value or a lock was lost: marks that fail,
\* kills, lagging answers and late chain steps alone do not make it stale.
THEOREM CurrentNonces ==
  Spec => SignedOnCurrentNonce \/ <><<LosesLock \/ StaleOffer>>_vars
<1>1. Inv /\ Locks /\ [Next]_vars /\ [~(LosesLock \/ StaleOffer)]_vars => Locks'
  BY LocksStep
<1>2. Inv /\ Locks /\ Current /\ [Next]_vars /\ [~(LosesLock \/ StaleOffer)]_vars => Current'
  BY CurrentStep
<1>3. Inv /\ Current /\ [Next]_vars =>
        [\A p \in Pay : signed'[p] # signed[p] => signed'[p].nonce = nonce[signed'[p].slot]]_vars
  <2> SUFFICES ASSUME Inv, Current, [Next]_vars, NEW p \in Pay, signed'[p] # signed[p]
               PROVE  signed'[p].nonce = nonce[signed'[p].slot]
    OBVIOUS
  <2>1. CASE PayEnqueue
    <3>1. /\ pc["pay"] = "locked"
          /\ signed \in [Pay -> [slot : Slot, nonce : Nonce] \cup {Unsigned}]
          /\ signed' = [signed EXCEPT ![pay.id] = [slot |-> pay.slot, nonce |-> pay.nonce]]
      BY <2>1 DEF PayEnqueue, At, Inv, TypeInv, TypeOK
    <3> QED BY <3>1 DEF Current, BuildCurrent
  <2>2. CASE UNCHANGED signed
    BY <2>2
  <2> QED
    BY <2>1, <2>2
       DEF Next, ChainStep, Land, FailOnChain, PayStep, PayStart, PaySaveNonce, PayLockNonce,
           PayEnqueueFails, PayStore, PayStoreFails, PayLockSlot, PayPublish, SyncStep, SyncFetch,
           SyncLoad, SyncWrite, SettleStep, SettleStart, SettleSelect, SettleNoKey,
           SettleDecrypted, SettleUpload, SettleUnreadable, SettleMark, MarkLoad, MarkSlot,
           MarkSingle, SettleSubmit, SettleSubmitFails, SettleUnknown, SettleRejected,
           SettleReject, SettleConfirmed, SettleForget, SettleForgetFails, SettleDrop, DropItem,
           SettleCleanup, CleanupForget, CleanupForgetFails, CleanupDrop, SettleEnd, Crash,
           device, vars
<1> QED
  BY <1>1, <1>2, <1>3, LocksInit, CurrentInit, Invariance, PTL DEF Spec, SignedOnCurrentNonce
=============================================================================
