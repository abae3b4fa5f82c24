----------------------- MODULE SlotProvisioning_proofs -----------------------
(***************************************************************************)
(* Proofs about SlotProvisioning, for every finite set of accounts, every  *)
(* Overlap, early reads or none, and every set of interrupted tasks.       *)
(* Types hold always.  The other properties can be violated, and each      *)
(* theorem names the steps of the code that do it: P holds in all states,  *)
(* or such a step has been taken.  As a behavior of Spec may stop at any   *)
(* state, the step comes before the first state in which P is false.       *)
(***************************************************************************)
EXTENDS SlotProvisioning, FiniteSetTheorems, TLAPS

(***************************************************************************)
(* Types of what the tasks write.                                          *)
(***************************************************************************)
LEMMA NoRecordType == NoRecord \in Record
BY DEF NoRecord, Record

\* The empty view has its type.
LEMMA NoViewType == NoView \in View
BY NoRecordType DEF NoView, View

\* A record of a new account has its type.
LEMMA CreatedType ==
  ASSUME NEW status \in {"preparing", "settling"}, NEW sig \in {"none", "create"}
  PROVE  Created(status, sig) \in Record
BY DEF Created, Record

\* What a provider answer makes of a record is a record.
LEMMA MergedType ==
  ASSUME NEW r \in Record, NEW seen \in {"unlisted", "missing", "ready"}
  PROVE  Merged(r, seen) \in Record
BY DEF Merged, Record

\* Saving a record keeps the type of the records, whatever account it names.
LEMMA SaveType ==
  ASSUME record \in [Account -> Record], NEW a, NEW r, Save(a, r),
         a \in Account => r \in Record
  PROVE  record' \in [Account -> Record]
BY DEF Save

\* Loading the snapshot leaves accounts in the index, and records.
LEMMA LoadType ==
  ASSUME record \in [Account -> Record], NEW accounts \in SUBSET Account,
         Load(accounts, record)
  PROVE  index' \subseteq Account /\ record' \in [Account -> Record]
BY NoRecordType DEF Load, Kept

(***************************************************************************)
(* Starting a refresh, and going on after it, keeps the types.             *)
(***************************************************************************)
TasksOk ==
  /\ DOMAIN pc = Tasks /\ \A t \in Tasks : pc[t] \in Labels[t]
  /\ view \in [Tasks -> View]
  /\ \A t \in Tasks : view[t].next \in AfterRefresh[t]

\* Starting a refresh keeps the shapes of what it writes.
LEMMA RefreshType ==
  ASSUME Shapes, NEW t \in Tasks, NEW next \in AfterRefresh[t], Refresh(t, next)
  PROVE  TasksOk' /\ index' \subseteq Account /\ record' \in [Account -> Record]
<1>1. index' \subseteq Account /\ record' \in [Account -> Record]
  BY LoadType DEF Shapes, Refresh
<1>2. [NoView EXCEPT !.next = next] \in View /\ [NoView EXCEPT !.next = next].next = next
  BY NoViewType DEF View, AfterRefresh, Tasks
<1>3. view' \in [Tasks -> View] /\ \A u \in Tasks : view'[u].next \in AfterRefresh[u]
  BY <1>2 DEF Shapes, Refresh
<1>4. DOMAIN pc' = Tasks /\ \A u \in Tasks : pc'[u] \in Labels[u]
  BY DEF Shapes, Refresh, GoTo, Labels, Refreshing, Tasks
<1> QED BY <1>1, <1>3, <1>4 DEF TasksOk

\* So does going on after one.
LEMMA GoOnType ==
  ASSUME Shapes, NEW t \in Tasks, NEW accounts \in SUBSET Account, GoOn(t, accounts),
         t # "poll" \/ view[t].next = "idle"
  PROVE  TasksOk'
<1>1. view[t].next \in Labels[t]
  BY DEF Shapes, AfterRefresh, Labels, Refreshing, Tasks
<1>2. DOMAIN pc' = Tasks /\ \A u \in Tasks : pc'[u] \in Labels[u]
  BY <1>1 DEF Shapes, GoOn, GoTo
<1>3. [NoView EXCEPT !.known = Kept(accounts, record), !.copy = record] \in View
      /\ [NoView EXCEPT !.known = Kept(accounts, record), !.copy = record].next = "idle"
  BY NoViewType DEF Shapes, View, Kept, NoView
<1>4. view' \in [Tasks -> View] /\ \A u \in Tasks : view'[u].next \in AfterRefresh[u]
  BY <1>3, NoViewType DEF Shapes, GoOn, NoView, AfterRefresh, Tasks
<1> QED BY <1>2, <1>4 DEF TasksOk

(***************************************************************************)
(* What a task reads and visits does not change where it goes on.          *)
(***************************************************************************)
LEMMA ViewType ==
  ASSUME view \in [Tasks -> View], NEW t \in Tasks,
         NEW v \in View, v.next = view[t].next,
         view' = [view EXCEPT ![t] = v]
  PROVE  view' \in [Tasks -> View] /\ \A u \in Tasks : view'[u].next = view[u].next
OBVIOUS

\* A view keeps its type when it takes the provider's answer, ...
LEMMA ViewSeen ==
  ASSUME NEW v \in View, NEW seen \in [Account -> {"unlisted", "missing", "ready"}]
  PROVE  [v EXCEPT !.seen = seen] \in View /\ [v EXCEPT !.seen = seen].next = v.next
BY DEF View

\* ... when one account has been visited, ...
LEMMA ViewVisited ==
  ASSUME NEW v \in View, NEW todo \in SUBSET Account, NEW names \in SUBSET Account
  PROVE  /\ [v EXCEPT !.todo = todo, !.names = names] \in View
         /\ [v EXCEPT !.todo = todo, !.names = names].next = v.next
BY DEF View

\* ... when an index has been read, ...
LEMMA ViewIndex ==
  ASSUME NEW v \in View, NEW accounts \in SUBSET Account
  PROVE  /\ [v EXCEPT !.known = accounts] \in View
         /\ [v EXCEPT !.known = accounts].next = v.next
         /\ [v EXCEPT !.names = accounts] \in View
         /\ [v EXCEPT !.names = accounts].next = v.next
BY DEF View

Loaded(v, todo, copy) == [v EXCEPT !.known = {}, !.todo = todo, !.copy = copy]

\* ... and when the records have been loaded.
LEMMA ViewLoaded ==
  ASSUME NEW v \in View, NEW todo \in SUBSET Account, NEW copy \in [Account -> Record]
  PROVE  Loaded(v, todo, copy) \in View /\ Loaded(v, todo, copy).next = v.next
BY DEF View, Loaded

\* Visiting an account keeps the type of all the views.
LEMMA VisitType ==
  ASSUME view \in [Tasks -> View], NEW t \in Tasks, NEW todo \in SUBSET Account,
         view' = [view EXCEPT ![t].todo = todo]
  PROVE  view' \in [Tasks -> View] /\ \A u \in Tasks : view'[u].next = view[u].next
<1>1. [view[t] EXCEPT !.todo = todo] \in View
      /\ [view[t] EXCEPT !.todo = todo].next = view[t].next
  BY DEF View
<1>2. view' = [view EXCEPT ![t] = [view[t] EXCEPT !.todo = todo]]
  OBVIOUS
<1> QED BY <1>1, <1>2

\* A slot's record stays one when its status or its transaction changes.
LEMMA RecordStatus ==
  ASSUME NEW r \in Record, NEW status \in {"locked", "closed", "error", "settled"}
  PROVE  /\ [r EXCEPT !.status = status] \in Record
         /\ [r EXCEPT !.status = status, !.tx = TRUE] \in Record
         /\ [r EXCEPT !.status = status, !.lamports = "zero", !.tx = FALSE,
                      !.sig = "none"] \in Record
BY DEF Record

\* Initially every record is empty and every task idle.
LEMMA ShapesInit == Init => Shapes
BY NoViewType, NoRecordType
   DEF Init, Shapes, Labels, Refreshing, AfterRefresh, Tasks, NoView, NoHand

\* Every step keeps the types.
LEMMA ShapesStep ==
  ASSUME Shapes, [Next]_vars
  PROVE  Shapes'
<1> USE DEF chain, device, locals, At, GoTo
<1>1. ASSUME NEW a \in Account, CreateDecided(a) PROVE Shapes'
  BY <1>1 DEF CreateDecided, Shapes
<1>2. ASSUME NEW a \in Account, CloseDecided(a) PROVE Shapes'
  BY <1>2 DEF CloseDecided, Shapes
<1>3. ASSUME NEW a \in Account, CloseFails(a) PROVE Shapes'
  BY <1>3 DEF CloseFails, Shapes
<1>4. ASSUME NEW t \in Tasks, NEW next \in AfterRefresh[t], Start(t, next) PROVE Shapes'
  BY <1>4, RefreshType DEF Start, Shapes, TasksOk
<1>5. ASSUME NEW t \in Tasks, Read(t) PROVE Shapes'
  <2>1. PICK seen \in [Account -> {"unlisted", "missing", "ready"}] :
          view' = [view EXCEPT ![t].seen = seen]
    BY <1>5 DEF Read
  <2>2. view' \in [Tasks -> View] /\ \A u \in Tasks : view'[u].next = view[u].next
    <3> DEFINE v == [view[t] EXCEPT !.seen = seen]
    <3>1. v \in View /\ v.next = view[t].next
      <4>1. view[t] \in View
        BY DEF Shapes
      <4> QED BY <4>1, ViewSeen
    <3>2. view' = [view EXCEPT ![t] = v]
      BY <2>1
    <3> HIDE DEF v
    <3> QED BY <3>1, <3>2, ViewType DEF Shapes
  <2> QED BY <1>5, <2>2 DEF Read, Shapes, Labels, Refreshing, Tasks
<1>6. ASSUME NEW t \in Tasks, ReadFails(t) PROVE Shapes'
  <2>1. view' \in [Tasks -> View] /\ \A u \in Tasks : view'[u].next \in AfterRefresh[u]
    <3>1. CASE t = "poll" /\ view' = [view EXCEPT ![t] = NoView]
      <4>1. NoView.next \in AfterRefresh["poll"]
        BY DEF NoView, AfterRefresh
      <4> QED BY <3>1, <4>1, NoViewType DEF Shapes
    <3>2. CASE UNCHANGED view
      BY <3>2 DEF Shapes
    <3> QED BY <1>6, <3>1, <3>2 DEF ReadFails
  <2>2. DOMAIN pc' = Tasks /\ \A u \in Tasks : pc'[u] \in Labels[u]
    BY <1>6 DEF ReadFails, Shapes, Labels, Refreshing, Tasks
  <2> QED BY <1>6, <2>1, <2>2 DEF ReadFails, Shapes, Pruned
<1>7. ASSUME NEW t \in Tasks, Fallback(t) PROVE Shapes'
  <2>1. t # "poll" /\ index \in SUBSET Account
    BY <1>7 DEF Fallback, Shapes, Labels, Refreshing, Tasks
  <2>2. TasksOk'
    BY <1>7, <2>1, GoOnType DEF Fallback
  <2>3. index' \subseteq Account /\ record' \in [Account -> Record]
    BY <1>7, <2>1, LoadType DEF Fallback, Shapes
  <2> QED BY <1>7, <2>2, <2>3 DEF Fallback, Shapes, TasksOk
<1>8. ASSUME NEW t \in Tasks, SyncLoad(t) PROVE Shapes'
  <2> DEFINE named == view[t].known
             known == Kept(named, record)
             copies(todo) ==
               [a \in Account |-> IF a \in known \cap todo THEN record[a] ELSE NoRecord]
  <2>1. view[t] \in View /\ named \in SUBSET Account /\ known \in SUBSET Account
    BY DEF Shapes, View, Kept
  <2>2. PICK todo \in SUBSET Account :
          view' = [view EXCEPT ![t].known = {}, ![t].todo = todo, ![t].copy = copies(todo)]
    BY <1>8, <2>1 DEF SyncLoad, Abandoned
  <2> DEFINE copy == copies(todo)
  <2>3. view' = [view EXCEPT ![t].known = {}, ![t].todo = todo, ![t].copy = copy]
    BY <2>2
  <2>4. copy \in [Account -> Record]
    BY NoRecordType DEF Shapes
  <2>5. (index' = index /\ record' = record) \/ Load(named, record)
    BY <1>8 DEF SyncLoad
  <2> HIDE DEF named, known, copies, copy
  <2>6. view' \in [Tasks -> View] /\ \A u \in Tasks : view'[u].next = view[u].next
    <3> DEFINE v == Loaded(view[t], todo, copy)
    <3>1. view' = [view EXCEPT ![t] = v]
      BY <2>3 DEF Loaded
    <3>2. v \in View /\ v.next = view[t].next
      BY <2>1, <2>4, ViewLoaded
    <3> HIDE DEF v
    <3> QED BY <3>1, <3>2, ViewType DEF Shapes
  <2>7. index' \subseteq Account /\ record' \in [Account -> Record]
    BY <2>1, <2>5, LoadType DEF Shapes
  <2>8. DOMAIN pc' = Tasks /\ \A u \in Tasks : pc'[u] \in Labels[u]
    <3>1. pc' = [pc EXCEPT ![t] = "loaded"]
      BY <1>8 DEF SyncLoad
    <3> QED BY <3>1 DEF Shapes, Labels, Refreshing, Tasks
  <2> QED BY <1>8, <2>6, <2>7, <2>8 DEF SyncLoad, Shapes
<1>9. ASSUME NEW t \in Tasks, NEW a \in Account, SyncWrite(t, a) PROVE Shapes'
  <2> DEFINE current == view[t].copy[a]
  <2>1. current \in Record /\ view[t].seen[a] \in {"unlisted", "missing", "ready"}
    BY DEF Shapes, View
  <2>2. Merged(current, view[t].seen[a]) \in Record
    BY <2>1, MergedType
  <2>3. record' = [record EXCEPT ![a] = Merged(current, view[t].seen[a])]
    BY <1>9 DEF SyncWrite
  <2> HIDE DEF current
  <2>4. record' \in [Account -> Record]
    BY <2>2, <2>3 DEF Shapes
  <2>5. view' \in [Tasks -> View] /\ \A u \in Tasks : view'[u].next = view[u].next
    <3> DEFINE v == [view[t] EXCEPT !.todo = @ \ {a}, !.names = @ \cup {a}]
    <3>1. v \in View /\ v.next = view[t].next
      <4>1. /\ view[t] \in View
            /\ view[t].todo \ {a} \in SUBSET Account /\ view[t].names \cup {a} \in SUBSET Account
        BY DEF Shapes, View
      <4> QED BY <4>1, ViewVisited
    <3>2. view' = [view EXCEPT ![t] = v]
      BY <1>9 DEF SyncWrite
    <3> HIDE DEF v
    <3> QED BY <3>1, <3>2, ViewType DEF Shapes
  <2> QED BY <1>9, <2>4, <2>5 DEF SyncWrite, Shapes
<1>10. ASSUME NEW t \in Tasks, SyncSave(t) PROVE Shapes'
  <2>1. view[t].names \in SUBSET Account
    BY DEF Shapes, View
  <2>2. t # "poll" \/ view[t].next = "idle"
    BY DEF Shapes, AfterRefresh
  <2>3. TasksOk'
    BY <1>10, <2>1, <2>2, GoOnType DEF SyncSave
  <2>4. index' \subseteq Account /\ record' \in [Account -> Record]
    BY <1>10, <2>1, LoadType DEF SyncSave, Shapes
  <2> QED BY <1>10, <2>3, <2>4 DEF SyncSave, Shapes, TasksOk
<1>11. ASSUME EndPrepare, UNCHANGED <<chain, pool, closes>>, UNCHANGED owed,
              index' \subseteq Account, record' \in [Account -> Record]
       PROVE  Shapes'
  BY <1>11, NoViewType
     DEF EndPrepare, Shapes, NoView, NoHand, AfterRefresh, Labels, Refreshing, Tasks
<1>12. CASE PrepareNothing
  BY <1>11, <1>12 DEF PrepareNothing, Shapes
<1>13. CASE PrepareGenerate
  <2>1. PICK keys \in SUBSET Unused :
          /\ fresh' = keys /\ submitted' = {}
          /\ record' = [a \in Account |->
               IF a \in keys THEN Created("preparing", "none") ELSE record[a]]
          /\ view' = [view EXCEPT !["prepare"] = [NoView EXCEPT !.names = index \cup keys]]
    BY <1>13 DEF PrepareGenerate
  <2>2. keys \subseteq Account
    BY DEF Unused
  <2>3. record' \in [Account -> Record]
    BY <2>1, CreatedType DEF Shapes
  <2>4. /\ [NoView EXCEPT !.names = index \cup keys] \in View
        /\ [NoView EXCEPT !.names = index \cup keys].next = "idle"
    BY <2>2, NoViewType DEF View, NoView, Shapes
  <2>5. view' \in [Tasks -> View] /\ \A u \in Tasks : view'[u].next \in AfterRefresh[u]
    BY <2>1, <2>4 DEF Shapes, AfterRefresh, Tasks
  <2> QED BY <1>13, <2>1, <2>2, <2>3, <2>5
          DEF PrepareGenerate, Shapes, Labels, Refreshing, Tasks
<1>14. CASE PrepareIndex
  <2>1. view["prepare"].names \in SUBSET Account
    BY DEF Shapes, View, Tasks
  <2>2. index' \subseteq Account /\ record' \in [Account -> Record]
    BY <1>14, <2>1, LoadType DEF PrepareIndex, Shapes
  <2> QED BY <1>14, <2>2 DEF PrepareIndex, Shapes, Labels, Refreshing, Tasks
<1>15. CASE PrepareRequest
  <2>1. /\ [NoView EXCEPT !.todo = fresh] \in View
        /\ [NoView EXCEPT !.todo = fresh].next = "idle"
    BY NoViewType DEF View, NoView, Shapes
  <2>2. view' \in [Tasks -> View] /\ \A u \in Tasks : view'[u].next \in AfterRefresh[u]
    BY <1>15, <2>1 DEF PrepareRequest, Shapes, AfterRefresh, Tasks
  <2>3. pool' \subseteq Account
    BY <1>15 DEF PrepareRequest, Shapes, Pruned
  <2> QED BY <1>15, <2>2, <2>3 DEF PrepareRequest, Shapes, Labels, Refreshing, Tasks
<1>16. CASE PrepareRefused
  <2>1. pool' \subseteq Account
    BY <1>16 DEF PrepareRefused, Shapes, Pruned
  <2> QED BY <1>16, <2>1 DEF PrepareRefused, Shapes, Labels, Refreshing, Tasks
<1>17. ASSUME NEW a \in Account, PrepareBroadcast(a) PROVE Shapes'
  <2>1. view["prepare"].todo \ {a} \in SUBSET Account /\ "prepare" \in Tasks
    BY DEF Shapes, View, Tasks
  <2>2. view' = [view EXCEPT !["prepare"].todo = view["prepare"].todo \ {a}]
    BY <1>17 DEF PrepareBroadcast
  <2>3. view' \in [Tasks -> View] /\ \A u \in Tasks : view'[u].next = view[u].next
    BY <2>1, <2>2, VisitType DEF Shapes
  <2> QED BY <1>17, <2>3 DEF PrepareBroadcast, Shapes, Labels, Refreshing, Tasks
<1>18. CASE PrepareNote
  <2>1. record' \in [Account -> Record]
    BY <1>18, SaveType, CreatedType DEF PrepareNote, Shapes
  <2>2. hand' \in [Tasks -> [account : Account \cup {NoAccount},
                             status : {"none", "settling", "closing", "error"}]]
    BY <1>18 DEF PrepareNote, Shapes, NoHand
  <2> QED BY <1>18, <2>1, <2>2 DEF PrepareNote, Shapes, Labels, Refreshing, Tasks
<1>19. CASE PrepareThrows
  <2>1. create' \in [Account -> {"none", "sent", "landed", "lost"}]
    BY <1>19 DEF PrepareThrows, Shapes
  <2> QED BY <1>19, <2>1 DEF PrepareThrows, Shapes, Labels, Refreshing, Tasks
<1>20. CASE PrepareWaited
  <2>1. "prepare" \in Tasks /\ "idle" \in AfterRefresh["prepare"]
    BY DEF Tasks, AfterRefresh
  <2>2. TasksOk' /\ index' \subseteq Account /\ record' \in [Account -> Record]
    BY <1>20, <2>1, RefreshType DEF PrepareWaited
  <2> QED BY <1>20, <2>2 DEF PrepareWaited, Shapes, TasksOk
<1>21. CASE PrepareUndo
  <2>1. /\ [NoView EXCEPT !.names = index] \in View
        /\ [NoView EXCEPT !.names = index].next = "idle"
    BY NoViewType DEF View, NoView, Shapes
  <2>2. view' \in [Tasks -> View] /\ \A u \in Tasks : view'[u].next \in AfterRefresh[u]
    BY <1>21, <2>1 DEF PrepareUndo, Shapes, AfterRefresh, Tasks
  <2>3. record' \in [Account -> Record]
    BY <1>21, NoRecordType DEF PrepareUndo, Shapes
  <2> QED BY <1>21, <2>2, <2>3 DEF PrepareUndo, Shapes, Labels, Refreshing, Tasks
<1>22. CASE PrepareUndone
  <2>1. view["prepare"].names \ (fresh \ submitted) \in SUBSET Account
    BY DEF Shapes, View, Tasks
  <2>2. index' \subseteq Account /\ record' \in [Account -> Record]
    BY <1>22, <2>1, LoadType DEF PrepareUndone, Shapes
  <2> QED BY <1>11, <1>22, <2>2 DEF PrepareUndone
<1>23. ASSUME EndReclaim, UNCHANGED <<chain, pool, fresh, submitted>>, UNCHANGED owed,
              index' \subseteq Account, record' \in [Account -> Record]
       PROVE  Shapes'
  BY <1>23, NoViewType
     DEF EndReclaim, Shapes, NoView, NoHand, AfterRefresh, Labels, Refreshing, Tasks
<1>24. CASE ReclaimNothing
  BY <1>23, <1>24 DEF ReclaimNothing, Shapes
<1>25. CASE ReclaimSelect
  <2>1. PICK chosen \in SUBSET Account : view' = [view EXCEPT !["reclaim"].todo = chosen]
    <3>1. view["reclaim"].known \subseteq Account
      BY DEF Shapes, View, Tasks
    <3> QED BY <1>25, <3>1 DEF ReclaimSelect
  <2>2. view' \in [Tasks -> View] /\ \A u \in Tasks : view'[u].next = view[u].next
    BY <2>1, VisitType DEF Shapes, Tasks
  <2> QED BY <1>25, <2>2 DEF ReclaimSelect, Shapes, Labels, Refreshing, Tasks
<1>26. ASSUME NEW a \in Account, ReclaimBroadcast(a) PROVE Shapes'
  <2>1. view' \in [Tasks -> View] /\ \A u \in Tasks : view'[u].next = view[u].next
    <3>1. view["reclaim"].todo \ {a} \in SUBSET Account /\ "reclaim" \in Tasks
      BY DEF Shapes, View, Tasks
    <3>2. view' = [view EXCEPT !["reclaim"].todo = view["reclaim"].todo \ {a}]
      BY <1>26 DEF ReclaimBroadcast
    <3> QED BY <3>1, <3>2, VisitType DEF Shapes
  <2> QED BY <1>26, <2>1 DEF ReclaimBroadcast, Shapes, Labels, Refreshing, Tasks
<1>27. ASSUME NEW a \in Account, ReclaimThrows(a) PROVE Shapes'
  <2>1. view' \in [Tasks -> View] /\ \A u \in Tasks : view'[u].next = view[u].next
    <3>1. view["reclaim"].todo \ {a} \in SUBSET Account /\ "reclaim" \in Tasks
      BY DEF Shapes, View, Tasks
    <3>2. view' = [view EXCEPT !["reclaim"].todo = view["reclaim"].todo \ {a}]
      BY <1>27 DEF ReclaimThrows
    <3> QED BY <3>1, <3>2, VisitType DEF Shapes
  <2>2. close' \in [Account -> {"none", "sent", "landed", "lost", "failed"}]
    BY <1>27 DEF ReclaimThrows, Shapes
  <2> QED BY <1>27, <2>1, <2>2 DEF ReclaimThrows, Shapes, Labels, Refreshing, Tasks
<1>28. CASE ReclaimNote
  <2> DEFINE a == hand["reclaim"].account
  <2> DEFINE r == [view["reclaim"].copy[a] EXCEPT
                     !.status = hand["reclaim"].status,
                     !.sig = IF a \in closes THEN "close" ELSE @]
  <2>1. hand["reclaim"].status \in {"none", "settling", "closing", "error"}
    BY DEF Shapes, Tasks
  <2>2. a \in Account => view["reclaim"].copy[a] \in Record
    BY DEF Shapes, View, Tasks
  <2>3. a \in Account => r \in Record
    BY <2>1, <2>2 DEF Record
  <2>4. Save(a, r)
    BY <1>28 DEF ReclaimNote
  <2> HIDE DEF a, r
  <2>5. record' \in [Account -> Record]
    BY <2>3, <2>4, SaveType DEF Shapes
  <2>6. hand' \in [Tasks -> [account : Account \cup {NoAccount},
                             status : {"none", "settling", "closing", "error"}]]
    BY <1>28 DEF ReclaimNote, Shapes, NoHand
  <2> QED BY <1>28, <2>5, <2>6 DEF ReclaimNote, Shapes, Labels, Refreshing, Tasks
<1>29. CASE ReclaimWithout
  <2>1. "reclaim" \in Tasks /\ "idle" \in AfterRefresh["reclaim"]
    BY DEF Tasks, AfterRefresh
  <2>2. TasksOk' /\ index' \subseteq Account /\ record' \in [Account -> Record]
    BY <1>29, <2>1, RefreshType DEF ReclaimWithout
  <2> QED BY <1>29, <2>2 DEF ReclaimWithout, Shapes, TasksOk
<1>30. ASSUME NEW status \in {"closed", "error"}, Marked(status) PROVE Shapes'
  <2> DEFINE v == [NoView EXCEPT !.copy = record,
                     !.todo = {a \in closes : record[a].legible /\ record[a].sig = "close"}]
  <2>1. v \in View /\ v.next = "idle"
    BY NoViewType DEF View, NoView, Shapes
  <2>2. view' = [view EXCEPT !["reclaim"] = v]
    BY <1>30 DEF Marked
  <2> HIDE DEF v
  <2>3. view' \in [Tasks -> View] /\ \A u \in Tasks : view'[u].next \in AfterRefresh[u]
    BY <2>1, <2>2 DEF Shapes, AfterRefresh, Tasks
  <2> QED BY <1>30, <2>3 DEF Marked, Shapes, Labels, Refreshing, Tasks
<1>31. CASE ReclaimConfirmed
  BY <1>30, <1>31 DEF ReclaimConfirmed
<1>32. CASE ReclaimUnconfirmed
  <2>1. index' \subseteq Account /\ record' \in [Account -> Record]
    BY <1>32, LoadType DEF ReclaimUnconfirmed, Shapes
  <2> QED BY <1>23, <1>32, <2>1 DEF ReclaimUnconfirmed
<1>33. CASE ReclaimRejected
  BY <1>30, <1>33 DEF ReclaimRejected
<1>34. ASSUME NEW a \in Account, ReclaimMark(a) PROVE Shapes'
  <2>1. view["reclaim"].copy[a] \in Record
    BY DEF Shapes, View, Tasks
  <2>2. PICK r \in Record : Save(a, r)
    BY <1>34, <2>1, RecordStatus DEF ReclaimMark
  <2>3. record' \in [Account -> Record]
    BY <2>2, SaveType DEF Shapes
  <2>4. view' \in [Tasks -> View] /\ \A u \in Tasks : view'[u].next = view[u].next
    <3>1. view["reclaim"].todo \ {a} \in SUBSET Account /\ "reclaim" \in Tasks
      BY DEF Shapes, View, Tasks
    <3>2. view' = [view EXCEPT !["reclaim"].todo = view["reclaim"].todo \ {a}]
      BY <1>34 DEF ReclaimMark
    <3> QED BY <3>1, <3>2, VisitType DEF Shapes
  <2> QED BY <1>34, <2>3, <2>4 DEF ReclaimMark, Shapes
<1>35. CASE ReclaimMarked
  <2>1. CASE At("reclaim", "closed") /\ Refresh("reclaim", "idle") /\ closes' = {}
             /\ UNCHANGED <<owed, hand>>
    <3>1. "reclaim" \in Tasks /\ "idle" \in AfterRefresh["reclaim"]
      BY DEF Tasks, AfterRefresh
    <3>2. TasksOk' /\ index' \subseteq Account /\ record' \in [Account -> Record]
      BY <2>1, <3>1, RefreshType
    <3> QED BY <1>35, <2>1, <3>2 DEF ReclaimMarked, Shapes, TasksOk
  <2>2. CASE At("reclaim", "error") /\ EndReclaim /\ UNCHANGED device
    BY <1>23, <1>35, <2>2 DEF ReclaimMarked, Shapes
  <2> QED BY <1>35, <2>1, <2>2 DEF ReclaimMarked
<1>36. ASSUME NEW a \in Account, PayLock(a) PROVE Shapes'
  <2>1. [record[a] EXCEPT !.status = "locked", !.tx = TRUE] \in Record
    BY RecordStatus DEF Shapes
  <2>2. record' \in [Account -> Record]
    BY <1>36, <2>1, SaveType DEF PayLock, Shapes
  <2> QED BY <1>36, <2>2 DEF PayLock, Shapes
<1>37. ASSUME NEW a \in Account, PaySettled(a) PROVE Shapes'
  <2>1. record[a] \in Record /\ [record[a] EXCEPT !.status = "settled"] \in Record
    BY RecordStatus DEF Shapes
  <2>2. \/ record' = [record EXCEPT ![a] = [record[a] EXCEPT !.status = "settled"]]
        \/ record' = [record EXCEPT ![a] = [record[a] EXCEPT !.status = record[a].status]]
    BY <1>37 DEF PaySettled
  <2>3. [record[a] EXCEPT !.status = record[a].status] = record[a]
    BY <2>1 DEF Record
  <2>4. record' \in [Account -> Record]
    BY <2>1, <2>2, <2>3 DEF Shapes
  <2> QED BY <1>37, <2>4 DEF PaySettled, Shapes
<1>38. CASE Crash
  BY <1>38, NoViewType
     DEF Crash, Shapes, NoView, NoHand, AfterRefresh, Labels, Refreshing, Tasks
<1>39. CASE UNCHANGED vars
  BY <1>39 DEF vars, Shapes
<1>40. /\ Start("poll", "idle") => \E next \in AfterRefresh["poll"] : Start("poll", next)
       /\ Start("prepare", "decide") => \E next \in AfterRefresh["prepare"] : Start("prepare", next)
       /\ Start("reclaim", "select") => \E next \in AfterRefresh["reclaim"] : Start("reclaim", next)
  BY DEF AfterRefresh
<1>45. ASSUME NEW t \in Tasks, SyncIndex(t) \/ SyncUpsert(t) PROVE Shapes'
  <2>1. view[t] \in View /\ index \in SUBSET Account
    BY DEF Shapes
  <2>2. PICK v \in View : v.next = view[t].next /\ view' = [view EXCEPT ![t] = v]
    <3>1. CASE SyncIndex(t)
      <4>1. view' = [view EXCEPT ![t] = [view[t] EXCEPT !.known = index]]
        BY <3>1 DEF SyncIndex
      <4> QED BY <2>1, <4>1, ViewIndex
    <3>2. CASE SyncUpsert(t)
      <4>1. view' = [view EXCEPT ![t] = [view[t] EXCEPT !.names = index]]
        BY <3>2 DEF SyncUpsert
      <4> QED BY <2>1, <4>1, ViewIndex
    <3> QED BY <1>45, <3>1, <3>2
  <2>3. view' \in [Tasks -> View] /\ \A u \in Tasks : view'[u].next = view[u].next
    BY <2>2, ViewType DEF Shapes
  <2>4. DOMAIN pc' = Tasks /\ \A u \in Tasks : pc'[u] \in Labels[u]
    BY <1>45 DEF SyncIndex, SyncUpsert, Shapes, Labels, Refreshing, Tasks
  <2> QED BY <1>45, <2>3, <2>4 DEF SyncIndex, SyncUpsert, Shapes
<1>41. ASSUME Start("poll", "idle") \/ Start("prepare", "decide") \/ Start("reclaim", "select")
       PROVE  Shapes'
  BY <1>4, <1>40, <1>41 DEF Tasks
<1>42. ASSUME NEW t \in Tasks, RefreshStep(t) PROVE Shapes'
  BY <1>5, <1>6, <1>7, <1>8, <1>9, <1>10, <1>42, <1>45 DEF RefreshStep
<1>43. ASSUME PrepareStep PROVE Shapes'
  BY <1>12, <1>13, <1>14, <1>15, <1>16, <1>17, <1>18, <1>19, <1>20, <1>21, <1>22, <1>43
     DEF PrepareStep
<1>44. ASSUME ReclaimStep PROVE Shapes'
  BY <1>24, <1>25, <1>26, <1>27, <1>28, <1>29, <1>31, <1>32, <1>33, <1>34, <1>35, <1>44
     DEF ReclaimStep
<1> QED
  BY <1>1, <1>2, <1>3, <1>36, <1>37, <1>38, <1>39, <1>41, <1>42, <1>43, <1>44
     DEF Next, ChainStep, PayStep

(***************************************************************************)
(* Most steps are quiet: they neither change the pool nor fund an account, *)
(* and leave a broadcasting preparation alone or end it.                   *)
(***************************************************************************)
Broadcasting == pc["prepare"] \in {"broadcast", "note"}
Announcing == pc["prepare"] \in {"indexing", "request"}

Quiet ==
  /\ pool' = pool /\ Funded' \subseteq Funded
  /\ \/ /\ Broadcasting' => Broadcasting
        /\ Announcing' => Announcing
        /\ view'["prepare"] = view["prepare"]
        /\ UNCHANGED <<fresh, submitted>>
     \/ /\ ~Broadcasting'
        /\ submitted' \subseteq fresh'
        /\ Announcing' => submitted' = {}

\* What the chain decides adds nothing to the funded accounts.
LEMMA QuietChain ==
  ASSUME TypeOK, ChainStep PROVE Quiet
<1>1. ASSUME NEW a \in Account, CreateDecided(a) PROVE Quiet
  BY <1>1 DEF CreateDecided, Quiet, Broadcasting, Announcing, Funded, OnChain,
              TypeOK, Shapes, locals
<1>2. ASSUME NEW a \in Account, CloseDecided(a) PROVE Quiet
  BY <1>2 DEF CloseDecided, Quiet, Broadcasting, Announcing, Funded, OnChain,
              TypeOK, Shapes, locals
<1>3. ASSUME NEW a \in Account, CloseFails(a) PROVE Quiet
  BY <1>3 DEF CloseFails, Quiet, Broadcasting, Announcing, Funded, OnChain,
              TypeOK, Shapes, locals
<1> QED BY <1>1, <1>2, <1>3 DEF ChainStep

\* The funded accounts depend on the chain only.
LEMMA FundedSame == ASSUME UNCHANGED chain PROVE Funded' = Funded
BY DEF chain, Funded, OnChain

\* Another task's step leaves the preparation alone.
LEMMA QuietOther ==
  ASSUME TypeOK, NEW t \in Tasks \ {"prepare"}, NEW l, NEW v,
         UNCHANGED <<chain, pool, fresh, submitted>>,
         pc' = pc \/ pc' = [pc EXCEPT ![t] = l],
         view' = view \/ view' = [view EXCEPT ![t] = v]
  PROVE  Quiet
BY FundedSame DEF Quiet, Broadcasting, Announcing, TypeOK, Shapes, Tasks

\* A step of the preparation away from its broadcasts.
LEMMA QuietPrepare ==
  ASSUME TypeOK, NEW l, l \notin {"broadcast", "note"}, GoTo("prepare", l),
         UNCHANGED chain, UNCHANGED pool, submitted' \subseteq fresh',
         l \in {"indexing", "request"} => submitted' = {}
  PROVE  Quiet
BY FundedSame DEF Quiet, Broadcasting, Announcing, GoTo, TypeOK, Shapes, Tasks

\* Steps of a refresh that ask the provider nothing.
LEMMA QuietRefresh ==
  ASSUME TypeOK, NEW t \in Tasks,
         \/ t # "prepare" /\ pc[t] = "idle" /\ \E next \in AfterRefresh[t] : Start(t, next)
         \/ t = "prepare" /\ Start("prepare", "decide")
         \/ Fallback(t) \/ SyncIndex(t) \/ SyncLoad(t) \/ SyncUpsert(t) \/ SyncSave(t)
         \/ \E a \in Account : SyncWrite(t, a)
  PROVE  Quiet
<1> USE DEF At
<1>1. UNCHANGED <<chain, pool, fresh, submitted>> /\ submitted \subseteq fresh
  BY DEF Start, Fallback, SyncIndex, SyncLoad, SyncUpsert, SyncSave, SyncWrite, locals, TypeOK, Preparing
<1>2. \/ pc' = pc /\ At(t, "writing")
      \/ \E l \in {"read", "indexed", "loaded", "writing", "idle", "decide", "select"} :
           GoTo(t, l)
  <2>1. view[t].next \in {"idle", "decide", "select"}
    BY DEF TypeOK, Shapes, AfterRefresh, Tasks
  <2> QED BY <2>1 DEF Start, Refresh, Fallback, SyncIndex, SyncLoad, SyncUpsert, SyncSave,
                       SyncWrite, GoOn
<1>3. CASE t = "prepare"
  <2>1. ~Broadcasting' /\ ~Announcing'
    BY <1>2, <1>3 DEF Broadcasting, Announcing, GoTo, TypeOK, Shapes, Tasks
  <2> QED BY <1>1, <2>1, FundedSame DEF Quiet
<1>4. CASE t # "prepare"
  <2>1. pc'["prepare"] = pc["prepare"]
    BY <1>2, <1>4 DEF GoTo, TypeOK, Shapes, Tasks
  <2>2. view'["prepare"] = view["prepare"]
    BY <1>4 DEF Start, Refresh, Fallback, SyncIndex, SyncLoad, SyncUpsert, SyncSave,
                SyncWrite, GoOn, TypeOK, Shapes, Tasks
  <2> QED BY <1>1, <2>1, <2>2, FundedSame DEF Quiet, Broadcasting, Announcing
<1> QED BY <1>3, <1>4

\* The reclaim closes accounts and leaves the preparation alone.
LEMMA QuietReclaim ==
  ASSUME TypeOK, ReclaimStep PROVE Quiet
<1> USE DEF At, GoTo, device, locals
<1>0. "reclaim" \in Tasks \ {"prepare"}
  BY DEF Tasks
<1>1. ASSUME ~\E a \in Account : ReclaimBroadcast(a) \/ ReclaimThrows(a) PROVE Quiet
  <2>1. UNCHANGED <<chain, pool, fresh, submitted>>
    BY <1>1 DEF ReclaimStep, ReclaimNothing, ReclaimSelect, ReclaimNote, ReclaimWithout,
                ReclaimConfirmed, ReclaimUnconfirmed, ReclaimRejected, ReclaimMarked,
                ReclaimMark, Marked
  <2>2. pc'["prepare"] = pc["prepare"] /\ view'["prepare"] = view["prepare"]
    BY <1>1 DEF ReclaimStep, ReclaimNothing, ReclaimSelect, ReclaimNote, ReclaimWithout,
                ReclaimConfirmed, ReclaimUnconfirmed, ReclaimRejected, ReclaimMarked,
                ReclaimMark, Marked, EndReclaim, Refresh, TypeOK, Shapes, Tasks
  <2> QED BY <2>1, <2>2, FundedSame DEF Quiet, Broadcasting, Announcing
<1>2. ASSUME NEW a \in Account, ReclaimBroadcast(a) \/ ReclaimThrows(a) PROVE Quiet
  <2>1. /\ create' = create /\ pool' = pool /\ UNCHANGED <<fresh, submitted>>
        /\ \/ close' = close
           \/ OnChain(a) /\ close' = [close EXCEPT ![a] = "sent"]
    <3>1. CASE ReclaimBroadcast(a)
      BY <3>1 DEF ReclaimBroadcast
    <3>2. CASE ReclaimThrows(a)
      BY <3>2 DEF ReclaimThrows
    <3> QED BY <1>2, <3>1, <3>2
  <2>2. Funded' \subseteq Funded
    BY <2>1 DEF Funded, OnChain, TypeOK, Shapes
  <2>3. pc'["prepare"] = pc["prepare"] /\ view'["prepare"] = view["prepare"]
    BY <1>2 DEF ReclaimBroadcast, ReclaimThrows, TypeOK, Shapes, Tasks
  <2> QED BY <2>1, <2>2, <2>3 DEF Quiet, Broadcasting, Announcing
<1> QED BY <1>1, <1>2

\* So do payments and a crash, which ends the preparation.
LEMMA QuietRest ==
  ASSUME TypeOK, PayStep \/ Crash \/ UNCHANGED vars PROVE Quiet
<1>1. CASE PayStep \/ UNCHANGED vars
  BY <1>1, FundedSame DEF PayStep, PayLock, PaySettled, vars, locals, Quiet, Broadcasting,
                          Announcing
<1>2. CASE Crash
  BY <1>2, FundedSame DEF Crash, Quiet, Broadcasting, Announcing, Tasks
<1> QED BY <1>1, <1>2

\* The preparation's steps before and after its broadcasts.
LEMMA QuietPreparation ==
  ASSUME TypeOK,
         \/ PrepareNothing \/ PrepareGenerate \/ PrepareIndex \/ PrepareNote
         \/ PrepareWaited \/ PrepareUndo \/ PrepareUndone
  PROVE  Quiet
<1> USE DEF locals
<1>1. CASE PrepareNothing \/ PrepareUndone
  BY <1>1, QuietPrepare DEF PrepareNothing, PrepareUndone, EndPrepare
<1>2. CASE PrepareGenerate
  BY <1>2, QuietPrepare DEF PrepareGenerate
<1>3. CASE PrepareIndex \/ PrepareUndo
  BY <1>3, QuietPrepare DEF PrepareIndex, PrepareUndo, TypeOK, Preparing, At
<1>4. CASE PrepareNote
  BY <1>4, FundedSame DEF PrepareNote, Quiet, Broadcasting, Announcing,
                               At, GoTo, TypeOK, Shapes, Tasks
<1>5. CASE PrepareWaited
  BY <1>5, QuietPrepare DEF PrepareWaited, Refresh
<1> QED BY <1>1, <1>2, <1>3, <1>4, <1>5

\* The steps that are not quiet.
LEMMA QuietOrLoud ==
  ASSUME TypeOK, [Next]_vars
  PROVE  \/ Quiet
         \/ \E t \in Tasks : Read(t) \/ ReadFails(t)
         \/ PrepareRequest \/ PrepareRefused \/ PrepareThrows
         \/ \E a \in Account : PrepareBroadcast(a)
<1>1. Start("poll", "idle") \/ Start("prepare", "decide") \/ Start("reclaim", "select") => Quiet
  <2>1. "poll" \in Tasks /\ "prepare" \in Tasks /\ "reclaim" \in Tasks
        /\ "idle" \in AfterRefresh["poll"] /\ "select" \in AfterRefresh["reclaim"]
    BY DEF Tasks, AfterRefresh
  <2>2. Start("poll", "idle") => pc["poll"] = "idle"
    BY <2>1 DEF Start, MayStart, Busy, At
  <2>3. Start("reclaim", "select") => pc["reclaim"] = "idle"
    BY <2>1 DEF Start, MayStart, Busy, At
  <2> QED BY <2>1, <2>2, <2>3, QuietRefresh
<1>2. ASSUME NEW t \in Tasks, RefreshStep(t) PROVE Quiet \/ Read(t) \/ ReadFails(t)
  BY <1>2, QuietRefresh DEF RefreshStep
<1> QED BY <1>1, <1>2, QuietChain, QuietReclaim, QuietRest, QuietPreparation
        DEF Next, PrepareStep

(***************************************************************************)
(* The preparation knows what it broadcast.                                *)
(***************************************************************************)
LEMMA PreparingInit == Init => Preparing
BY DEF Init, Preparing, Tasks

\* Every step keeps the preparation's bookkeeping.
LEMMA PreparingStep ==
  ASSUME TypeOK, [Next]_vars
  PROVE  Preparing'
<1> USE DEF At, GoTo
<1>1. CASE Quiet
  BY <1>1 DEF Quiet, Broadcasting, Announcing, TypeOK, Preparing
<1>2. ASSUME NEW t \in Tasks, Read(t) \/ ReadFails(t) PROVE Preparing'
  <2>1. UNCHANGED <<fresh, submitted>> /\ (pc["prepare"] = "read" \/ t # "prepare")
    BY <1>2 DEF Read, ReadFails, locals
  <2>2. \/ pc'["prepare"] \in {"answered", "idle", "fallback"}
        \/ pc'["prepare"] = pc["prepare"] /\ view'["prepare"] = view["prepare"]
    <3>1. CASE t = "prepare"
      BY <1>2, <3>1 DEF Read, ReadFails, TypeOK, Shapes, Tasks
    <3>2. CASE t # "prepare"
      <4>1. \E l : pc' = [pc EXCEPT ![t] = l]
        BY <1>2 DEF Read, ReadFails
      <4>2. \/ view' = view
            \/ \E v : view' = [view EXCEPT ![t] = v]
        BY <1>2 DEF Read, ReadFails
      <4> QED BY <3>2, <4>1, <4>2 DEF TypeOK, Shapes, Tasks
    <3> QED BY <3>1, <3>2
  <2> QED BY <2>1, <2>2 DEF TypeOK, Preparing
<1>3. CASE PrepareRequest
  <2>1. /\ pc["prepare"] = "request" /\ UNCHANGED <<fresh, submitted>>
        /\ pc'["prepare"] = "broadcast"
        /\ view' = [view EXCEPT !["prepare"] = [NoView EXCEPT !.todo = fresh]]
    BY <1>3 DEF PrepareRequest, locals, TypeOK, Shapes, Tasks
  <2>2. view'["prepare"].todo = fresh
    BY <2>1 DEF NoView, TypeOK, Shapes, Tasks
  <2> QED BY <2>1, <2>2 DEF TypeOK, Preparing
<1>4. CASE PrepareRefused \/ PrepareThrows
  <2>1. UNCHANGED <<fresh, submitted>> /\ pc'["prepare"] = "undo"
    BY <1>4 DEF PrepareRefused, PrepareThrows, locals, TypeOK, Shapes, Tasks
  <2> QED BY <2>1 DEF TypeOK, Preparing
<1>5. ASSUME NEW a \in Account, PrepareBroadcast(a) PROVE Preparing'
  <2>1. /\ pc["prepare"] = "broadcast" /\ a \in view["prepare"].todo
        /\ pc'["prepare"] = "note"
        /\ submitted' = submitted \cup {a} /\ fresh' = fresh
        /\ view'["prepare"].todo = view["prepare"].todo \ {a}
    BY <1>5 DEF PrepareBroadcast, TypeOK, Shapes, Tasks, View
  <2> QED BY <2>1 DEF TypeOK, Preparing
<1> QED BY <1>1, <1>2, <1>3, <1>4, <1>5, QuietOrLoud

(***************************************************************************)
(* Types hold in every reachable state, whatever overlaps and fails.       *)
(***************************************************************************)
THEOREM TypeCorrect == Spec => []TypeOK
<1>1. Init => TypeOK
  BY ShapesInit, PreparingInit DEF TypeOK
<1>2. TypeOK /\ [Next]_vars => TypeOK'
  BY ShapesStep, PreparingStep DEF TypeOK
<1> QED BY <1>1, <1>2, PTL DEF Spec

(***************************************************************************)
(* The pool lists the accounts about to be created as well as those        *)
(* created, and holds no more than the maximum.                            *)
(***************************************************************************)
Listed ==
  /\ Funded \subseteq pool
  /\ Broadcasting => fresh \ submitted \subseteq pool
  /\ Cardinality(pool) <= MaxSlots

\* A pool that loses accounts stays within the bounds.
LEMMA FewerFit ==
  ASSUME pool \subseteq Account, NEW kept, kept \subseteq pool,
         Cardinality(pool) <= MaxSlots
  PROVE  Cardinality(kept) <= MaxSlots
<1>1. IsFiniteSet(pool)
  BY SlotAssumption, FS_Subset
<1>2. Cardinality(kept) <= Cardinality(pool) /\ IsFiniteSet(kept)
  BY <1>1, FS_Subset
<1>3. Cardinality(kept) \in Nat /\ Cardinality(pool) \in Nat
  BY <1>1, <1>2, FS_CardinalityType
<1> QED BY <1>2, <1>3, SlotAssumption

\* Initially no account is funded or listed.
LEMMA ListedInit == Init => Listed
<1> SUFFICES ASSUME Init PROVE Listed
  OBVIOUS
<1>1. Funded = {} /\ pool = {} /\ ~Broadcasting
  BY DEF Init, Funded, OnChain, Broadcasting, Tasks
<1>2. Cardinality(pool) <= MaxSlots
  BY <1>1, FS_EmptySet, SlotAssumption
<1> QED BY <1>1, <1>2 DEF Listed

(***************************************************************************)
(* The one way out of the list: the worker reads an account before the     *)
(* chain has decided on its creation, takes it for missing and forgets it  *)
(* (resolvePoolAccounts, while a preparation is under way).                *)
(***************************************************************************)
Forgets == \E a \in Undecided : a \in pool /\ a \notin pool'

\* Forgetting the accounts that are not on chain forgets no other funded one.
LEMMA ReadKeeps ==
  ASSUME pool \subseteq Account, Listed, ~Forgets,
         \A a \in pool : OnChain(a) => a \in pool'
  PROVE  Funded \subseteq pool' /\ (Broadcasting => fresh \ submitted \subseteq pool')
BY DEF Listed, Forgets, Undecided, Broadcasting, Funded

\* Every other step keeps the list complete and within the maximum.
LEMMA ListedStep ==
  ASSUME TypeOK, Listed, [Next]_vars, ~Forgets
  PROVE  Listed'
<1> USE DEF At, GoTo
<1>0. pool \subseteq Account /\ fresh \subseteq Account
  BY DEF TypeOK, Shapes
<1>1. CASE Quiet
  BY <1>1 DEF Quiet, Listed, TypeOK, Preparing, Broadcasting
<1>2. \A a \in pool : OnChain(a) => Answers(a) = {"ready"}
  BY DEF Answers
<1>3. \A existing \in Pruned : /\ existing \subseteq pool
                               /\ \A a \in pool : OnChain(a) => a \in existing
  BY <1>2 DEF Pruned
<1>4. ASSUME UNCHANGED <<chain, fresh, submitted>>, Broadcasting' => Broadcasting,
             pool' \subseteq pool, \A a \in pool : OnChain(a) => a \in pool'
      PROVE  Listed'
  <2>1. Cardinality(pool') <= MaxSlots
    BY <1>0, <1>4, FewerFit DEF Listed
  <2> QED BY <1>0, <1>4, <2>1, ReadKeeps, FundedSame DEF Listed
<1>5. ASSUME NEW t \in Tasks, Read(t) \/ ReadFails(t) PROVE Listed'
  <2>1. UNCHANGED <<chain, fresh, submitted>>
    BY <1>5 DEF Read, ReadFails, locals
  <2>2. Broadcasting' => Broadcasting
    <3>1. \E l \in {"answered", "idle", "fallback"} : pc' = [pc EXCEPT ![t] = l]
      BY <1>5 DEF Read, ReadFails
    <3> QED BY <3>1 DEF Broadcasting, TypeOK, Shapes, Tasks
  <2>3. pool' \subseteq pool /\ \A a \in pool : OnChain(a) => a \in pool'
    <3>1. CASE Read(t)
      BY <1>0, <1>2, <3>1 DEF Read
    <3>2. CASE ReadFails(t)
      BY <1>3, <3>2 DEF ReadFails
    <3> QED BY <1>5, <3>1, <3>2
  <2> QED BY <1>4, <2>1, <2>2, <2>3
<1>6. ASSUME NEW existing \in Pruned, PoolFits(existing), pool' = existing \cup fresh,
             UNCHANGED <<chain, fresh, submitted>>
      PROVE  Listed'
  <2>1. Funded \subseteq pool'
    BY <1>0, <1>3, <1>6, ReadKeeps
  <2>2. Cardinality(pool') <= MaxSlots
    BY <1>6, SlotAssumption DEF PoolFits
  <2> QED BY <1>6, <2>1, <2>2, FundedSame DEF Listed
<1>7. CASE PrepareRequest
  BY <1>6, <1>7 DEF PrepareRequest, locals
<1>8. CASE PrepareRefused
  <2>1. ~Broadcasting' /\ UNCHANGED <<chain, fresh, submitted>>
    BY <1>8 DEF PrepareRefused, Broadcasting, TypeOK, Shapes, Tasks, locals
  <2>2. \/ pool' = pool \/ pool' \in Pruned
        \/ \E existing \in Pruned : PoolFits(existing) /\ pool' = existing \cup fresh
    BY <1>8 DEF PrepareRefused
  <2> QED BY <1>3, <1>4, <1>6, <2>1, <2>2
<1>9. ASSUME NEW a \in Account, a \in view["prepare"].todo, Broadcasting,
             UNCHANGED <<close, pool>>, fresh' = fresh, submitted \subseteq submitted',
             create' = create \/ create' = [create EXCEPT ![a] = "sent"]
      PROVE  Listed'
  <2>1. a \in pool
    BY <1>9 DEF TypeOK, Preparing, Listed, Broadcasting
  <2>2. Funded' \subseteq Funded \cup {a}
    BY <1>9 DEF Funded, OnChain, TypeOK, Shapes
  <2> QED BY <1>9, <2>1, <2>2 DEF Listed
<1>10. CASE PrepareThrows
  <2>1. view["prepare"].todo \subseteq Account
    BY DEF TypeOK, Shapes, View, Tasks
  <2> QED BY <1>9, <1>10, <2>1 DEF PrepareThrows, Broadcasting, locals
<1>11. ASSUME NEW a \in Account, PrepareBroadcast(a) PROVE Listed'
  BY <1>9, <1>11 DEF PrepareBroadcast, Broadcasting
<1> QED BY <1>1, <1>5, <1>7, <1>8, <1>10, <1>11, QuietOrLoud

\* The list is complete unless the worker forgets an undecided account.
LEMMA ListedAlways == Spec => []Listed \/ <><<Forgets>>_vars
<1>1. Init => Listed
  BY ListedInit
<1>2. TypeOK /\ Listed /\ [Next]_vars /\ [~Forgets]_vars => Listed'
  <2> SUFFICES ASSUME TypeOK, Listed, [Next]_vars, [~Forgets]_vars PROVE Listed'
    OBVIOUS
  <2>1. CASE ~Forgets
    BY <2>1, ListedStep
  <2>2. CASE UNCHANGED vars
    BY <2>2, QuietRest, ListedStep DEF Quiet, Listed, TypeOK, Preparing, Broadcasting
  <2> QED BY <2>1, <2>2
<1> QED BY <1>1, <1>2, TypeCorrect, PTL DEF Spec

(***************************************************************************)
(* Whatever overlaps, fails, is answered late or is cut short, the pool    *)
(* lists all the rent the wallet paid or is about to pay (RentListed),     *)
(* until the worker forgets an account whose creation is undecided: the    *)
(* run "forgotten" shows that it then may lose rent for good.              *)
(***************************************************************************)
THEOREM RentIsListed == Spec => []RentListed \/ <><<Forgets>>_vars
<1>1. Listed => RentListed
  BY DEF Listed, RentListed
<1> QED BY <1>1, ListedAlways, PTL

(***************************************************************************)
(* Likewise the wallet never holds more accounts than the worker's maximum *)
(* (RentBounded), however far index and pool have drifted apart over lost  *)
(* answers, kills between broadcasts and late closes.                      *)
(***************************************************************************)
THEOREM RentIsBounded == Spec => []RentBounded \/ <><<Forgets>>_vars
<1>1. TypeOK /\ Listed => RentBounded
  BY FewerFit DEF TypeOK, Shapes, Listed, RentBounded
<1> QED BY <1>1, ListedAlways, TypeCorrect, PTL
-----------------------------------------------------------------------------
(***************************************************************************)
(* Use.  The device shares a slot between payments and the reclaim by the  *)
(* status of its record, and no transaction spans a read and the save that *)
(* follows it.  Three things can therefore go wrong, and nothing else:     *)
(*   Overwrites    a task saves a record over a lock or a close noted      *)
(*                 since the task loaded it                                *)
(*   LosesClose    a close went out and its record does not say so: the    *)
(*                 reclaim is killed before its note, the broadcast's      *)
(*                 answer is lost, or it is marked failed and may land     *)
(*   CrossesClose  a close goes out for an account locked since it was     *)
(*                 selected, or a payment locks one before the note        *)
(* Closing(a): the rent of a has been asked back; InHand(a): the reclaim   *)
(* has yet to note that it did.                                            *)
(***************************************************************************)
Closing(a) == close[a] \in {"sent", "landed"}
InHand(a) ==
  At("reclaim", "note") /\ hand["reclaim"] = [account |-> a, status |-> "closing"]

\* A refresh loaded another status; the others loaded, or saved, none of these.
Overwrites(a) ==
  /\ record[a].status \in {"locked", "closing", "closed"}
  /\ \/ \E t \in Tasks : SyncWrite(t, a) /\ view[t].copy[a].status # record[a].status
     \/ ReclaimNote /\ hand["reclaim"].account = a
     \/ PrepareNote /\ hand["prepare"].account = a
     \/ PrepareUndo /\ a \in fresh \ submitted

LosesClose(a) ==
  /\ Closing(a)'
  /\ \/ Crash /\ InHand(a)
     \/ ReclaimThrows(a)
     \/ ReclaimMark(a) /\ At("reclaim", "error")

CrossesClose(a) ==
  \/ ReclaimBroadcast(a) /\ record[a].status = "locked"
  \/ PayLock(a) /\ InHand(a)

LosesRecord == \E a \in Account : Overwrites(a) \/ LosesClose(a)
Crosses == \E a \in Account : CrossesClose(a)

\* A close is of a created account, a ready slot has one, and an account
\* that is being closed is shown so.
Told ==
  \A a \in Account :
    /\ close[a] # "none" => create[a] = "landed"
    /\ record[a].status = "ready" => create[a] = "landed"
    /\ Closing(a) /\ ~InHand(a) => record[a].status \in {"closing", "closed"}

\* An account a refresh has seen was created, and one it has not heard of is
\* in its list because its preparation was given up.
Answered ==
  \A t \in Tasks :
    /\ \A a \in Account : view[t].seen[a] = "ready" => create[a] = "landed"
    /\ pc[t] \in {"loaded", "writing"} =>
         \A a \in view[t].todo :
           view[t].seen[a] = "unlisted" => view[t].copy[a].status = "preparing"

\* A preparation broadcasts a creation once.
Own ==
  pc["prepare"] \in {"indexing", "request", "broadcast", "note"} =>
    \A a \in fresh \ submitted : create[a] = "none"

\* What the reclaim selected was reclaimable when it was loaded.
Selected ==
  LET v == view["reclaim"]
      h == hand["reclaim"]
  IN  /\ pc["reclaim"] \in {"broadcast", "note"} => \A a \in v.todo : Reclaimable(v.copy[a])
      /\ pc["reclaim"] = "note" => /\ h.account \in Account
                                   /\ h.status \in {"closing", "error"}
                                   /\ Reclaimable(v.copy[h.account])

Use == Told /\ Answered /\ Own /\ Selected

\* Initially there are no accounts and no tasks.
LEMMA UseInit == Init => Use
BY DEF Init, Use, Told, Answered, Own, Selected, Closing, NoRecord, NoView, Tasks

\* Loading the snapshot changes the status of unfunded failures only.
LEMMA LoadKeeps ==
  ASSUME Shapes, NEW accounts, Load(accounts, record), NEW a \in Account
  PROVE  \/ record'[a].status = record[a].status
         \/ record[a].status = "error" /\ record'[a].status = "none"
BY DEF Load, Ephemeral, NoRecord

(***************************************************************************)
(* Most steps take nothing from a record, from a close in hand or from     *)
(* what other tasks know.                                                  *)
(***************************************************************************)
Past == {"loaded", "writing", "indexing", "request", "broadcast", "note"}

\* One task goes on, to a place where nothing is asked of what it knows.
Leaves(t) ==
  /\ \A u \in Tasks \ {t} : pc'[u] = pc[u] /\ view'[u] = view[u] /\ hand'[u] = hand[u]
  /\ pc'[t] \notin Past
  /\ \A a \in Account :
       view'[t].seen[a] = "ready" => view[t].seen[a] = "ready" \/ create[a] = "landed"
  /\ t # "prepare" => UNCHANGED <<fresh, submitted>> /\ create' = create

\* No task goes anywhere.
Stays == UNCHANGED <<pc, view, hand, fresh, submitted>>

\* The chain and the records keep what they tell.
Keeps ==
  /\ \A a \in Account : create[a] = "landed" => create'[a] = "landed"
  /\ \A a \in Account : close'[a] # "none" => close[a] # "none"
  /\ \A a \in Account : InHand(a) => InHand(a)'
  /\ \A a \in Account : Closing(a)' => Closing(a)
  /\ \A a \in Account :
       record'[a].status = "ready" => record[a].status = "ready" \/ create[a] = "landed"
  /\ \A a \in Account :
       Closing(a)' /\ ~InHand(a)' /\ record[a].status \in {"closing", "closed"}
         => record'[a].status \in {"closing", "closed"}

\* Such steps keep the invariant.
LEMMA UseLeaves ==
  ASSUME Use, Keeps, NEW t \in Tasks, Leaves(t)
  PROVE  Use'
<1>1. Told'
  BY DEF Use, Told, Keeps
<1>2. Answered'
  <2> SUFFICES ASSUME NEW u \in Tasks
               PROVE  /\ \A a \in Account : view'[u].seen[a] = "ready" => create'[a] = "landed"
                      /\ pc'[u] \in {"loaded", "writing"} =>
                           \A a \in view'[u].todo :
                             view'[u].seen[a] = "unlisted" => view'[u].copy[a].status = "preparing"
    BY DEF Answered
  <2>1. CASE u = t
    BY <2>1 DEF Use, Answered, Keeps, Leaves, Past
  <2>2. CASE u # t
    BY <2>2 DEF Use, Answered, Keeps, Leaves
  <2> QED BY <2>1, <2>2
<1>3. Own'
  BY DEF Use, Own, Leaves, Past, Tasks
<1>4. Selected'
  BY DEF Use, Selected, Leaves, Past, Tasks
<1> QED BY <1>1, <1>2, <1>3, <1>4 DEF Use

\* So do those of the chain and of payments.
LEMMA UseStays ==
  ASSUME Shapes, Use, Keeps, Stays,
         \A a \in Account : create[a] = "none" => create'[a] = "none"
  PROVE  Use'
<1>1. Told'
  BY DEF Use, Told, Keeps
<1>2. Answered'
  BY DEF Use, Answered, Keeps, Stays
<1>3. Own' /\ Selected'
  <2>1. fresh \subseteq Account
    BY DEF Shapes
  <2> QED BY <2>1 DEF Use, Own, Selected, Stays
<1> QED BY <1>1, <1>2, <1>3 DEF Use

\* Loading the snapshot takes nothing from the records that matter.
LEMMA KeepsLoad ==
  ASSUME Shapes, NEW accounts, Load(accounts, record) \/ record' = record,
         UNCHANGED chain, \A a \in Account : InHand(a) => InHand(a)'
  PROVE  Keeps
<1>1. \A a \in Account : /\ record'[a].status = "ready" => record[a].status = "ready"
                         /\ record[a].status \in {"closing", "closed"} =>
                              record'[a].status = record[a].status
  BY LoadKeeps
<1>2. \A a \in Account : Closing(a)' => Closing(a)
  BY DEF Closing, chain
<1>3. UNCHANGED <<create, close>>
  BY DEF chain
<1>4. \A a \in Account : close'[a] # "none" => close[a] # "none"
  BY <1>3
<1>5. \A a \in Account : create[a] = "landed" => create'[a] = "landed"
  BY <1>3
<1> QED BY <1>1, <1>2, <1>4, <1>5 DEF Keeps

\* The chain decides on what was sent: a close stays one, or is undone.
LEMMA ChainUse ==
  ASSUME Shapes, Use, ChainStep
  PROVE  Use'
<1>1. PICK a \in Account : CreateDecided(a) \/ CloseDecided(a) \/ CloseFails(a)
  BY DEF ChainStep
<1>2. Stays /\ record' = record
  BY <1>1 DEF CreateDecided, CloseDecided, CloseFails, Stays, device, locals
<1>3. /\ \A b \in Account : /\ create[b] = "landed" => create'[b] = "landed"
                            /\ create[b] = "none" => create'[b] = "none"
      /\ \A b \in Account : /\ close'[b] # "none" => close[b] # "none"
                            /\ Closing(b)' => Closing(b)
  <2>1. CASE CreateDecided(a)
    BY <2>1 DEF CreateDecided, Closing, Shapes
  <2>2. CASE CloseDecided(a) \/ CloseFails(a)
    BY <2>2 DEF CloseDecided, CloseFails, Closing, Shapes
  <2> QED BY <1>1, <2>1, <2>2
<1>4. \A b \in Account : InHand(b) => InHand(b)'
  BY <1>2 DEF InHand, At, Stays
<1>5. Keeps
  BY <1>2, <1>3, <1>4 DEF Keeps
<1> QED BY <1>2, <1>3, <1>5, UseStays

(***************************************************************************)
(* A refresh that starts forgets what its task knew.                       *)
(***************************************************************************)
LEMMA RefreshUse ==
  ASSUME Shapes, Use, NEW t \in Tasks, NEW next, Refresh(t, next),
         ~(t = "reclaim" /\ pc[t] = "note"), UNCHANGED chain,
         \A u \in Tasks \ {t} : hand'[u] = hand[u],
         t # "prepare" => UNCHANGED <<fresh, submitted>>
  PROVE  Use'
<1>1. /\ pc' = [pc EXCEPT ![t] = "read"]
      /\ view' = [view EXCEPT ![t] = [NoView EXCEPT !.next = next]]
      /\ Load(index, record)
  BY DEF Refresh, GoTo
<1>2. view'[t].seen = NoView.seen /\ pc'[t] = "read"
  BY <1>1 DEF Shapes, NoView
<1>3. \A u \in Tasks \ {t} : pc'[u] = pc[u] /\ view'[u] = view[u]
  BY <1>1 DEF Shapes
<1>4. Leaves(t)
  BY <1>2, <1>3 DEF Leaves, Past, NoView, chain
<1>5. \A a \in Account : InHand(a) => InHand(a)'
  BY <1>3 DEF InHand, At, Tasks
<1>6. Keeps
  BY <1>1, <1>5, KeepsLoad
<1> QED BY <1>4, <1>6, UseLeaves

\* A task that starts.
LEMMA StartUse ==
  ASSUME Shapes, Use, NEW t \in Tasks, NEW next, Start(t, next)
  PROVE  Use'
<1>1. pc[t] = "idle"
  BY DEF Start, MayStart, Busy, At
<1> QED BY <1>1, RefreshUse DEF Start, locals

\* Going on after one.
LEMMA GoOnUse ==
  ASSUME Shapes, Use, NEW t \in Tasks, pc[t] \in {"fallback", "writing"},
         NEW accounts, Load(accounts, record), GoOn(t, accounts),
         UNCHANGED <<chain, fresh, submitted, hand>>
  PROVE  Use'
<1>1. /\ pc' = [pc EXCEPT ![t] = view[t].next] /\ view[t].next \in {"idle", "decide", "select"}
      /\ \E v : v.seen = NoView.seen /\ view' = [view EXCEPT ![t] = v]
  <2>1. view[t].next \in {"idle", "decide", "select"}
    BY DEF Shapes, AfterRefresh, Tasks
  <2>2. [NoView EXCEPT !.known = Kept(accounts, record), !.copy = record].seen = NoView.seen
    BY DEF NoView
  <2>3. GoTo(t, view[t].next)
    BY DEF GoOn
  <2>4. CASE view[t].next = "idle"
    BY <2>1, <2>3, <2>4 DEF GoOn, GoTo
  <2>5. CASE view[t].next # "idle"
    BY <2>1, <2>2, <2>3, <2>5 DEF GoOn, GoTo
  <2> QED BY <2>4, <2>5
<1>2. pc'[t] \in {"idle", "decide", "select"} /\ view'[t].seen = NoView.seen
  BY <1>1 DEF Shapes
<1>3. \A u \in Tasks \ {t} : pc'[u] = pc[u] /\ view'[u] = view[u] /\ hand'[u] = hand[u]
  BY <1>1 DEF Shapes
<1>4. Leaves(t)
  BY <1>2, <1>3 DEF Leaves, Past, NoView, chain
<1>5. \A a \in Account : InHand(a) => InHand(a)'
  BY <1>3 DEF InHand, At, Tasks
<1>6. Keeps
  BY <1>5, KeepsLoad
<1> QED BY <1>4, <1>6, UseLeaves

\* The provider's answer, and where the index was read.
LEMMA ReadUse ==
  ASSUME Shapes, Use, NEW t \in Tasks, Read(t) \/ ReadFails(t) \/ SyncIndex(t)
  PROVE  Use'
<1>1. /\ pc[t] \in {"read", "answered"}
      /\ \E l \in {"answered", "indexed", "fallback", "idle"} : pc' = [pc EXCEPT ![t] = l]
      /\ \E v : view' = [view EXCEPT ![t] = v]
      /\ UNCHANGED <<chain, record, fresh, submitted, hand>>
  <2>1. CASE Read(t)
    BY <2>1 DEF Read, At, GoTo, device, locals
  <2>2. CASE ReadFails(t)
    <3>1. \E v : view' = [view EXCEPT ![t] = v]
      <4>1. CASE view' = view
        BY <4>1 DEF Shapes
      <4> QED BY <2>2, <4>1 DEF ReadFails
    <3> QED BY <2>2, <3>1 DEF ReadFails, At, GoTo, device, locals
  <2>3. CASE SyncIndex(t)
    BY <2>3 DEF SyncIndex, At, GoTo, device, locals
  <2> QED BY <2>1, <2>2, <2>3
<1>2. \A u \in Tasks \ {t} : pc'[u] = pc[u] /\ view'[u] = view[u] /\ hand'[u] = hand[u]
  BY <1>1 DEF Shapes
<1>3. pc'[t] \in {"answered", "indexed", "fallback", "idle"}
  BY <1>1 DEF Shapes
<1>4. \A a \in Account : view'[t].seen[a] = "ready" => view[t].seen[a] = "ready" \/ create[a] = "landed"
  <2>1. CASE Read(t)
    <3>1. PICK seen \in [Account -> {"unlisted", "missing", "ready"}] :
            /\ \A a \in Account :
                 IF a \in pool THEN seen[a] \in Answers(a) ELSE seen[a] = "unlisted"
            /\ view' = [view EXCEPT ![t].seen = seen]
      BY <2>1 DEF Read
    <3>2. view'[t].seen = seen
      BY <3>1 DEF Shapes, View
    <3>3. \A a \in Account : seen[a] = "ready" => create[a] = "landed"
      BY <3>1 DEF Answers, OnChain, Use, Told
    <3> QED BY <3>2, <3>3
  <2>2. CASE ReadFails(t)
    BY <2>2 DEF ReadFails, NoView, Shapes
  <2>3. CASE SyncIndex(t)
    BY <2>3 DEF SyncIndex, Shapes, View
  <2> QED BY <2>1, <2>2, <2>3
<1>5. Leaves(t)
  BY <1>1, <1>2, <1>3, <1>4 DEF Leaves, Past, chain
<1>6. \A a \in Account : InHand(a) => InHand(a)'
  BY <1>1, <1>2 DEF InHand, At, Tasks
<1>7. Keeps
  BY <1>1, <1>6, KeepsLoad
<1> QED BY <1>5, <1>7, UseLeaves

\* The records a refresh was given, and the one it writes.
LEMMA UseSync ==
  ASSUME Shapes, Use, NEW t \in Tasks, Keeps,
         pc[t] \in {"indexed", "loaded", "writing"}, pc'[t] \in {"loaded", "writing"},
         \A u \in Tasks \ {t} : pc'[u] = pc[u] /\ view'[u] = view[u],
         view'[t].seen = view[t].seen,
         \A a \in view'[t].todo :
           view[t].seen[a] = "unlisted" => view'[t].copy[a].status = "preparing",
         UNCHANGED <<create, fresh, submitted, hand>>
  PROVE  Use'
<1>1. Told'
  BY DEF Use, Told, Keeps
<1>2. Answered'
  BY DEF Use, Answered
<1>3. Own' /\ Selected'
  BY DEF Use, Own, Selected, Tasks
<1> QED BY <1>1, <1>2, <1>3 DEF Use

\* The local snapshot is loaded.
LEMMA SyncLoadUse ==
  ASSUME Shapes, Use, NEW t \in Tasks, SyncLoad(t)
  PROVE  Use'
<1> DEFINE named == view[t].known
           known == Kept(named, record)
           listed == {a \in Account : view[t].seen[a] # "unlisted"}
           copies(expired) ==
             [a \in Account |->
               IF a \in known \cap (listed \cup expired) THEN record[a] ELSE NoRecord]
<1>1. /\ pc[t] = "indexed" /\ pc' = [pc EXCEPT ![t] = "loaded"]
      /\ record' = record \/ Load(named, record)
      /\ UNCHANGED <<chain, fresh, submitted, hand>>
  BY DEF SyncLoad, At, GoTo, locals
<1>2. PICK expired \in SUBSET Abandoned(known) :
        view' = [view EXCEPT ![t].known = {}, ![t].todo = listed \cup expired,
                             ![t].copy = copies(expired)]
  BY DEF SyncLoad
<1> DEFINE copy == copies(expired)
<1>3. view' = [view EXCEPT ![t].known = {}, ![t].todo = listed \cup expired, ![t].copy = copy]
  BY <1>2
<1>4. \A a \in listed \cup expired :
        view[t].seen[a] = "unlisted" => copy[a].status = "preparing"
  <2>1. known \subseteq Account
    BY DEF Shapes, View, Kept
  <2> QED BY <2>1 DEF Abandoned
<1> HIDE DEF named, known, copies, copy, listed
<1>5. /\ view'[t].seen = view[t].seen /\ view'[t].copy = copy
      /\ view'[t].todo = listed \cup expired
  BY <1>3 DEF Shapes, View
<1>6. \A u \in Tasks \ {t} : pc'[u] = pc[u] /\ view'[u] = view[u]
  BY <1>1, <1>3 DEF Shapes
<1>7. \A a \in Account : InHand(a) => InHand(a)'
  BY <1>1, <1>6 DEF InHand, At, Tasks
<1>8. Keeps
  BY <1>1, <1>7, KeepsLoad
<1>9. pc'[t] = "loaded"
  BY <1>1 DEF Shapes
<1> QED BY <1>1, <1>4, <1>5, <1>6, <1>8, <1>9, UseSync DEF chain

\* A refresh that overwrites neither a lock nor a close keeps them.
LEMMA SyncWriteUse ==
  ASSUME Shapes, Use, NEW t \in Tasks, NEW a \in Account, SyncWrite(t, a), ~LosesRecord
  PROVE  Use'
<1> DEFINE seen == view[t].seen[a]
           current == view[t].copy[a]
           new == Merged(current, seen)
<1>1. /\ pc[t] = "writing" /\ a \in view[t].todo
      /\ record' = [record EXCEPT ![a] = new]
      /\ view' = [view EXCEPT ![t].todo = @ \ {a}, ![t].names = @ \cup {a}]
      /\ UNCHANGED <<create, close, pc, fresh, submitted, hand>>
  BY DEF SyncWrite, At, chain, locals
<1>2. /\ view'[t].seen = view[t].seen /\ view'[t].copy = view[t].copy
      /\ view'[t].todo \subseteq view[t].todo
  BY <1>1 DEF Shapes, View
<1>3. \A u \in Tasks \ {t} : view'[u] = view[u]
  BY <1>1 DEF Shapes
<1>4. /\ seen \in {"unlisted", "missing", "ready"}
      /\ seen = "ready" => create[a] = "landed"
      /\ seen = "unlisted" => current.status = "preparing"
  BY <1>1 DEF Use, Answered, Shapes, View
<1>5. record[a].status \in {"closing", "closed"} => current.status = record[a].status
  BY DEF LosesRecord, Overwrites
<1> HIDE DEF current, seen
<1>6. /\ new.status = "ready" => seen = "ready"
      /\ current.status \in {"closing", "closed"} /\ seen # "unlisted" =>
           new.status = current.status
  <2>1. CASE seen = "unlisted"
    <3>1. current \in Record
      BY DEF current, Shapes, View
    <3> QED BY <2>1, <3>1 DEF Merged, Record
  <2>2. CASE seen # "unlisted"
    BY <1>4, <2>2 DEF Merged, LocalPending
  <2> QED BY <2>1, <2>2
<1> HIDE DEF new
<1>7. record'[a] = new /\ \A b \in Account \ {a} : record'[b] = record[b]
  BY <1>1 DEF Shapes
<1>8. \A b \in Account : (InHand(b)' <=> InHand(b)) /\ (Closing(b)' <=> Closing(b))
  BY <1>1 DEF InHand, Closing, At
<1>9. Keeps
  BY <1>1, <1>4, <1>5, <1>6, <1>7, <1>8 DEF Keeps
<1>10. \A b \in view[t].todo :
         view[t].seen[b] = "unlisted" => view[t].copy[b].status = "preparing"
  BY <1>1 DEF Use, Answered
<1> QED BY <1>1, <1>2, <1>3, <1>9, <1>10, UseSync

\* Every step of a refresh keeps the invariant.
LEMMA RefreshStepUse ==
  ASSUME Shapes, Use, NEW t \in Tasks, RefreshStep(t), ~LosesRecord
  PROVE  Use'
<1>1. CASE SyncSave(t)
  BY <1>1, GoOnUse DEF SyncSave, At, locals
<1>2. CASE Fallback(t)
  BY <1>2, GoOnUse DEF Fallback, At, locals
<1>3. CASE SyncUpsert(t)
  <2>1. /\ pc[t] = "loaded" /\ pc' = [pc EXCEPT ![t] = "writing"]
        /\ view' = [view EXCEPT ![t].names = index]
        /\ UNCHANGED <<chain, record, fresh, submitted, hand>>
    BY <1>3 DEF SyncUpsert, At, GoTo, device, locals
  <2>2. /\ view'[t].seen = view[t].seen /\ view'[t].copy = view[t].copy
        /\ view'[t].todo = view[t].todo /\ pc'[t] = "writing"
    BY <2>1 DEF Shapes, View
  <2>3. \A u \in Tasks \ {t} : pc'[u] = pc[u] /\ view'[u] = view[u]
    BY <2>1 DEF Shapes
  <2>4. \A a \in Account : InHand(a) => InHand(a)'
    BY <2>1, <2>3 DEF InHand, At, Tasks
  <2>5. Keeps
    BY <2>1, <2>4, KeepsLoad
  <2>6. \A a \in view[t].todo :
          view[t].seen[a] = "unlisted" => view[t].copy[a].status = "preparing"
    BY <2>1 DEF Use, Answered
  <2> QED BY <2>1, <2>2, <2>3, <2>5, <2>6, UseSync DEF chain
<1> QED BY <1>1, <1>2, <1>3, ReadUse, SyncLoadUse, SyncWriteUse DEF RefreshStep

(***************************************************************************)
(* A preparation touches records of its own accounts.                      *)
(***************************************************************************)
LEMMA UsePrepare ==
  ASSUME Use, Keeps, Own',
         \A u \in {"poll", "reclaim"} : pc'[u] = pc[u] /\ view'[u] = view[u] /\ hand'[u] = hand[u],
         pc'["prepare"] \notin {"loaded", "writing"},
         \A a \in Account :
           view'["prepare"].seen[a] = "ready" => view["prepare"].seen[a] = "ready"
  PROVE  Use'
<1>1. Told'
  BY DEF Use, Told, Keeps
<1>2. Answered'
  BY DEF Use, Answered, Keeps, Tasks
<1>3. Selected'
  BY DEF Use, Selected
<1> QED BY <1>1, <1>2, <1>3 DEF Use

\* What every step of a preparation leaves alone.
LEMMA PrepareFrame ==
  ASSUME Shapes, PrepareStep
  PROVE  /\ \A u \in {"poll", "reclaim"} :
              pc'[u] = pc[u] /\ view'[u] = view[u] /\ hand'[u] = hand[u]
         /\ close' = close
         /\ \A a \in Account : (InHand(a)' <=> InHand(a)) /\ (Closing(a)' <=> Closing(a))
<1>1. \A u \in {"poll", "reclaim"} :
        pc'[u] = pc[u] /\ view'[u] = view[u] /\ hand'[u] = hand[u]
  BY DEF PrepareStep, PrepareNothing, EndPrepare, PrepareGenerate, PrepareIndex, PrepareRequest,
         PrepareRefused, PrepareNote, PrepareThrows, PrepareWaited, Refresh, PrepareUndo,
         PrepareUndone, PrepareBroadcast, Shapes, Tasks, GoTo, locals
<1>2. close' = close
  BY DEF PrepareStep, PrepareNothing, EndPrepare, PrepareGenerate, PrepareIndex, PrepareRequest,
         PrepareRefused, PrepareNote, PrepareThrows, PrepareWaited, PrepareUndo,
         PrepareUndone, PrepareBroadcast, chain
<1> QED BY <1>1, <1>2 DEF InHand, Closing, At

\* A preparation's step at its start, at its end or after a failure.
LEMMA PrepareLeaves ==
  ASSUME Shapes, Preparing, Use, ~LosesRecord,
         PrepareNothing \/ PrepareThrows \/ PrepareRefused \/ PrepareUndo \/ PrepareUndone
  PROVE  Use'
<1> USE DEF At, GoTo
<1>0. PrepareStep
  BY DEF PrepareStep
<1>1. /\ \E l \in {"idle", "undo", "undoing"} : pc' = [pc EXCEPT !["prepare"] = l]
      /\ \/ view'["prepare"] = view["prepare"]
         \/ view'["prepare"].seen = NoView.seen
  BY DEF PrepareNothing, PrepareUndone, EndPrepare, PrepareThrows, PrepareRefused, PrepareUndo,
         Shapes, Tasks, NoView
<1>2. pc'["prepare"] \in {"idle", "undo", "undoing"}
  BY <1>1 DEF Shapes, Tasks
<1>3. Leaves("prepare")
  BY <1>0, <1>1, <1>2, PrepareFrame DEF Leaves, Past, NoView, Tasks
<1>4. \A a \in Account : create[a] = "landed" => create'[a] = "landed"
  <2>1. CASE PrepareThrows
    <3>1. pc["prepare"] = "broadcast"
          /\ \A a \in view["prepare"].todo : a \in fresh \ submitted /\ create[a] = "none"
      BY <2>1 DEF PrepareThrows, Preparing, Use, Own
    <3>2. \/ create' = create
          \/ \E a \in view["prepare"].todo : create' = [create EXCEPT ![a] = "sent"]
      BY <2>1 DEF PrepareThrows
    <3> QED BY <3>1, <3>2 DEF Shapes
  <2>2. CASE ~PrepareThrows
    BY <2>2 DEF PrepareNothing, PrepareUndone, PrepareRefused, PrepareUndo, chain
  <2> QED BY <2>1, <2>2
<1>5. \A a \in Account :
        /\ record'[a].status = "ready" => record[a].status = "ready"
        /\ record[a].status \in {"closing", "closed"} => record'[a].status = record[a].status
  <2>1. CASE PrepareUndo
    <3>1. \A a \in Account : record'[a] = IF a \in fresh \ submitted THEN NoRecord ELSE record[a]
      BY <2>1 DEF PrepareUndo
    <3>2. \A a \in fresh \ submitted :
            a \in Account /\ record[a].status \notin {"closing", "closed"}
      BY <2>1 DEF LosesRecord, Overwrites, Shapes
    <3> QED BY <3>1, <3>2 DEF NoRecord
  <2>2. CASE PrepareUndone
    BY <2>2, LoadKeeps DEF PrepareUndone
  <2>3. CASE ~PrepareUndo /\ ~PrepareUndone
    BY <2>3 DEF PrepareNothing, PrepareThrows, PrepareRefused, device
  <2> QED BY <2>1, <2>2, <2>3
<1>6. Keeps
  BY <1>0, <1>4, <1>5, PrepareFrame DEF Keeps
<1> QED BY <1>3, <1>6, UseLeaves DEF Tasks

\* Every step of a preparation that overwrites nothing keeps the invariant.
LEMMA PrepareUse ==
  ASSUME Shapes, Preparing, Use, PrepareStep, ~LosesRecord
  PROVE  Use'
<1> USE DEF At, GoTo
<1>1. CASE PrepareNothing \/ PrepareThrows \/ PrepareRefused \/ PrepareUndo \/ PrepareUndone
  BY <1>1, PrepareLeaves
<1>2. CASE PrepareWaited
  BY <1>2, RefreshUse DEF PrepareWaited, Tasks
<1>3. CASE PrepareGenerate
  <2>1. PICK keys \in SUBSET Unused :
          /\ fresh' = keys /\ submitted' = {}
          /\ record' = [a \in Account |->
               IF a \in keys THEN Created("preparing", "none") ELSE record[a]]
          /\ view' = [view EXCEPT !["prepare"] = [NoView EXCEPT !.names = index \cup keys]]
    BY <1>3 DEF PrepareGenerate
  <2>2. pc'["prepare"] = "indexing" /\ UNCHANGED chain /\ view'["prepare"].seen = NoView.seen
    BY <1>3, <2>1 DEF PrepareGenerate, Shapes, Tasks, NoView
  <2>3. \A a \in keys : a \in Account /\ create[a] = "none"
    BY DEF Unused
  <2>4. Own'
    BY <2>1, <2>2, <2>3 DEF Own, chain
  <2>5. \A a \in keys : ~Closing(a)
    BY <2>3 DEF Use, Told, Closing
  <2>6. Keeps
    BY <2>1, <2>2, <2>5, PrepareFrame DEF Keeps, chain, Created
  <2> QED BY <2>2, <2>4, <2>6, PrepareFrame, UsePrepare DEF NoView
<1>4. CASE PrepareIndex
  <2>1. /\ pc["prepare"] = "indexing" /\ pc'["prepare"] = "request"
        /\ Load(view["prepare"].names, record)
        /\ UNCHANGED <<chain, view, fresh, submitted>>
    BY <1>4 DEF PrepareIndex, Shapes, Tasks, locals
  <2>2. Keeps
    BY <2>1, PrepareFrame, KeepsLoad
  <2>3. Own'
    BY <2>1 DEF Use, Own, chain
  <2> QED BY <2>1, <2>2, <2>3, PrepareFrame, UsePrepare
<1>5. CASE PrepareRequest
  <2>1. /\ pc["prepare"] = "request" /\ pc'["prepare"] = "broadcast"
        /\ view'["prepare"].seen = NoView.seen
        /\ UNCHANGED <<chain, record, fresh, submitted>>
    BY <1>5 DEF PrepareRequest, Shapes, Tasks, NoView, device, locals
  <2>2. Keeps
    BY <2>1, PrepareFrame, KeepsLoad
  <2>3. Own'
    BY <2>1 DEF Use, Own, chain
  <2> QED BY <2>1, <2>2, <2>3, PrepareFrame, UsePrepare DEF NoView
<1>6. ASSUME NEW a \in Account, PrepareBroadcast(a) PROVE Use'
  <2>1. /\ pc["prepare"] = "broadcast" /\ pc'["prepare"] = "note"
        /\ a \in fresh /\ a \notin submitted /\ submitted' = submitted \cup {a}
        /\ create' = [create EXCEPT ![a] = "sent"]
        /\ UNCHANGED <<record, fresh>>
        /\ view'["prepare"].seen = view["prepare"].seen
    BY <1>6 DEF PrepareBroadcast, Preparing, Shapes, Tasks, View, device
  <2>2. create[a] = "none"
    BY <2>1 DEF Use, Own
  <2>3. Keeps
    BY <2>1, <2>2, PrepareFrame DEF Keeps, Shapes
  <2>4. Own'
    <3>1. \A b \in fresh \ submitted' : create'[b] = "none"
      BY <2>1 DEF Use, Own, Shapes
    <3> QED BY <2>1, <3>1 DEF Own
  <2> QED BY <2>1, <2>3, <2>4, PrepareFrame, UsePrepare
<1>7. CASE PrepareNote
  <2> DEFINE a == hand["prepare"].account
  <2>1. /\ pc["prepare"] = "note" /\ pc'["prepare"] = "broadcast"
        /\ record' = [record EXCEPT ![a] = Created("settling", "create")]
        /\ UNCHANGED <<chain, view, fresh, submitted>>
    BY <1>7 DEF PrepareNote, Save, Shapes, Tasks
  <2>2. a \in Account => record[a].status \notin {"closing", "closed"}
    BY <1>7 DEF LosesRecord, Overwrites
  <2> HIDE DEF a
  <2>3. \A b \in Account : b # a => record'[b] = record[b]
    BY <2>1 DEF Shapes
  <2>4. a \in Account => record'[a].status = "settling"
    BY <2>1 DEF Shapes, Created
  <2>5. Keeps
    BY <2>1, <2>2, <2>3, <2>4, PrepareFrame DEF Keeps, chain
  <2>6. Own'
    BY <2>1 DEF Use, Own, chain
  <2> QED BY <2>1, <2>5, <2>6, PrepareFrame, UsePrepare
<1> QED BY <1>1, <1>2, <1>3, <1>4, <1>5, <1>6, <1>7 DEF PrepareStep

(***************************************************************************)
(* A reclaim says of what it closed that it did, before it goes on.        *)
(***************************************************************************)
LEMMA UseReclaim ==
  ASSUME Use, Told', Selected',
         \A u \in {"poll", "prepare"} : pc'[u] = pc[u] /\ view'[u] = view[u],
         UNCHANGED <<create, fresh, submitted>>, pc'["reclaim"] \notin {"loaded", "writing"},
         view'["reclaim"].seen = view["reclaim"].seen
  PROVE  Use'
<1>1. Answered'
  BY DEF Use, Answered, Tasks
<1>2. Own'
  BY DEF Use, Own
<1> QED BY <1>1, <1>2 DEF Use

\* What every step of a reclaim leaves alone.
LEMMA ReclaimFrame ==
  ASSUME Shapes, ReclaimStep
  PROVE  /\ \A u \in {"poll", "prepare"} :
              pc'[u] = pc[u] /\ view'[u] = view[u] /\ hand'[u] = hand[u]
         /\ UNCHANGED <<create, owed, fresh, submitted>>
<1>1. pc'["poll"] = pc["poll"] /\ pc'["prepare"] = pc["prepare"]
  BY DEF ReclaimStep, ReclaimNothing, EndReclaim, ReclaimSelect, ReclaimNote, ReclaimWithout,
         ReclaimConfirmed, Waiting, Marked, ReclaimUnconfirmed, ReclaimRejected, ReclaimMarked,
         ReclaimBroadcast, ReclaimThrows, ReclaimMark, Refresh, Shapes, Tasks, GoTo, locals
<1>3. view'["poll"] = view["poll"] /\ view'["prepare"] = view["prepare"]
  BY DEF ReclaimStep, ReclaimNothing, EndReclaim, ReclaimSelect, ReclaimNote, ReclaimWithout,
         ReclaimConfirmed, Waiting, Marked, ReclaimUnconfirmed, ReclaimRejected, ReclaimMarked,
         ReclaimBroadcast, ReclaimThrows, ReclaimMark, Refresh, Shapes, Tasks, GoTo, locals
<1>4. hand'["poll"] = hand["poll"] /\ hand'["prepare"] = hand["prepare"]
  BY DEF ReclaimStep, ReclaimNothing, EndReclaim, ReclaimSelect, ReclaimNote, ReclaimWithout,
         ReclaimConfirmed, Waiting, Marked, ReclaimUnconfirmed, ReclaimRejected, ReclaimMarked,
         ReclaimBroadcast, ReclaimThrows, ReclaimMark, Refresh, Shapes, Tasks, GoTo, locals
<1>2. UNCHANGED <<create, owed, fresh, submitted>>
  BY DEF ReclaimStep, ReclaimNothing, EndReclaim, ReclaimSelect, ReclaimNote, ReclaimWithout,
         ReclaimConfirmed, Waiting, Marked, ReclaimUnconfirmed, ReclaimRejected, ReclaimMarked,
         ReclaimBroadcast, ReclaimThrows, ReclaimMark, chain, device, locals
<1> QED BY <1>1, <1>2, <1>3, <1>4

\* Marking one record leaves everything else.
LEMMA MarkFrame ==
  ASSUME Shapes, NEW a \in Account, ReclaimMark(a)
  PROVE  /\ pc["reclaim"] \in {"closed", "error"} /\ pc' = pc /\ close' = close
         /\ view'["reclaim"].seen = view["reclaim"].seen
         /\ view'["reclaim"].todo = view["reclaim"].todo \ {a}
BY DEF ReclaimMark, Shapes, Tasks, View, chain

\* A reclaim's step with nothing in hand, and nothing selected after it.
LEMMA ReclaimLeaves ==
  ASSUME Shapes, Use, ~LosesRecord,
         \/ ReclaimNothing \/ ReclaimConfirmed \/ ReclaimUnconfirmed \/ ReclaimRejected
         \/ At("reclaim", "error") /\ ReclaimMarked
         \/ \E a \in Account : ReclaimMark(a)
  PROVE  Use'
<1> USE DEF At, GoTo
<1>0. ReclaimStep
  BY DEF ReclaimStep
<1>1. /\ pc["reclaim"] # "note"
      /\ pc'["reclaim"] \in {"idle", "closed", "error"} /\ close' = close
      /\ \/ view'["reclaim"].seen = view["reclaim"].seen
         \/ view'["reclaim"].seen = NoView.seen
  <2>1. CASE ReclaimNothing \/ ReclaimUnconfirmed
    BY <2>1 DEF ReclaimNothing, ReclaimUnconfirmed, EndReclaim, Waiting, Shapes, Tasks, chain
  <2>2. CASE ReclaimConfirmed \/ ReclaimRejected
    <3>1. PICK status \in {"closed", "error"} : Marked(status) /\ Waiting
      BY <2>2 DEF ReclaimConfirmed, ReclaimRejected
    <3>2. /\ pc["reclaim"] = "broadcast" /\ pc' = [pc EXCEPT !["reclaim"] = status]
          /\ UNCHANGED chain
          /\ \E v : v.seen = NoView.seen /\ view' = [view EXCEPT !["reclaim"] = v]
      BY <3>1 DEF Marked, Waiting, NoView
    <3> QED BY <3>2 DEF Shapes, Tasks, chain
  <2>3. CASE At("reclaim", "error") /\ ReclaimMarked
    BY <2>3 DEF ReclaimMarked, EndReclaim, Shapes, Tasks, chain
  <2>4. CASE \E a \in Account : ReclaimMark(a)
    BY <2>4, MarkFrame
  <2> QED BY <2>1, <2>2, <2>3, <2>4
<1>2. Leaves("reclaim")
  BY <1>0, <1>1, ReclaimFrame DEF Leaves, Past, NoView, Tasks
<1>3. \A a \in Account : ~InHand(a) /\ (Closing(a)' <=> Closing(a))
  BY <1>1 DEF InHand, Closing
<1>4. ASSUME NEW a \in Account, ReclaimMark(a) PROVE Keeps
  <2> DEFINE r == view["reclaim"].copy[a]
  <2>1. /\ record' = [record EXCEPT ![a] =
              IF At("reclaim", "error") THEN [r EXCEPT !.status = "error"]
              ELSE [r EXCEPT !.status = "closed", !.lamports = "zero", !.tx = FALSE, !.sig = "none"]]
        /\ pc["reclaim"] \in {"closed", "error"}
    BY <1>4 DEF ReclaimMark, Save
  <2>6. r \in Record
    BY DEF Shapes, View, Tasks
  <2> HIDE DEF r
  <2>2. /\ record'[a].status = IF At("reclaim", "error") THEN "error" ELSE "closed"
        /\ \A b \in Account \ {a} : record'[b] = record[b]
    BY <2>1, <2>6 DEF Shapes, Record
  <2>3. At("reclaim", "error") => ~Closing(a)'
    BY <1>4 DEF LosesRecord, LosesClose
  <2>4. UNCHANGED <<create, close>>
    BY <1>0, <1>1, ReclaimFrame
  <2>5. \A b \in Account :
          /\ record'[b].status = "ready" => record[b].status = "ready"
          /\ Closing(b)' /\ record[b].status \in {"closing", "closed"} =>
               record'[b].status \in {"closing", "closed"}
    BY <2>2, <2>3
  <2> QED BY <1>3, <2>4, <2>5 DEF Keeps
<1>5. ASSUME ~\E a \in Account : ReclaimMark(a) PROVE Keeps
  <2>1. Load(index, record) \/ record' = record
    BY <1>5 DEF ReclaimNothing, ReclaimConfirmed, ReclaimUnconfirmed, ReclaimRejected, Marked,
                ReclaimMarked, device
  <2> QED BY <1>0, <1>1, <1>3, <2>1, ReclaimFrame, KeepsLoad DEF chain
<1> QED BY <1>2, <1>4, <1>5, UseLeaves DEF Tasks

\* Every step of a reclaim that loses no close keeps the invariant.
LEMMA ReclaimUse ==
  ASSUME Shapes, Use, ReclaimStep, ~LosesRecord
  PROVE  Use'
<1> USE DEF At, GoTo
<1>1. CASE \/ ReclaimNothing \/ ReclaimConfirmed \/ ReclaimUnconfirmed \/ ReclaimRejected
           \/ pc["reclaim"] = "error" /\ ReclaimMarked
           \/ \E a \in Account : ReclaimMark(a)
  BY <1>1, ReclaimLeaves
<1>2. CASE ReclaimWithout \/ (pc["reclaim"] = "closed" /\ ReclaimMarked)
  <2>1. pc["reclaim"] # "note" /\ Refresh("reclaim", "idle") /\ UNCHANGED chain
    BY <1>2 DEF ReclaimWithout, ReclaimMarked
  <2> QED BY <2>1, ReclaimFrame, RefreshUse DEF Tasks
<1>3. CASE ReclaimSelect
  <2>1. /\ pc["reclaim"] = "select" /\ pc'["reclaim"] = "broadcast"
        /\ UNCHANGED <<close, record>>
        /\ view'["reclaim"].copy = view["reclaim"].copy
        /\ view'["reclaim"].seen = view["reclaim"].seen
        /\ view'["reclaim"].todo =
             {a \in view["reclaim"].known : Reclaimable(view["reclaim"].copy[a])}
    BY <1>3 DEF ReclaimSelect, Shapes, Tasks, View, chain, device
  <2>2. Told'
    BY <2>1, ReclaimFrame DEF Use, Told, InHand, Closing
  <2>3. Selected'
    BY <2>1 DEF Selected
  <2> QED BY <2>1, <2>2, <2>3, ReclaimFrame, UseReclaim
<1>4. ASSUME NEW a \in Account, ReclaimBroadcast(a) PROVE Use'
  <2>1. /\ pc["reclaim"] = "broadcast" /\ pc'["reclaim"] = "note"
        /\ a \in view["reclaim"].todo /\ create[a] = "landed" /\ record' = record
        /\ view'["reclaim"].copy = view["reclaim"].copy
        /\ view'["reclaim"].seen = view["reclaim"].seen
        /\ view'["reclaim"].todo = view["reclaim"].todo \ {a}
        /\ close' = [close EXCEPT ![a] = "sent"]
        /\ hand'["reclaim"] = [account |-> a, status |-> "closing"]
    BY <1>4 DEF ReclaimBroadcast, OnChain, Shapes, Tasks, View, device
  <2>2. /\ InHand(a)'
        /\ \A b \in Account \ {a} : close'[b] = close[b] /\ (Closing(b)' <=> Closing(b))
        /\ \A b \in Account : ~InHand(b)
    BY <2>1 DEF InHand, Closing, Shapes
  <2>3. Told'
    BY <2>1, <2>2, ReclaimFrame DEF Use, Told
  <2>4. Selected'
    BY <2>1 DEF Use, Selected
  <2> QED BY <2>1, <2>3, <2>4, ReclaimFrame, UseReclaim
<1>5. ASSUME NEW a \in Account, ReclaimThrows(a) PROVE Use'
  <2>1. /\ pc["reclaim"] = "broadcast" /\ pc'["reclaim"] = "note"
        /\ a \in view["reclaim"].todo /\ record' = record
        /\ view'["reclaim"].copy = view["reclaim"].copy
        /\ view'["reclaim"].seen = view["reclaim"].seen
        /\ view'["reclaim"].todo = view["reclaim"].todo \ {a}
        /\ hand'["reclaim"] = [account |-> a, status |-> "error"]
    BY <1>5 DEF ReclaimThrows, Shapes, Tasks, View, device
  <2>2. close' = close
    <3>1. ~Closing(a)'
      BY <1>5 DEF LosesRecord, LosesClose
    <3> QED BY <1>5, <3>1 DEF ReclaimThrows, Closing, Shapes
  <2>3. Told'
    BY <2>1, <2>2, ReclaimFrame DEF Use, Told, InHand, Closing
  <2>4. Selected'
    BY <2>1 DEF Use, Selected
  <2> QED BY <2>1, <2>3, <2>4, ReclaimFrame, UseReclaim
<1>6. CASE ReclaimNote
  <2> DEFINE a == hand["reclaim"].account
             r == view["reclaim"].copy[a]
             status == hand["reclaim"].status
  <2>1. /\ pc["reclaim"] = "note" /\ pc'["reclaim"] = "broadcast"
        /\ UNCHANGED <<close, view>>
        /\ record' = [record EXCEPT ![a] =
                        [r EXCEPT !.status = status, !.sig = IF a \in closes THEN "close" ELSE @]]
    BY <1>6 DEF ReclaimNote, Save, Shapes, Tasks, chain
  <2>2. a \in Account /\ status \in {"closing", "error"}
    BY <2>1 DEF Use, Selected
  <2>3. r \in Record
    BY <2>2 DEF Shapes, View, Tasks
  <2>4. record[a].status \notin {"closing", "closed"}
    BY <1>6, <2>2 DEF LosesRecord, Overwrites
  <2>5. \A b \in Account : InHand(b) <=> b = a /\ status = "closing"
    <3>1. hand["reclaim"] = [account |-> a, status |-> status]
      BY DEF Shapes, Tasks
    <3> QED BY <2>1, <3>1 DEF InHand
  <2> HIDE DEF a, r, status
  <2>6. record'[a].status = status /\ \A b \in Account : b # a => record'[b] = record[b]
    BY <2>1, <2>2, <2>3 DEF Shapes, Record
  <2>7. \A b \in Account : ~InHand(b)' /\ (Closing(b)' <=> Closing(b))
    BY <2>1 DEF InHand, Closing
  <2>8. Told'
    <3> SUFFICES ASSUME NEW b \in Account
                 PROVE  /\ close[b] # "none" => create[b] = "landed"
                        /\ record'[b].status = "ready" => create[b] = "landed"
                        /\ Closing(b) => record'[b].status \in {"closing", "closed"}
      BY <2>1, <2>7, ReclaimFrame DEF Told
    <3>1. CASE b = a
      BY <2>2, <2>4, <2>5, <2>6, <3>1 DEF Use, Told
    <3>2. CASE b # a
      BY <2>5, <2>6, <3>2 DEF Use, Told
    <3> QED BY <3>1, <3>2
  <2>9. Selected'
    BY <2>1 DEF Use, Selected
  <2> QED BY <2>1, <2>8, <2>9, ReclaimFrame, UseReclaim
<1>7. ReclaimMarked => pc["reclaim"] \in {"closed", "error"}
  BY DEF ReclaimMarked
<1> QED BY <1>1, <1>2, <1>3, <1>4, <1>5, <1>6, <1>7 DEF ReclaimStep

(***************************************************************************)
(* A payment locks a slot that is offered, and the slot stays locked until *)
(* it settles; a slot being closed is shown so until it is marked.         *)
(***************************************************************************)
Locked == \A a \in owed : record[a].status = "locked"

Reclaiming == {"broadcast", "note", "closed", "error"}
Noted ==
  /\ pc["reclaim"] \notin Reclaiming => closes = {}
  /\ pc["reclaim"] \in {"broadcast", "note"} =>
       \A a \in closes : InHand(a) \/ record[a].status = "closing"
  /\ pc["reclaim"] \in {"closed", "error"} =>
       \A a \in view["reclaim"].todo : record[a].status = "closing"

\* Payments keep the invariant.
LEMMA PayUse ==
  ASSUME Shapes, Use, Locked, PayStep
  PROVE  Use'
<1>1. PICK a \in Account : PayLock(a) \/ PaySettled(a)
  BY DEF PayStep
<1>2. Stays /\ UNCHANGED <<create, close>>
  BY <1>1 DEF PayLock, PaySettled, Stays, chain, locals
<1>3. \A b \in Account : (InHand(b)' <=> InHand(b)) /\ (Closing(b)' <=> Closing(b))
  BY <1>2 DEF Stays, InHand, At, Closing
<1>4. CASE PayLock(a)
  <2>1. /\ record[a].status = "ready"
        /\ record' = [record EXCEPT ![a] = [record[a] EXCEPT !.status = "locked", !.tx = TRUE]]
    BY <1>4 DEF PayLock, Offered, Save
  <2>2. record'[a].status = "locked" /\ \A b \in Account \ {a} : record'[b] = record[b]
    BY <2>1 DEF Shapes, Record
  <2>3. Keeps
    BY <1>2, <1>3, <2>1, <2>2 DEF Keeps
  <2> QED BY <1>2, <2>3, UseStays
<1>5. CASE PaySettled(a)
  <2>1. /\ record[a].status = "locked"
        /\ record' = [record EXCEPT ![a].status =
             IF a \in index /\ record[a].legible /\ record[a].tx THEN "settled" ELSE @]
    BY <1>5 DEF PaySettled, Locked
  <2>2. /\ record'[a].status \in {"locked", "settled"}
        /\ \A b \in Account \ {a} : record'[b] = record[b]
    BY <2>1 DEF Shapes, Record
  <2>3. Keeps
    BY <1>2, <1>3, <2>1, <2>2 DEF Keeps
  <2> QED BY <1>2, <2>3, UseStays
<1> QED BY <1>1, <1>4, <1>5

\* A kill leaves what was persisted, and no close in hand.
LEMMA CrashUse ==
  ASSUME Shapes, Use, Crash, ~LosesRecord
  PROVE  Use'
<1>1. /\ \A t \in Tasks : pc'[t] = "idle" /\ view'[t] = NoView
      /\ UNCHANGED <<create, close, record>>
  BY DEF Crash, chain, device
<1>2. \A a \in Account : (Closing(a)' <=> Closing(a)) /\ (InHand(a) => ~Closing(a))
  BY <1>1 DEF LosesRecord, LosesClose, Closing
<1>3. Told'
  BY <1>1, <1>2 DEF Use, Told
<1>4. Answered' /\ Own' /\ Selected'
  BY <1>1 DEF Answered, Own, Selected, NoView, Tasks
<1> QED BY <1>3, <1>4 DEF Use

\* Every step that loses no record keeps the invariant.
LEMMA UseStep ==
  ASSUME Shapes, Preparing, Use, Locked, [Next]_vars, ~LosesRecord
  PROVE  Use'
<1>1. CASE Next
  BY <1>1, ChainUse, StartUse, RefreshStepUse, PrepareUse, ReclaimUse, PayUse, CrashUse
     DEF Next, Tasks
<1>2. CASE UNCHANGED vars
  BY <1>2 DEF vars, chain, device, locals, Use, Told, Answered, Own, Selected, Closing,
              InHand, At
<1> QED BY <1>1, <1>2

\* A step leaves a locked record, or one being closed, unless it is over.
LEMMA HeldKept ==
  ASSUME Shapes, Preparing, Use, [Next]_vars, ~LosesRecord, NEW a \in Account,
         record[a].status \in {"locked", "closing"}
  PROVE  record'[a].status = record[a].status \/ ReclaimMark(a) \/ PaySettled(a)
<1>1. CASE ChainStep \/ Crash \/ UNCHANGED vars
  BY <1>1 DEF ChainStep, CreateDecided, CloseDecided, CloseFails, Crash, vars, device
<1>2. ASSUME NEW t \in Tasks, NEW next, Start(t, next) PROVE record'[a].status = record[a].status
  BY <1>2, LoadKeeps DEF Start, Refresh
<1>3. ASSUME NEW t \in Tasks, RefreshStep(t) PROVE record'[a].status = record[a].status
  <2>1. CASE Read(t) \/ ReadFails(t) \/ SyncIndex(t) \/ SyncUpsert(t)
    BY <2>1 DEF Read, ReadFails, SyncIndex, SyncUpsert, device
  <2>2. CASE Fallback(t) \/ SyncSave(t) \/ SyncLoad(t)
    BY <2>2, LoadKeeps DEF Fallback, SyncSave, SyncLoad
  <2>3. ASSUME NEW b \in Account, SyncWrite(t, b) PROVE record'[a].status = record[a].status
    <3> DEFINE seen == view[t].seen[b]
               current == view[t].copy[b]
    <3>1. /\ record' = [record EXCEPT ![b] = Merged(current, seen)]
          /\ pc[t] = "writing" /\ b \in view[t].todo
      BY <2>3 DEF SyncWrite, At
    <3>2. CASE b = a
      <4>1. current.status = record[a].status
        BY <2>3, <3>2 DEF LosesRecord, Overwrites
      <4>2. seen \in {"missing", "ready"}
        BY <3>1, <3>2, <4>1 DEF Use, Answered, Shapes, View
      <4> HIDE DEF current, seen
      <4>3. Merged(current, seen).status = current.status
        BY <4>1, <4>2 DEF Merged, LocalPending
      <4> QED BY <3>1, <3>2, <4>1, <4>3 DEF Shapes
    <3>3. CASE b # a
      BY <3>1, <3>3 DEF Shapes
    <3> QED BY <3>2, <3>3
  <2> QED BY <1>3, <2>1, <2>2, <2>3 DEF RefreshStep
<1>4. CASE PrepareStep
  <2>1. CASE PrepareNothing \/ PrepareRequest \/ PrepareRefused \/ PrepareThrows
    BY <2>1 DEF PrepareNothing, PrepareRequest, PrepareRefused, PrepareThrows, device
  <2>2. CASE PrepareIndex \/ PrepareWaited \/ PrepareUndone
    BY <2>2, LoadKeeps DEF PrepareIndex, PrepareWaited, Refresh, PrepareUndone
  <2>3. ASSUME NEW b \in Account, PrepareBroadcast(b) PROVE record' = record
    BY <2>3 DEF PrepareBroadcast, device
  <2>4. CASE PrepareGenerate
    <3>1. PICK keys \in SUBSET Unused :
            record' = [b \in Account |->
              IF b \in keys THEN Created("preparing", "none") ELSE record[b]]
      BY <2>4 DEF PrepareGenerate
    <3>2. a \notin keys
      BY DEF Unused, NoRecord
    <3> QED BY <3>1, <3>2
  <2>5. CASE PrepareNote
    <3>1. hand["prepare"].account # a
      BY <2>5 DEF LosesRecord, Overwrites
    <3> QED BY <2>5, <3>1 DEF PrepareNote, Save, Shapes
  <2>6. CASE PrepareUndo
    <3>1. a \notin fresh \ submitted
      BY <2>6 DEF LosesRecord, Overwrites
    <3> QED BY <2>6, <3>1 DEF PrepareUndo
  <2> QED BY <1>4, <2>1, <2>2, <2>3, <2>4, <2>5, <2>6 DEF PrepareStep
<1>5. CASE ReclaimStep
  <2>1. CASE ReclaimNothing \/ ReclaimSelect \/ ReclaimConfirmed \/ ReclaimRejected
    BY <2>1 DEF ReclaimNothing, ReclaimSelect, ReclaimConfirmed, ReclaimRejected, Marked, device
  <2>2. CASE ReclaimWithout \/ ReclaimUnconfirmed \/ ReclaimMarked
    BY <2>2, LoadKeeps DEF ReclaimWithout, ReclaimUnconfirmed, ReclaimMarked, Refresh, device
  <2>3. ASSUME NEW b \in Account, ReclaimBroadcast(b) \/ ReclaimThrows(b) PROVE record' = record
    BY <2>3 DEF ReclaimBroadcast, ReclaimThrows, device
  <2>4. CASE ReclaimNote
    <3>1. hand["reclaim"].account # a
      BY <2>4 DEF LosesRecord, Overwrites
    <3> QED BY <2>4, <3>1 DEF ReclaimNote, Save, Shapes
  <2>5. ASSUME NEW b \in Account, ReclaimMark(b), b # a PROVE record'[a] = record[a]
    BY <2>5 DEF ReclaimMark, Save, Shapes
  <2> QED BY <1>5, <2>1, <2>2, <2>3, <2>4, <2>5 DEF ReclaimStep
<1>6. CASE PayStep
  <2>1. ASSUME NEW b \in Account, PayLock(b) PROVE record'[a] = record[a]
    <3>1. record[b].status = "ready"
      BY <2>1 DEF PayLock, Offered
    <3> QED BY <2>1, <3>1 DEF PayLock, Save, Shapes
  <2>2. ASSUME NEW b \in Account, PaySettled(b), b # a PROVE record'[a] = record[a]
    BY <2>2 DEF PaySettled, Shapes
  <2> QED BY <1>6, <2>1, <2>2 DEF PayStep
<1> QED BY <1>1, <1>2, <1>3, <1>4, <1>5, <1>6 DEF Next, Tasks

\* A refresh is not among the steps of a reclaim that close accounts.
LEMMA RefreshPlaces ==
  ASSUME Shapes, NEW t \in Tasks, RefreshStep(t)
  PROVE  /\ \A u \in Tasks \ {t} : pc'[u] = pc[u] /\ view'[u] = view[u]
         /\ UNCHANGED <<hand, closes>>
         /\ pc[t] \notin Reclaiming /\ pc'[t] \notin Reclaiming
<1> USE DEF At, GoTo
<1>1. pc[t] \in {"read", "answered", "indexed", "loaded", "writing", "fallback"}
  BY DEF RefreshStep, Read, ReadFails, Fallback, SyncIndex, SyncLoad, SyncUpsert, SyncWrite, SyncSave
<1>2. /\ UNCHANGED <<hand, closes>>
      /\ \E v : view' = [view EXCEPT ![t] = v] \/ view' = view
  BY DEF RefreshStep, Read, ReadFails, Fallback, GoOn, SyncIndex, SyncLoad, SyncUpsert, SyncWrite,
         SyncSave, locals
<1>3. \E l \in {"answered", "indexed", "loaded", "writing", "fallback", "idle", "decide", "select"} :
        pc' = [pc EXCEPT ![t] = l] \/ (pc' = pc /\ pc[t] = l)
  <2>1. view[t].next \in {"idle", "decide", "select"}
    BY DEF Shapes, View
  <2> QED BY <2>1 DEF RefreshStep, Read, ReadFails, Fallback, GoOn, SyncIndex, SyncLoad, SyncUpsert,
                      SyncWrite, SyncSave
<1> QED BY <1>1, <1>2, <1>3 DEF Shapes, Reclaiming, Tasks

\* What the reclaim is closing stays noted while it does not move.
LEMMA NotedOther ==
  ASSUME Shapes, Preparing, Use, Locked, Noted, [Next]_vars, ~LosesRecord,
         pc'["reclaim"] = pc["reclaim"], view'["reclaim"] = view["reclaim"],
         hand'["reclaim"] = hand["reclaim"], closes' = closes
  PROVE  Noted'
<1>1. \A a \in Account : InHand(a)' <=> InHand(a)
  BY DEF InHand, At
<1>2. ASSUME NEW a \in Account, record[a].status = "closing" PROVE record'[a].status = "closing"
  <2>1. ~PaySettled(a)
    BY <1>2 DEF PaySettled, Locked
  <2>2. ~ReclaimMark(a)
    BY MarkFrame DEF ReclaimMark
  <2> QED BY <1>2, <2>1, <2>2, HeldKept
<1>3. closes \subseteq Account /\ view["reclaim"].todo \subseteq Account
  BY DEF Shapes, View, Tasks
<1> QED BY <1>1, <1>2, <1>3 DEF Noted

\* A reclaim marks what it noted.
LEMMA NotedReclaim ==
  ASSUME Shapes, Preparing, Use, Locked, Noted, Next, ReclaimStep, ~LosesRecord
  PROVE  Noted'
<1> USE DEF At, GoTo
<1>0. closes \subseteq Account /\ view["reclaim"].todo \subseteq Account
  BY DEF Shapes, View, Tasks
<1>1. CASE ReclaimNothing \/ ReclaimWithout \/ ReclaimUnconfirmed \/ ReclaimMarked
  <2>1. pc'["reclaim"] \in {"idle", "read"}
    BY <1>1 DEF ReclaimNothing, EndReclaim, ReclaimWithout, ReclaimUnconfirmed, ReclaimMarked,
                Refresh, Shapes, Tasks
  <2>2. closes' = {}
    BY <1>1 DEF ReclaimNothing, EndReclaim, ReclaimWithout, ReclaimUnconfirmed, ReclaimMarked,
                locals
  <2> QED BY <2>1, <2>2 DEF Noted, Reclaiming
<1>2. CASE ReclaimSelect
  BY <1>2 DEF ReclaimSelect, Noted, Reclaiming, Shapes, Tasks, locals
<1>3. ASSUME NEW b \in Account, ReclaimBroadcast(b) PROVE Noted'
  <2>1. /\ pc["reclaim"] = "broadcast" /\ pc'["reclaim"] = "note" /\ record' = record
        /\ hand'["reclaim"] = [account |-> b, status |-> "closing"]
        /\ closes' = closes \cup {b}
    BY <1>3 DEF ReclaimBroadcast, Shapes, Tasks, device
  <2>2. InHand(b)' /\ \A a \in Account : ~InHand(a)
    BY <2>1 DEF InHand
  <2> QED BY <1>0, <2>1, <2>2 DEF Noted, Reclaiming
<1>4. ASSUME NEW b \in Account, ReclaimThrows(b) PROVE Noted'
  <2>1. /\ pc["reclaim"] = "broadcast" /\ pc'["reclaim"] = "note" /\ record' = record
        /\ closes' = closes
    BY <1>4 DEF ReclaimThrows, Shapes, Tasks, device
  <2>2. \A a \in Account : ~InHand(a)
    BY <2>1 DEF InHand
  <2> QED BY <1>0, <2>1, <2>2 DEF Noted, Reclaiming
<1>5. CASE ReclaimNote
  <2> DEFINE b == hand["reclaim"].account
             r == view["reclaim"].copy[b]
             status == hand["reclaim"].status
  <2>1. /\ pc["reclaim"] = "note" /\ pc'["reclaim"] = "broadcast" /\ closes' = closes
        /\ record' = [record EXCEPT ![b] =
                        [r EXCEPT !.status = status, !.sig = IF b \in closes THEN "close" ELSE @]]
    BY <1>5 DEF ReclaimNote, Save, Shapes, Tasks
  <2>2. b \in Account
    BY <2>1 DEF Use, Selected
  <2>3. r \in Record
    BY <2>2 DEF Shapes, View, Tasks
  <2>4. record[b].status # "closing"
    BY <1>5, <2>2 DEF LosesRecord, Overwrites
  <2>5. \A a \in Account : InHand(a) => a = b /\ status = "closing"
    BY DEF InHand
  <2> HIDE DEF b, r, status
  <2>6. record'[b].status = status /\ \A a \in Account : a # b => record'[a] = record[a]
    BY <2>1, <2>2, <2>3 DEF Shapes, Record
  <2> QED BY <1>0, <2>1, <2>4, <2>5, <2>6 DEF Noted, Reclaiming
<1>6. CASE ReclaimConfirmed \/ ReclaimRejected
  <2>1. PICK status \in {"closed", "error"} : Marked(status) /\ Waiting
    BY <1>6 DEF ReclaimConfirmed, ReclaimRejected
  <2>2. /\ pc["reclaim"] = "broadcast" /\ pc'["reclaim"] = status /\ record' = record
    BY <2>1 DEF Marked, Waiting, Shapes, Tasks, device
  <2>3. view'["reclaim"].todo \subseteq closes
    BY <2>1 DEF Marked, Shapes, Tasks, NoView
  <2>4. \A a \in Account : ~InHand(a)
    BY <2>2 DEF InHand
  <2> QED BY <1>0, <2>2, <2>3, <2>4 DEF Noted, Reclaiming
<1>7. ASSUME NEW b \in Account, ReclaimMark(b) PROVE Noted'
  <2>1. /\ pc["reclaim"] \in {"closed", "error"} /\ pc' = pc
        /\ view'["reclaim"].todo = view["reclaim"].todo \ {b}
    BY <1>7, MarkFrame
  <2>2. \A a \in Account : a # b => record'[a] = record[a]
    BY <1>7 DEF ReclaimMark, Save, Shapes
  <2> QED BY <1>0, <2>1, <2>2 DEF Noted, Reclaiming
<1> QED BY <1>1, <1>2, <1>3, <1>4, <1>5, <1>6, <1>7 DEF ReclaimStep

\* Every step that loses no record leaves what is being closed noted.
LEMMA NotedStep ==
  ASSUME Shapes, Preparing, Use, Locked, Noted, [Next]_vars, ~LosesRecord
  PROVE  Noted'
<1>1. CASE ChainStep \/ PayStep \/ UNCHANGED vars
  <2>1. UNCHANGED <<pc, view, hand, closes>>
    BY <1>1 DEF ChainStep, CreateDecided, CloseDecided, CloseFails, PayStep, PayLock, PaySettled,
                vars, locals
  <2> QED BY <2>1, NotedOther
<1>2. ASSUME NEW t \in Tasks, NEW next, Start(t, next) PROVE Noted'
  <2>1. /\ pc[t] = "idle" /\ pc' = [pc EXCEPT ![t] = "read"] /\ UNCHANGED <<hand, closes>>
        /\ \E v : view' = [view EXCEPT ![t] = v]
    BY <1>2 DEF Start, MayStart, Busy, At, Refresh, GoTo, locals
  <2>2. CASE t = "reclaim"
    BY <2>1, <2>2 DEF Noted, Reclaiming, Shapes
  <2>3. CASE t # "reclaim"
    BY <2>1, <2>3, NotedOther DEF Shapes, Tasks
  <2> QED BY <2>2, <2>3
<1>3. ASSUME NEW t \in Tasks, RefreshStep(t) PROVE Noted'
  <2>1. CASE t = "reclaim"
    BY <1>3, <2>1, RefreshPlaces DEF Noted, Reclaiming
  <2>2. CASE t # "reclaim"
    BY <1>3, <2>2, RefreshPlaces, NotedOther DEF Tasks
  <2> QED BY <2>1, <2>2
<1>4. CASE PrepareStep
  <2>1. closes' = closes
    BY <1>4 DEF PrepareStep, PrepareNothing, EndPrepare, PrepareGenerate, PrepareIndex,
                PrepareRequest, PrepareRefused, PrepareNote, PrepareThrows, PrepareWaited,
                PrepareUndo, PrepareUndone, PrepareBroadcast, locals
  <2> QED BY <1>4, <2>1, PrepareFrame, NotedOther
<1>5. CASE ReclaimStep /\ Next
  BY <1>5, NotedReclaim
<1>6. CASE Crash
  BY <1>6 DEF Crash, Noted, Reclaiming, Tasks
<1> QED BY <1>1, <1>2, <1>3, <1>4, <1>5, <1>6 DEF Next, Tasks

\* An account comes under a payment when the payment locks it.
LEMMA OwedSince ==
  ASSUME Shapes, [Next]_vars, NEW a \in owed'
  PROVE  a \in owed \/ (a \in Account /\ PayLock(a))
<1>1. ASSUME NEW t \in Tasks, RefreshStep(t) PROVE owed' = owed
  BY <1>1 DEF RefreshStep, Read, ReadFails, Fallback, SyncIndex, SyncLoad, SyncUpsert, SyncWrite,
              SyncSave, device
<1>2. ASSUME NEW t \in Tasks, NEW next, Start(t, next) PROVE owed' = owed
  BY <1>2 DEF Start
<1>3. PrepareStep => owed' = owed
  BY DEF PrepareStep, PrepareNothing, PrepareGenerate, PrepareIndex, PrepareRequest,
         PrepareRefused, PrepareNote, PrepareThrows, PrepareWaited, PrepareUndo, PrepareUndone,
         PrepareBroadcast, device
<1>4. CASE ChainStep \/ Crash \/ UNCHANGED vars
  BY <1>4 DEF ChainStep, CreateDecided, CloseDecided, CloseFails, Crash, vars, device
<1>5. CASE PayStep
  BY <1>5 DEF PayStep, PayLock, PaySettled
<1> QED BY <1>1, <1>2, <1>3, <1>4, <1>5, ReclaimFrame DEF Next, Tasks

\* Such a step leaves every slot under a payment locked.
LEMMA LockedStep ==
  ASSUME Shapes, Preparing, Use, Locked, Noted, [Next]_vars, ~LosesRecord
  PROVE  Locked'
<1> SUFFICES ASSUME NEW a \in owed' PROVE record'[a].status = "locked"
  BY DEF Locked
<1>1. CASE a \in Account /\ PayLock(a)
  BY <1>1 DEF PayLock, Save, Shapes, Record
<1>2. CASE a \in owed
  <2>1. a \in Account /\ record[a].status = "locked"
    BY <1>2 DEF Locked, Shapes
  <2>2. ~PaySettled(a)
    BY DEF PaySettled
  <2>3. ~ReclaimMark(a)
    BY <2>1 DEF ReclaimMark, Noted
  <2> QED BY <2>1, <2>2, <2>3, HeldKept
<1> QED BY <1>1, <1>2, OwedSince

\* The invariant holds until a record is lost.
LEMMA UseAlways == Spec => [](Use /\ Locked /\ Noted) \/ <><<LosesRecord>>_vars
<1> DEFINE I == Use /\ Locked /\ Noted
<1>1. Init => I
  BY UseInit DEF Init, Locked, Noted, Reclaiming, Tasks
<1>2. TypeOK /\ I /\ [Next]_vars /\ [~LosesRecord]_vars => I'
  <2> SUFFICES ASSUME TypeOK, I, [Next]_vars, [~LosesRecord]_vars PROVE I'
    OBVIOUS
  <2>1. CASE ~LosesRecord
    BY <2>1, UseStep, LockedStep, NotedStep DEF TypeOK
  <2>2. CASE UNCHANGED vars
    BY <2>2 DEF vars, chain, device, locals, Use, Told, Answered, Own, Selected, Closing,
                InHand, At, Locked, Noted
  <2> QED BY <2>1, <2>2
<1> HIDE DEF I
<1>3. Spec => []I \/ <><<LosesRecord>>_vars
  BY <1>1, <1>2, TypeCorrect, PTL DEF Spec
<1> QED BY <1>3 DEF I

(***************************************************************************)
(* A payment is only ever offered a slot whose account exists and is not   *)
(* being closed (OfferedIsUsable), whichever tasks and payments overlap,   *)
(* wherever a task is killed and whatever the chain does late, until a     *)
(* task saves a stale record or a close goes out unnoted: index, records   *)
(* and chain part only through these two gaps of offline-payment-slots.ts. *)
(***************************************************************************)
THEOREM OffersUsable == Spec => []OfferedIsUsable \/ <><<LosesRecord>>_vars
<1>1. Use => OfferedIsUsable
  BY DEF Use, Told, OfferedIsUsable, Offered, OnChain, Closing, InHand, At
<1> QED BY <1>1, UseAlways, PTL

(***************************************************************************)
(* Payments and closes.                                                    *)
(***************************************************************************)
Open == \A a \in owed : create[a] = "landed" /\ ~Closing(a)

\* The chain forgets no creation: none is broadcast twice.
LEMMA LandedStays ==
  ASSUME Shapes, Preparing, Use, [Next]_vars, NEW a \in Account, create[a] = "landed"
  PROVE  create'[a] = "landed"
<1>1. CASE ChainStep \/ PayStep \/ Crash \/ UNCHANGED vars
  BY <1>1 DEF ChainStep, CreateDecided, CloseDecided, CloseFails, PayStep, PayLock, PaySettled,
              Crash, vars, chain, Shapes
<1>2. ASSUME NEW t \in Tasks, NEW next, Start(t, next) PROVE create' = create
  BY <1>2 DEF Start, chain
<1>3. ASSUME NEW t \in Tasks, RefreshStep(t) PROVE create' = create
  BY <1>3 DEF RefreshStep, Read, ReadFails, Fallback, SyncIndex, SyncLoad, SyncUpsert, SyncWrite,
              SyncSave, chain
<1>4. CASE PrepareStep
  <2>1. CASE \/ PrepareNothing \/ PrepareGenerate \/ PrepareIndex \/ PrepareRequest
             \/ PrepareRefused \/ PrepareNote \/ PrepareWaited \/ PrepareUndo \/ PrepareUndone
    BY <2>1 DEF PrepareNothing, PrepareGenerate, PrepareIndex, PrepareRequest, PrepareRefused,
                PrepareNote, PrepareWaited, PrepareUndo, PrepareUndone, chain
  <2>2. ASSUME At("prepare", "broadcast"), NEW b \in view["prepare"].todo,
               create' = create \/ create' = [create EXCEPT ![b] = "sent"]
        PROVE  create'[a] = "landed"
    <3>1. create[b] = "none"
      BY <2>2 DEF Use, Own, Preparing, At
    <3> QED BY <2>2, <3>1 DEF Shapes
  <2>3. CASE PrepareThrows
    BY <2>2, <2>3 DEF PrepareThrows
  <2>4. ASSUME NEW b \in Account, PrepareBroadcast(b) PROVE create'[a] = "landed"
    BY <2>2, <2>4 DEF PrepareBroadcast
  <2> QED BY <1>4, <2>1, <2>3, <2>4 DEF PrepareStep
<1>5. CASE ReclaimStep
  BY <1>5, ReclaimFrame
<1> QED BY <1>1, <1>2, <1>3, <1>4, <1>5 DEF Next, Tasks

\* Only the reclaim closes an account.
LEMMA CloseSent ==
  ASSUME Shapes, [Next]_vars, NEW a \in Account, ~Closing(a), Closing(a)'
  PROVE  ReclaimBroadcast(a) \/ ReclaimThrows(a)
<1>1. CASE ChainStep \/ PayStep \/ Crash \/ UNCHANGED vars
  BY <1>1 DEF ChainStep, CreateDecided, CloseDecided, CloseFails, PayStep, PayLock, PaySettled,
              Crash, vars, chain, Shapes, Closing
<1>2. ASSUME NEW t \in Tasks, NEW next, Start(t, next) PROVE close' = close
  BY <1>2 DEF Start, chain
<1>3. ASSUME NEW t \in Tasks, RefreshStep(t) PROVE close' = close
  BY <1>3 DEF RefreshStep, Read, ReadFails, Fallback, SyncIndex, SyncLoad, SyncUpsert, SyncWrite,
              SyncSave, chain
<1>4. CASE ReclaimStep
  <2>1. CASE \/ ReclaimNothing \/ ReclaimSelect \/ ReclaimNote \/ ReclaimWithout
             \/ ReclaimConfirmed \/ ReclaimUnconfirmed \/ ReclaimRejected \/ ReclaimMarked
    BY <2>1 DEF ReclaimNothing, ReclaimSelect, ReclaimNote, ReclaimWithout, ReclaimConfirmed,
                ReclaimUnconfirmed, ReclaimRejected, Marked, ReclaimMarked, chain, Closing
  <2>2. ASSUME NEW b \in Account, ReclaimMark(b) PROVE FALSE
    BY <2>2, MarkFrame DEF Closing
  <2>3. ASSUME NEW b \in Account, b # a, ReclaimBroadcast(b) \/ ReclaimThrows(b) PROVE FALSE
    BY <2>3 DEF ReclaimBroadcast, ReclaimThrows, Shapes, Closing
  <2> QED BY <1>4, <2>1, <2>2, <2>3 DEF ReclaimStep, Closing
<1> QED BY <1>1, <1>2, <1>3, <1>4, PrepareFrame DEF Next, Tasks, Closing

\* A payment loses its account when a record is lost or a close crosses it.
LosesPayment == LosesRecord \/ Crosses

\* Every other step leaves the accounts under payments open.
LEMMA OpenStep ==
  ASSUME Shapes, Preparing, Use, Locked, Open, [Next]_vars, ~LosesPayment
  PROVE  Open'
<1> SUFFICES ASSUME NEW a \in owed' PROVE create'[a] = "landed" /\ ~Closing(a)'
  BY DEF Open
<1>1. a \in owed \/ (a \in Account /\ PayLock(a))
  BY OwedSince
<1>2. CASE a \in owed
  <2>1. a \in Account /\ create[a] = "landed" /\ ~Closing(a) /\ record[a].status = "locked"
    BY <1>2 DEF Open, Locked, Shapes
  <2>2. ~ReclaimBroadcast(a)
    BY <2>1 DEF LosesPayment, Crosses, CrossesClose
  <2>3. ReclaimThrows(a) => ~Closing(a)'
    BY <2>1 DEF LosesPayment, LosesRecord, LosesClose
  <2> QED BY <2>1, <2>2, <2>3, LandedStays, CloseSent
<1>3. CASE a \in Account /\ PayLock(a)
  <2>1. record[a].status = "ready" /\ UNCHANGED <<create, close>>
    BY <1>3 DEF PayLock, Offered, chain
  <2>2. ~InHand(a)
    BY <1>3 DEF LosesPayment, Crosses, CrossesClose
  <2> QED BY <1>3, <2>1, <2>2 DEF Use, Told, Closing
<1> QED BY <1>1, <1>2, <1>3

(***************************************************************************)
(* The account under a payment stays open (OwedIsOpen), whatever overlaps, *)
(* is killed or lands late, until a record is lost as above, or a close    *)
(* and a payment cross between the reclaim's selection and its note: the   *)
(* run "closed_in_use" shows the payment that is then lost.                *)
(***************************************************************************)
THEOREM OwedStaysOpen == Spec => []OwedIsOpen \/ <><<LosesPayment>>_vars
<1>1. Init => Open
  BY DEF Init, Open
<1>2. TypeOK /\ Use /\ Locked /\ Open /\ [Next]_vars /\ [~LosesPayment]_vars => Open'
  <2> SUFFICES ASSUME TypeOK, Use, Locked, Open, [Next]_vars, [~LosesPayment]_vars PROVE Open'
    OBVIOUS
  <2>1. CASE ~LosesPayment
    BY <2>1, OpenStep DEF TypeOK
  <2>2. CASE UNCHANGED vars
    BY <2>2 DEF vars, chain, device, Open, Closing
  <2> QED BY <2>1, <2>2
<1>3. <<LosesRecord>>_vars => <<LosesPayment>>_vars
  BY DEF LosesPayment
<1>4. Open => OwedIsOpen
  BY DEF Open, OwedIsOpen, OnChain, Closing
<1> QED BY <1>1, <1>2, <1>3, <1>4, UseAlways, TypeCorrect, PTL DEF Spec
=============================================================================
