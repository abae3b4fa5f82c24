--------------------------- MODULE Payroll_proofs ---------------------------
(***************************************************************************)
(* Proofs about Payroll, for every number of rows and every number of      *)
(* passes and route computations in flight: types; a row is submitted at   *)
(* most once, shows it, and was paid as its key says; settled rows stay    *)
(* settled; a completed run has paid every row; and all of it implements   *)
(* PaymentBatch.                                                           *)
(***************************************************************************)
EXTENDS Payroll, TLAPS

(***************************************************************************)
(* The inductive invariant. A row without evidence is one the user sees    *)
(* and edits; evidence is never lost, so that a submitted row stays out of *)
(* reach of the stale snapshots of a pass and of a route computation,      *)
(* which are themselves made of such rows.                                 *)
(***************************************************************************)
GoodRow(x) ==
  /\ x.status \in {"ready", "invalid", "skipped"} => ~Evidence(x)
  /\ x.status \in Settled => x.sig
  /\ ~Evidence(x) => x.content = x.key

Marked(x) ==
  /\ x.tomb
  /\ x.status \in {"sending", "failed"} \cup Settled
  /\ x.status = "failed" => x.rec

UnderWay(p) == pass[p].pc = "sending"

RowsOk(rows) ==
  /\ rows \in [Rows -> Row]
  /\ \A r \in Rows : GoodRow(rows[r])
  /\ \A r \in Rows : sent[r] # <<>> => Marked(rows[r]) /\ sent[r] = <<rows[r].key>>
  /\ \A p \in Pass : UnderWay(p) => rows[pass[p].at].status \in {"sending", "failed"}

\* Passes under way are at rows of their own; a plan pays what its keys say.
PassesOk ==
  /\ \A p \in Pass : UnderWay(p) => pass[p].at \in Rows /\ sent[pass[p].at] # <<>>
  /\ \A p, q \in Pass : UnderWay(p) /\ UnderWay(q) /\ p # q => pass[p].at # pass[q].at
  /\ \A p \in Pass, r \in Rows : pass[p].plan[r].go => pass[p].plan[r].content = pass[p].plan[r].key

RoutingOk == \A q \in Routing, r \in Rows : GoodRow(routing[q].rows[r])

IInv == TypeOK /\ RowsOk(row) /\ PassesOk /\ RoutingOk /\ CompletedIsPaid

\* No settled row of the store changes its status.
SettledKept(rows) ==
  \A r \in Rows : row[r].status \in Settled => rows[r].status = row[r].status

(***************************************************************************)
(* Types of the constant records.                                          *)
(***************************************************************************)
LEMMA FreshType ==
  ASSUME NEW st \in {"ready", "invalid", "sending", "failed"},
         NEW c \in Content \cup {Malformed}, NEW routed \in BOOLEAN
  PROVE  Fresh(st, c, routed) \in Row /\ GoodRow(Fresh(st, c, routed))
BY DEF Fresh, Row, GoodRow, Evidence, Settled

\* Nothing is the plan of an idle pass, and its place is the first row.
LEMMA IdleType ==
  /\ IdlePass \in [pc : {"idle", "sending", "yielding"}, at : 1..(Count + 1),
                   plan : [Rows -> Job], stopped : BOOLEAN, cancel : BOOLEAN]
  /\ IdlePass.pc = "idle" /\ \A r \in Rows : ~IdlePass.plan[r].go
  /\ IdleRouting \in [busy : BOOLEAN, rows : [Rows -> Row]]
  /\ \A r \in Rows : GoodRow(IdleRouting.rows[r])
<1>1. 1 \in 1..(Count + 1)
  BY PayrollAssumption
<1>2. NoPlan \in [Rows -> Job] /\ \A r \in Rows : ~NoPlan[r].go
  BY DEF NoPlan, Job
<1>3. NoRows \in [Rows -> Row] /\ \A r \in Rows : GoodRow(NoRows[r])
  BY FreshType DEF NoRows
<1> QED BY <1>1, <1>2, <1>3 DEF IdlePass, IdleRouting

(***************************************************************************)
(* Reconciliation keeps evidence, keys and outcomes.                       *)
(***************************************************************************)
LEMMA ReconciledRow ==
  ASSUME NEW x \in Row, GoodRow(x)
  PROVE  /\ Reconciled(x) \in Row /\ GoodRow(Reconciled(x))
         /\ Reconciled(x).key = x.key
         /\ Marked(x) => Marked(Reconciled(x))
         /\ x.status \in Settled => Reconciled(x).status = x.status
         /\ x.status \in {"sending", "failed"} =>
              Reconciled(x).status \in {"sending", "failed"}
BY DEF Reconciled, Row, GoodRow, Marked, Evidence, Settled

\* So the rows stay good when all of them are reconciled.
LEMMA ReconciledAll ==
  ASSUME NEW rows, RowsOk(rows), PassesOk
  PROVE  /\ RowsOk([r \in Rows |-> Reconciled(rows[r])])
         /\ \A r \in Rows : rows[r].status \in Settled =>
              [q \in Rows |-> Reconciled(rows[q])][r].status = rows[r].status
<1> DEFINE new == [r \in Rows |-> Reconciled(rows[r])]
<1>1. \A r \in Rows : rows[r] \in Row /\ GoodRow(rows[r]) /\ new[r] = Reconciled(rows[r])
  BY DEF RowsOk
<1>2. \A r \in Rows : /\ new[r] \in Row /\ GoodRow(new[r]) /\ new[r].key = rows[r].key
                      /\ Marked(rows[r]) => Marked(new[r])
                      /\ rows[r].status \in Settled => new[r].status = rows[r].status
                      /\ rows[r].status \in {"sending", "failed"} =>
                           new[r].status \in {"sending", "failed"}
  BY <1>1, ReconciledRow
<1>3. new \in [Rows -> Row]
  BY <1>2
<1> HIDE DEF new
<1>4. RowsOk(new)
  BY <1>2, <1>3 DEF RowsOk, PassesOk
<1> QED BY <1>2, <1>4 DEF new

(***************************************************************************)
(* A replacement keeps the evidence, the key and the outcome of what it    *)
(* replaces; where there is no evidence the replacement stands.            *)
(***************************************************************************)
LEMMA PreservedRow ==
  ASSUME NEW old \in Row, GoodRow(old), NEW new \in Row, Evidence(old) \/ GoodRow(new)
  PROVE  /\ Preserved(old, new) \in Row /\ GoodRow(Preserved(old, new))
         /\ Evidence(old) => /\ Preserved(old, new).status = old.status
                             /\ Preserved(old, new).key = old.key
         /\ Marked(old) => Marked(Preserved(old, new))
<1>1. CASE ~Evidence(old)
  BY <1>1 DEF Preserved, Marked, Evidence
<1>2. CASE Evidence(old)
  <2> DEFINE p == Preserved(old, new)
  <2>1. p = [new EXCEPT !.status = old.status, !.key = old.key, !.tomb = old.tomb \/ new.tomb,
                        !.rec = old.rec \/ new.rec, !.sig = old.sig \/ new.sig]
    BY <1>2 DEF Preserved
  <2>2. p \in Row
    BY <2>1 DEF Row
  <2>3. p.status = old.status /\ p.key = old.key /\ p.tomb = (old.tomb \/ new.tomb)
        /\ p.rec = (old.rec \/ new.rec) /\ p.sig = (old.sig \/ new.sig)
    BY <2>1 DEF Row
  <2> HIDE DEF p
  <2>4. Evidence(p)
    BY <1>2, <2>3 DEF Evidence
  <2>5. GoodRow(p)
    BY <1>2, <2>3, <2>4 DEF GoodRow
  <2>6. Marked(old) => Marked(p)
    BY <2>3 DEF Marked
  <2> QED BY <2>2, <2>3, <2>5, <2>6 DEF p
<1> QED BY <1>1, <1>2

\* So the rows stay good when all of them are replaced.
LEMMA ReplacedAll ==
  ASSUME IInv, NEW rows \in [Rows -> Row],
         \A r \in Rows : Evidence(row[r]) \/ GoodRow(rows[r])
  PROVE  RowsOk(Replaced(rows)) /\ SettledKept(Replaced(rows))
<1> DEFINE new == Replaced(rows)
<1>1. \A r \in Rows : row[r] \in Row /\ GoodRow(row[r]) /\ new[r] = Preserved(row[r], rows[r])
  BY DEF IInv, RowsOk, Replaced
<1>2. \A r \in Rows : /\ new[r] \in Row /\ GoodRow(new[r])
                      /\ Evidence(row[r]) => new[r].status = row[r].status
                                             /\ new[r].key = row[r].key
                      /\ Marked(row[r]) => Marked(new[r])
  BY <1>1, PreservedRow
<1>3. new \in [Rows -> Row]
  BY <1>2 DEF Replaced
<1>4. \A r \in Rows : sent[r] # <<>> => Evidence(row[r])
  BY DEF IInv, RowsOk, Marked, Evidence
<1>5. \A r \in Rows : row[r].status \in Settled => Evidence(row[r])
  BY <1>1 DEF GoodRow, Evidence
<1> HIDE DEF new
<1>6. RowsOk(new)
  BY <1>2, <1>3, <1>4 DEF IInv, RowsOk, PassesOk
<1> QED BY <1>2, <1>5, <1>6 DEF SettledKept, new

(***************************************************************************)
(* A step that submits nothing: the passes under way stay where they are   *)
(* or end, and each keeps its plan or has none.                            *)
(***************************************************************************)
Quiet ==
  /\ sent' = sent
  /\ \A p \in Pass : UnderWay(p)' => UnderWay(p) /\ pass'[p].at = pass[p].at
  /\ \A p \in Pass : pass'[p].plan = pass[p].plan \/ pass'[p].plan = NoPlan

\* The status a step leaves: as it was, or not one of completion, or earned.
StatusEarned ==
  \/ status' = status
  \/ status' \notin {"completed", "completed_with_claims_pending"}
  \/ \A r \in Rows : row'[r].status \in Settled

\* Rows that are good for the passes before a quiet step are so after it.
LEMMA QuietRows ==
  ASSUME IInv, Quiet, RowsOk(row')
  PROVE  RowsOk(row)'
BY DEF Quiet, RowsOk, IInv

\* A quiet step keeps the invariant if its rows are good and its status earned.
LEMMA QuietStep ==
  ASSUME IInv, TypeOK', Quiet, RowsOk(row)', SettledKept(row'), RoutingOk', StatusEarned
  PROVE  IInv'
<1>1. \A p \in Pass, r \in Rows :
        pass'[p].plan[r].go => pass'[p].plan[r].content = pass'[p].plan[r].key
  BY DEF Quiet, IInv, PassesOk, NoPlan
<1>2. PassesOk'
  BY <1>1 DEF Quiet, PassesOk, IInv
<1>3. CompletedIsPaid'
  BY DEF StatusEarned, CompletedIsPaid, IInv, SettledKept
<1> QED BY <1>2, <1>3 DEF IInv

\* Where the rows and the routes are left alone, only the passes are to check.
LEMMA SameRows ==
  ASSUME IInv
  PROVE  /\ row' = row => RowsOk(row') /\ SettledKept(row')
         /\ routing' = routing => RoutingOk'
BY DEF IInv, SettledKept, RoutingOk

(***************************************************************************)
(* The end of a pass, with any status.                                     *)
(***************************************************************************)
LEMMA EndPassStep ==
  ASSUME IInv, NEW p \in Pass, NEW st \in Statuses, EndPass(p, st), sent' = sent
  PROVE  /\ Quiet
         /\ status' \in Statuses
         /\ pass' \in [Pass -> [pc : {"idle", "sending", "yielding"}, at : 1..(Count + 1),
                                plan : [Rows -> Job], stopped : BOOLEAN, cancel : BOOLEAN]]
         /\ card' \in [pass : Pass \cup {NoPass}, refresh : Routing \cup {NoRouting}]
<1>1. pass' = [pass EXCEPT ![p] = IdlePass] /\ TypeOK
  BY DEF EndPass, IInv
<1>2. \A q \in Pass : pass'[q] = IF q = p THEN IdlePass ELSE pass[q]
  BY <1>1 DEF TypeOK
<1>3. Quiet
  BY <1>2 DEF Quiet, UnderWay, IdlePass
<1>4. pass' \in [Pass -> [pc : {"idle", "sending", "yielding"}, at : 1..(Count + 1),
                          plan : [Rows -> Job], stopped : BOOLEAN, cancel : BOOLEAN]]
  BY <1>1, IdleType DEF TypeOK
<1>5. card' \in [pass : Pass \cup {NoPass}, refresh : Routing \cup {NoRouting}]
  BY <1>1 DEF EndPass, TypeOK
<1>6. status' \in Statuses
  BY <1>1 DEF EndPass, TypeOK
<1> QED BY <1>3, <1>4, <1>5, <1>6

\* The status that ends an undisturbed pass reports completion of paid rows only.
LEMMA CompletedStatusEarned ==
  ASSUME NEW rows \in [Rows -> Row], \A r \in Rows : GoodRow(rows[r])
  PROVE  /\ CompletedStatus(rows) \in Statuses
         /\ CompletedStatus(rows) \in {"completed", "completed_with_claims_pending"} =>
              \A r \in Rows : rows[r].status \in Settled
<1>1. CompletedStatus(rows) \in Statuses
  BY DEF CompletedStatus, Statuses
<1>2. ASSUME CompletedStatus(rows) \in {"completed", "completed_with_claims_pending"},
             NEW r \in Rows
      PROVE  rows[r].status \in Settled
  <2>1. /\ rows[r].status \notin {"sending", "failed", "invalid", "skipped"}
        /\ ~(rows[r].status = "ready" /\ Sendable(rows[r]))
    BY <1>2 DEF CompletedStatus
  <2>2. rows[r].status = "ready" => Sendable(rows[r])
    BY DEF GoodRow, Sendable
  <2>3. rows[r].status \in {"ready", "invalid", "skipped", "sending", "failed"} \cup Settled
    BY DEF Row
  <2> QED BY <2>1, <2>2, <2>3
<1> QED BY <1>1, <1>2

\* A pass that finds nothing more to send.
LEMMA NothingLeftStep ==
  ASSUME IInv, NEW p \in Pass, NEW rows, RowsOk(rows), SettledKept(rows),
         NEW plan, NEW from \in 1..(Count + 1), NothingLeft(p, rows, plan, from),
         UNCHANGED <<dirty, routing, active, excluded>>
  PROVE  IInv' /\ SettledKept(row')
<1>1. row' = rows /\ sent' = sent /\ EndPass(p, CompletedStatus(rows)) /\ TypeOK
  BY DEF NothingLeft, IInv
<1>2. rows \in [Rows -> Row] /\ \A r \in Rows : GoodRow(rows[r])
  BY DEF RowsOk
<1>3. /\ CompletedStatus(rows) \in Statuses
      /\ CompletedStatus(rows) \in {"completed", "completed_with_claims_pending"} =>
           \A r \in Rows : rows[r].status \in Settled
  BY <1>2, CompletedStatusEarned
<1>4. StatusEarned
  BY <1>1, <1>3 DEF EndPass, StatusEarned
<1>5. cursor' \in 1..(Count + 1)
  BY <1>1, PayrollAssumption DEF NothingLeft, TypeOK
<1>6. /\ Quiet /\ status' \in Statuses
      /\ pass' \in [Pass -> [pc : {"idle", "sending", "yielding"}, at : 1..(Count + 1),
                             plan : [Rows -> Job], stopped : BOOLEAN, cancel : BOOLEAN]]
      /\ card' \in [pass : Pass \cup {NoPass}, refresh : Routing \cup {NoRouting}]
  BY <1>1, <1>3, EndPassStep
<1>7. TypeOK'
  BY <1>1, <1>2, <1>5, <1>6 DEF TypeOK
<1>8. RoutingOk'
  BY SameRows
<1>9. RowsOk(row)'
  BY <1>1, <1>6, QuietRows
<1> QED BY <1>1, <1>4, <1>6, <1>7, <1>8, <1>9, QuietStep

\* The record of a pass that begins a submission.
LEMMA MovedType ==
  ASSUME NEW At, NEW Plans, NEW at \in At, NEW plan \in Plans,
         NEW x \in [pc : {"idle", "sending", "yielding"}, at : At, plan : Plans,
                    stopped : BOOLEAN, cancel : BOOLEAN]
  PROVE  [x EXCEPT !.pc = "sending", !.at = at, !.plan = plan] \in
           [pc : {"idle", "sending", "yielding"}, at : At, plan : Plans,
            stopped : BOOLEAN, cancel : BOOLEAN]
OBVIOUS

(***************************************************************************)
(* A row can be claimed only if nothing of it was ever submitted, and then *)
(* no other pass is under way at it; what is paid is what the store says   *)
(* its key is, because the claim compares the keys.                        *)
(***************************************************************************)
LEMMA SubmitNextStep ==
  ASSUME IInv, NEW p \in Pass, ~UnderWay(p), NEW rows, RowsOk(rows), SettledKept(rows),
         NEW plan \in [Rows -> Job],
         \A r \in Rows : plan[r].go => plan[r].content = plan[r].key,
         NEW from \in 1..(Count + 1), SubmitNext(p, rows, plan, from)
  PROVE  /\ RowsOk(row)' /\ PassesOk' /\ SettledKept(row')
         /\ cursor' \in 1..(Count + 1)
         /\ pass' \in [Pass -> [pc : {"idle", "sending", "yielding"}, at : 1..(Count + 1),
                                plan : [Rows -> Job], stopped : BOOLEAN, cancel : BOOLEAN]]
         /\ sent' \in [Rows -> Seq(Content \cup {Malformed})]
<1>1. PICK r \in Ahead(rows, plan, from) :
        /\ row' = [rows EXCEPT ![r] = Claimed(rows[r])]
        /\ sent' = [sent EXCEPT ![r] = Append(sent[r], plan[r].content)]
        /\ cursor' = IF r > from THEN r ELSE cursor
        /\ pass' = [pass EXCEPT ![p].pc = "sending", ![p].at = r, ![p].plan = plan]
  BY DEF SubmitNext
<1>2. /\ r \in Rows /\ plan[r].go /\ Claimable(rows[r], plan[r])
      /\ TypeOK /\ rows \in [Rows -> Row] /\ GoodRow(rows[r])
  BY <1>1 DEF Ahead, IInv, RowsOk
<1>3. rows[r].status = "ready" /\ ~Evidence(rows[r]) /\ plan[r].key = rows[r].key
  BY <1>2 DEF Claimable, Sendable
<1>4. sent[r] = <<>>
  BY <1>2, <1>3 DEF RowsOk, Marked, Evidence
<1>5. plan[r].content \in Content \cup {Malformed} /\ plan[r].content = rows[r].key
  BY <1>2, <1>3 DEF Job
<1>6. sent'[r] = <<rows[r].key>> /\ \A q \in Rows \ {r} : sent'[q] = sent[q]
  BY <1>1, <1>2, <1>4, <1>5 DEF TypeOK
<1>7. sent' \in [Rows -> Seq(Content \cup {Malformed})]
  <2>1. Append(sent[r], plan[r].content) \in Seq(Content \cup {Malformed})
    BY <1>2, <1>5 DEF TypeOK
  <2> QED BY <1>1, <2>1, <1>2 DEF TypeOK
<1>8. /\ \A q \in Pass \ {p} : pass'[q] = pass[q]
      /\ pass'[p].pc = "sending" /\ pass'[p].at = r /\ pass'[p].plan = plan
  BY <1>1, <1>2 DEF TypeOK
<1>9. r \in 1..(Count + 1)
  BY <1>2, PayrollAssumption DEF Rows
<1>10. pass' \in [Pass -> [pc : {"idle", "sending", "yielding"}, at : 1..(Count + 1),
                           plan : [Rows -> Job], stopped : BOOLEAN, cancel : BOOLEAN]]
  <2> DEFINE moved == [pass[p] EXCEPT !.pc = "sending", !.at = r, !.plan = plan]
  <2>0. pass[p] \in [pc : {"idle", "sending", "yielding"}, at : 1..(Count + 1),
                    plan : [Rows -> Job], stopped : BOOLEAN, cancel : BOOLEAN]
    BY <1>2 DEF TypeOK
  <2>1. moved \in [pc : {"idle", "sending", "yielding"}, at : 1..(Count + 1),
                   plan : [Rows -> Job], stopped : BOOLEAN, cancel : BOOLEAN]
    BY <2>0, <1>9, MovedType
  <2>2. pass' = [pass EXCEPT ![p] = moved]
    BY <1>1, <1>2 DEF TypeOK
  <2> HIDE DEF moved
  <2> QED BY <1>2, <2>1, <2>2 DEF TypeOK
<1>11. cursor' \in 1..(Count + 1)
  BY <1>1, <1>2, <1>9 DEF TypeOK
<1>12. Claimed(rows[r]) \in Row /\ GoodRow(Claimed(rows[r])) /\ Marked(Claimed(rows[r]))
       /\ Claimed(rows[r]).key = rows[r].key /\ Claimed(rows[r]).status = "sending"
  BY <1>2 DEF Claimed, Row, GoodRow, Marked, Evidence, Settled
<1>13. row' \in [Rows -> Row] /\ row'[r] = Claimed(rows[r])
       /\ \A q \in Rows \ {r} : row'[q] = rows[q]
  BY <1>1, <1>2, <1>12
<1>14. \A q \in Pass : UnderWay(q) => pass[q].at # r
  BY <1>3 DEF RowsOk
<1>15. \A q \in Pass \ {p} : UnderWay(q)' => UnderWay(q) /\ pass'[q].at = pass[q].at
  BY <1>8 DEF UnderWay
<1>16. RowsOk(row)'
  <2>1. \A q \in Rows : GoodRow(row'[q])
    BY <1>12, <1>13 DEF RowsOk
  <2>2. \A q \in Rows : sent'[q] # <<>> => Marked(row'[q]) /\ sent'[q] = <<row'[q].key>>
    BY <1>6, <1>12, <1>13 DEF RowsOk
  <2>3. \A q \in Pass : UnderWay(q)' => row'[pass'[q].at].status \in {"sending", "failed"}
    <3>1. ASSUME NEW q \in Pass, UnderWay(q)', q # p
          PROVE  row'[pass'[q].at].status \in {"sending", "failed"}
      BY <3>1, <1>13, <1>14, <1>15 DEF RowsOk, IInv, PassesOk
    <3> QED BY <3>1, <1>8, <1>12, <1>13
  <2> QED BY <1>13, <2>1, <2>2, <2>3 DEF RowsOk
<1>17. PassesOk'
  <2>1. \A q \in Pass : UnderWay(q)' => pass'[q].at \in Rows /\ sent'[pass'[q].at] # <<>>
    <3>1. ASSUME NEW q \in Pass, UnderWay(q)', q # p
          PROVE  pass'[q].at \in Rows /\ sent'[pass'[q].at] # <<>>
      BY <3>1, <1>6, <1>14, <1>15 DEF IInv, PassesOk
    <3> QED BY <3>1, <1>2, <1>6, <1>8
  <2>2. \A q, s \in Pass : UnderWay(q)' /\ UnderWay(s)' /\ q # s => pass'[q].at # pass'[s].at
    BY <1>8, <1>14, <1>15 DEF IInv, PassesOk
  <2>3. \A q \in Pass, s \in Rows :
          pass'[q].plan[s].go => pass'[q].plan[s].content = pass'[q].plan[s].key
    BY <1>8 DEF IInv, PassesOk
  <2> QED BY <2>1, <2>2, <2>3 DEF PassesOk
<1>18. SettledKept(row')
  <2>1. row[r].status \notin Settled
    BY <1>2, <1>3 DEF SettledKept, Settled
  <2> QED BY <2>1, <1>13 DEF SettledKept
<1> QED BY <1>7, <1>10, <1>11, <1>16, <1>17, <1>18

\* The snapshot a pass takes pays what its keys say.
LEMMA PlanOk ==
  ASSUME NEW rows, RowsOk(rows)
  PROVE  /\ Plan(rows) \in [Rows -> Job]
         /\ \A r \in Rows : Plan(rows)[r].go => Plan(rows)[r].content = Plan(rows)[r].key
<1>1. \A r \in Rows : rows[r] \in Row /\ GoodRow(rows[r])
  BY DEF RowsOk
<1>2. \A r \in Rows : Plan(rows)[r].go = (rows[r].routed /\ rows[r].status = "ready"
                                          /\ Sendable(rows[r]))
                      /\ Plan(rows)[r].key = rows[r].key
                      /\ Plan(rows)[r].content = rows[r].content
  BY DEF Plan
<1>3. Plan(rows) \in [Rows -> Job]
  BY <1>1 DEF Plan, Job, Row
<1>4. \A r \in Rows : Plan(rows)[r].go => rows[r].content = rows[r].key
  BY <1>1, <1>2 DEF Sendable, GoodRow
<1> QED BY <1>2, <1>3, <1>4

\* The executor's first step, from any good rows.
LEMMA ExecuteStep ==
  ASSUME IInv, NEW p \in Pass, NEW rows, RowsOk(rows), SettledKept(rows),
         NEW from \in 1..(Count + 1), Execute(p, rows, from)
  PROVE  IInv' /\ SettledKept(row')
<1>1. /\ Plan(rows) \in [Rows -> Job]
      /\ \A r \in Rows : Plan(rows)[r].go => Plan(rows)[r].content = Plan(rows)[r].key
  BY PlanOk
<1>2. ~UnderWay(p) /\ UNCHANGED <<dirty, routing, active, excluded>> /\ TypeOK
  BY DEF Execute, UnderWay, IdlePass, IInv
<1>3. CASE /\ SubmitNext(p, rows, Plan(rows), from)
           /\ status' = "running" /\ card' = [card EXCEPT !.pass = p]
  <2>1. /\ RowsOk(row)' /\ PassesOk' /\ SettledKept(row')
        /\ cursor' \in 1..(Count + 1)
        /\ pass' \in [Pass -> [pc : {"idle", "sending", "yielding"}, at : 1..(Count + 1),
                               plan : [Rows -> Job], stopped : BOOLEAN, cancel : BOOLEAN]]
        /\ sent' \in [Rows -> Seq(Content \cup {Malformed})]
    BY <1>1, <1>2, <1>3, SubmitNextStep
  <2>2. TypeOK'
    BY <1>2, <1>3, <2>1 DEF TypeOK, Statuses, RowsOk
  <2>3. RoutingOk' /\ CompletedIsPaid'
    BY <1>2, <1>3, SameRows DEF CompletedIsPaid
  <2> QED BY <2>1, <2>2, <2>3 DEF IInv
<1>4. CASE NothingLeft(p, rows, Plan(rows), from)
  BY <1>2, <1>4, NothingLeftStep
<1> QED BY <1>3, <1>4 DEF Execute

(***************************************************************************)
(* "Confirm", "Resume" and "Retry failed".                                 *)
(***************************************************************************)
LEMMA StartStep ==
  ASSUME IInv, NEW p \in Pass, Start(p)
  PROVE  IInv' /\ SettledKept(row')
<1>1. RowsOk(ReconciledRows) /\ SettledKept(ReconciledRows)
  BY ReconciledAll DEF IInv, ReconciledRows, SettledKept
<1>2. Execute(p, ReconciledRows, cursor) /\ cursor \in 1..(Count + 1)
  BY DEF Start, IInv, TypeOK
<1> HIDE DEF ReconciledRows
<1> QED BY <1>1, <1>2, ExecuteStep

\* A failed row that may be sent again has no evidence: it was never submitted.
LEMMA RetryRowsOk ==
  ASSUME IInv
  PROVE  /\ \A r \in Rows : RetryRows[r] \in Row
         /\ RowsOk([r \in Rows |-> Reconciled(RetryRows[r])])
         /\ SettledKept([r \in Rows |-> Reconciled(RetryRows[r])])
<1> DEFINE failed == FailedBefore
           rows == RetryRows
           new == [r \in Rows |-> Reconciled(rows[r])]
<1>1. /\ failed = {r \in Rows : row[r].status = "failed" /\ Sendable(row[r])}
      /\ rows = [r \in Rows |->
                   IF r \in failed THEN [row[r] EXCEPT !.status = "ready"] ELSE row[r]]
  BY DEF FailedBefore, RetryRows
<1> HIDE DEF rows, failed
<1>2. \A r \in Rows : row[r] \in Row /\ GoodRow(row[r])
  BY DEF IInv, RowsOk
<1>3. \A r \in failed : ~Evidence(row[r]) /\ ~Marked(row[r]) /\ sent[r] = <<>>
  BY <1>1 DEF Sendable, Evidence, Marked, IInv, RowsOk
<1>4. \A r \in failed : /\ [row[r] EXCEPT !.status = "ready"] \in Row
                        /\ GoodRow([row[r] EXCEPT !.status = "ready"])
  BY <1>1, <1>2, <1>3 DEF Row, GoodRow, Evidence, Settled
<1>5. \A r \in Rows : rows[r] \in Row /\ GoodRow(rows[r]) /\ (r \notin failed => rows[r] = row[r])
  BY <1>1, <1>2, <1>4
<1>6. rows \in [Rows -> Row]
  BY <1>1, <1>5
<1>7. \A r \in failed : row[r].status = "failed"
  BY <1>1
<1>8. RowsOk(rows)
  BY <1>3, <1>5, <1>6 DEF RowsOk, IInv, PassesOk
<1>9. SettledKept(rows)
  BY <1>5, <1>7 DEF SettledKept, Settled
<1>10. RowsOk(new) /\ SettledKept(new)
  BY <1>8, <1>9, ReconciledAll DEF SettledKept, IInv
<1> QED BY <1>5, <1>10 DEF rows

\* So it is sent again like a row that never was.
LEMMA RetryStep ==
  ASSUME IInv, NEW p \in Pass, Retry(p)
  PROVE  IInv' /\ SettledKept(row')
<1> DEFINE new == [r \in Rows |-> Reconciled(RetryRows[r])]
<1>1. PICK first \in Rows : Execute(p, new, first)
  BY DEF Retry
<1>2. RowsOk(new) /\ SettledKept(new)
  BY RetryRowsOk
<1>3. first \in 1..(Count + 1)
  BY PayrollAssumption DEF Rows
<1> HIDE DEF new
<1> QED BY <1>1, <1>2, <1>3, ExecuteStep

(***************************************************************************)
(* The outcome of a submission is written to the row of its own pass,      *)
(* which no other pass is at.                                              *)
(***************************************************************************)
LEMMA RecordStep ==
  ASSUME IInv, NEW p \in Pass, UnderWay(p), ~UnderWay(p)', Quiet,
         NEW st \in Settled \cup {"failed"}, NEW rec \in BOOLEAN, NEW sig \in BOOLEAN,
         st \in Settled => sig, st = "failed" => rec, Record(p, st, rec, sig)
  PROVE  RowsOk(row)' /\ SettledKept(row') /\ cursor' \in 1..(Count + 1)
<1> DEFINE at == pass[p].at
           new == Updated(row[at], st, rec, sig)
<1>1. at \in Rows /\ sent[at] # <<>> /\ TypeOK
  BY DEF IInv, PassesOk
<1>2. row[at] \in Row /\ GoodRow(row[at]) /\ Marked(row[at]) /\ sent[at] = <<row[at].key>>
      /\ row[at].status \in {"sending", "failed"}
  BY <1>1 DEF IInv, RowsOk
<1>3. new \in Row /\ GoodRow(new) /\ Marked(new) /\ new.key = row[at].key
  BY <1>2 DEF Updated, Row, GoodRow, Marked, Evidence, Settled
<1>4. at + 1 \in 1..(Count + 1)
  BY <1>1, PayrollAssumption DEF Rows
<1>5. cursor' \in 1..(Count + 1)
  BY <1>1, <1>4 DEF Record, TypeOK
<1>6. row \in [Rows -> Row]
  BY <1>1 DEF TypeOK
<1>7. \/ row' = row
      \/ row' \in [Rows -> Row] /\ row'[at] = new /\ \A r \in Rows \ {at} : row'[r] = row[r]
  BY <1>1, <1>3, <1>6 DEF Record
<1>8. \A q \in Pass : UnderWay(q)' => pass'[q].at # at /\ pass'[q].at = pass[q].at /\ UnderWay(q)
  BY DEF Quiet, IInv, PassesOk
<1>9. SettledKept(row')
  BY <1>2, <1>7 DEF SettledKept, Settled
<1> HIDE DEF at, new
<1>10. RowsOk(row)'
  <2>1. CASE row' = row
    BY <2>1, QuietRows DEF IInv
  <2>2. CASE row' \in [Rows -> Row] /\ row'[at] = new /\ \A r \in Rows \ {at} : row'[r] = row[r]
    <3>1. \A r \in Rows : GoodRow(row'[r])
      BY <2>2, <1>3 DEF IInv, RowsOk
    <3>2. \A r \in Rows : sent'[r] # <<>> => Marked(row'[r]) /\ sent'[r] = <<row'[r].key>>
      BY <2>2, <1>2, <1>3 DEF IInv, RowsOk, Quiet
    <3>3. \A q \in Pass : UnderWay(q)' => row'[pass'[q].at].status \in {"sending", "failed"}
      BY <2>2, <1>8 DEF IInv, RowsOk, PassesOk
    <3> QED BY <2>2, <3>1, <3>2, <3>3 DEF RowsOk
  <2> QED BY <1>7, <2>1, <2>2
<1> QED BY <1>5, <1>9, <1>10

\* The record of a pass that has done with its row.
LEMMA YieldType ==
  ASSUME NEW At, NEW Plans, NEW at \in At,
         NEW x \in [pc : {"idle", "sending", "yielding"}, at : At, plan : Plans,
                    stopped : BOOLEAN, cancel : BOOLEAN]
  PROVE  [x EXCEPT !.pc = "yielding", !.at = at] \in
           [pc : {"idle", "sending", "yielding"}, at : At, plan : Plans,
            stopped : BOOLEAN, cancel : BOOLEAN]
OBVIOUS

\* The pass yields before it goes on with the next row.
LEMMA YieldStep ==
  ASSUME IInv, NEW p \in Pass, UnderWay(p), Yield(p), sent' = sent
  PROVE  /\ Quiet /\ ~UnderWay(p)' /\ StatusEarned
         /\ pass' \in [Pass -> [pc : {"idle", "sending", "yielding"}, at : 1..(Count + 1),
                                plan : [Rows -> Job], stopped : BOOLEAN, cancel : BOOLEAN]]
<1> DEFINE next == [pass[p] EXCEPT !.pc = "yielding", !.at = pass[p].at + 1]
<1>1. /\ pass \in [Pass -> [pc : {"idle", "sending", "yielding"}, at : 1..(Count + 1),
                            plan : [Rows -> Job], stopped : BOOLEAN, cancel : BOOLEAN]]
      /\ pass[p].at \in Rows
  BY DEF IInv, TypeOK, PassesOk
<1>2. pass' = [pass EXCEPT ![p] = next]
  BY <1>1 DEF Yield
<1>3. pass[p].at + 1 \in 1..(Count + 1)
  BY <1>1, PayrollAssumption DEF Rows
<1>4. pass[p] \in [pc : {"idle", "sending", "yielding"}, at : 1..(Count + 1),
                   plan : [Rows -> Job], stopped : BOOLEAN, cancel : BOOLEAN]
  BY <1>1
<1>5. next \in [pc : {"idle", "sending", "yielding"}, at : 1..(Count + 1),
                plan : [Rows -> Job], stopped : BOOLEAN, cancel : BOOLEAN]
  BY <1>3, <1>4, YieldType
<1>6. next.pc = "yielding" /\ next.plan = pass[p].plan
  BY <1>4
<1> HIDE DEF next
<1>7. \A q \in Pass : pass'[q] = IF q = p THEN next ELSE pass[q]
  BY <1>1, <1>2
<1>8. Quiet /\ ~UnderWay(p)'
  BY <1>6, <1>7 DEF Quiet, UnderWay
<1>9. StatusEarned
  BY DEF Yield, StatusEarned
<1> QED BY <1>1, <1>2, <1>5, <1>8, <1>9

\* The executor's step when a submission has returned or thrown.
LEMMA SubmittedStep ==
  ASSUME IInv, NEW p \in Pass, Submitted(p) \/ Failed(p)
  PROVE  IInv' /\ SettledKept(row')
<1>1. /\ UnderWay(p) /\ Yield(p) /\ TypeOK
      /\ UNCHANGED <<dirty, routing, active, sent, excluded>>
  BY DEF Submitted, Failed, UnderWay, IInv
<1>2. PICK st \in Settled \cup {"failed"}, rec \in BOOLEAN, sig \in BOOLEAN :
        Record(p, st, rec, sig) /\ (st \in Settled => sig) /\ (st = "failed" => rec)
  <2>1. CASE Submitted(p)
    <3>1. PICK outcome \in Outcomes : Record(p, outcome, FALSE, TRUE)
      BY <2>1 DEF Submitted
    <3>2. outcome \in Settled /\ outcome # "failed"
      BY PayrollAssumption DEF Settled
    <3> QED BY <3>1, <3>2
  <2>2. CASE Failed(p)
    BY <2>2 DEF Failed, Settled
  <2> QED BY <2>1, <2>2
<1>3. /\ Quiet /\ ~UnderWay(p)' /\ StatusEarned
      /\ pass' \in [Pass -> [pc : {"idle", "sending", "yielding"}, at : 1..(Count + 1),
                             plan : [Rows -> Job], stopped : BOOLEAN, cancel : BOOLEAN]]
  BY <1>1, YieldStep
<1>4. RowsOk(row)' /\ SettledKept(row') /\ cursor' \in 1..(Count + 1)
  BY <1>1, <1>2, <1>3, RecordStep
<1>5. TypeOK'
  BY <1>1, <1>3, <1>4 DEF TypeOK, RowsOk, Yield
<1>6. RoutingOk'
  BY <1>1, SameRows
<1> QED BY <1>3, <1>4, <1>5, <1>6, QuietStep

\* The same when it was aborted, which ends the pass.
LEMMA AbortedStep ==
  ASSUME IInv, NEW p \in Pass, Aborted(p)
  PROVE  IInv' /\ SettledKept(row')
<1>1. /\ UnderWay(p) /\ EndPass(p, Interrupted(p)) /\ TypeOK
      /\ Record(p, "failed", TRUE, FALSE)
      /\ UNCHANGED <<dirty, routing, active, sent, excluded>>
  BY DEF Aborted, UnderWay, IInv
<1>2. Interrupted(p) \in Statuses
      /\ Interrupted(p) \notin {"completed", "completed_with_claims_pending"}
  BY DEF Interrupted, Statuses
<1>3. /\ Quiet /\ status' \in Statuses
      /\ pass' \in [Pass -> [pc : {"idle", "sending", "yielding"}, at : 1..(Count + 1),
                             plan : [Rows -> Job], stopped : BOOLEAN, cancel : BOOLEAN]]
      /\ card' \in [pass : Pass \cup {NoPass}, refresh : Routing \cup {NoRouting}]
  BY <1>1, <1>2, EndPassStep
<1>4. ~UnderWay(p)'
  BY <1>1 DEF EndPass, UnderWay, TypeOK, IdlePass
<1>5. RowsOk(row)' /\ SettledKept(row') /\ cursor' \in 1..(Count + 1)
  BY <1>1, <1>3, <1>4, RecordStep DEF Settled
<1>6. TypeOK'
  BY <1>1, <1>3, <1>5 DEF TypeOK, RowsOk
<1>7. RoutingOk' /\ StatusEarned
  BY <1>1, <1>2, SameRows DEF EndPass, StatusEarned
<1> QED BY <1>3, <1>5, <1>6, <1>7, QuietStep

\* The loop goes on, or finds that it was stopped.
LEMMA ContinueStep ==
  ASSUME IInv, NEW p \in Pass, Continue(p)
  PROVE  IInv' /\ SettledKept(row')
<1> DEFINE from == pass[p].at
           plan == pass[p].plan
<1>1. /\ ~UnderWay(p) /\ TypeOK /\ RowsOk(row) /\ SettledKept(row)
      /\ UNCHANGED <<dirty, routing, active, excluded>>
  BY DEF Continue, UnderWay, IInv, SettledKept
<1>2. from \in 1..(Count + 1) /\ plan \in [Rows -> Job]
      /\ \A r \in Rows : plan[r].go => plan[r].content = plan[r].key
  BY DEF IInv, TypeOK, PassesOk
<1>3. \/ EndPass(p, Interrupted(p)) /\ UNCHANGED <<cursor, row, sent>>
      \/ SubmitNext(p, row, plan, from) /\ UNCHANGED <<status, card>>
      \/ NothingLeft(p, row, plan, from)
  BY DEF Continue
<1> HIDE DEF from, plan
<1>4. CASE EndPass(p, Interrupted(p)) /\ UNCHANGED <<cursor, row, sent>>
  <2>1. Interrupted(p) \in Statuses
        /\ Interrupted(p) \notin {"completed", "completed_with_claims_pending"}
    BY DEF Interrupted, Statuses
  <2>2. /\ Quiet /\ status' \in Statuses
        /\ pass' \in [Pass -> [pc : {"idle", "sending", "yielding"}, at : 1..(Count + 1),
                               plan : [Rows -> Job], stopped : BOOLEAN, cancel : BOOLEAN]]
        /\ card' \in [pass : Pass \cup {NoPass}, refresh : Routing \cup {NoRouting}]
    BY <1>4, <2>1, EndPassStep
  <2>3. TypeOK'
    BY <1>1, <1>4, <2>2 DEF TypeOK
  <2>4. RowsOk(row') /\ SettledKept(row') /\ RoutingOk'
    BY <1>1, <1>4, SameRows
  <2>5. RowsOk(row)'
    BY <2>2, <2>4, QuietRows
  <2>6. StatusEarned
    BY <1>4, <2>1 DEF EndPass, StatusEarned
  <2> QED BY <2>2, <2>3, <2>4, <2>5, <2>6, QuietStep
<1>5. CASE SubmitNext(p, row, plan, from) /\ UNCHANGED <<status, card>>
  <2>1. /\ RowsOk(row)' /\ PassesOk' /\ SettledKept(row')
        /\ cursor' \in 1..(Count + 1)
        /\ pass' \in [Pass -> [pc : {"idle", "sending", "yielding"}, at : 1..(Count + 1),
                               plan : [Rows -> Job], stopped : BOOLEAN, cancel : BOOLEAN]]
        /\ sent' \in [Rows -> Seq(Content \cup {Malformed})]
    BY <1>1, <1>2, <1>5, SubmitNextStep
  <2>2. TypeOK'
    BY <1>1, <1>5, <2>1 DEF TypeOK, RowsOk
  <2>3. RoutingOk' /\ CompletedIsPaid'
    BY <1>1, <1>5, <2>1, SameRows DEF CompletedIsPaid, IInv, SettledKept
  <2> QED BY <2>1, <2>2, <2>3 DEF IInv
<1>6. CASE NothingLeft(p, row, plan, from)
  BY <1>1, <1>2, <1>6, NothingLeftStep
<1> QED BY <1>3, <1>4, <1>5, <1>6

\* The record of a pass that is told to stop.
LEMMA FlagsType ==
  ASSUME NEW At, NEW Plans, NEW cancel \in BOOLEAN,
         NEW x \in [pc : {"idle", "sending", "yielding"}, at : At, plan : Plans,
                    stopped : BOOLEAN, cancel : BOOLEAN],
         NEW y, y = [x EXCEPT !.stopped = TRUE, !.cancel = cancel]
                \/ y = [x EXCEPT !.stopped = TRUE]
  PROVE  /\ y \in [pc : {"idle", "sending", "yielding"}, at : At, plan : Plans,
                   stopped : BOOLEAN, cancel : BOOLEAN]
         /\ y.pc = x.pc /\ y.at = x.at /\ y.plan = x.plan
OBVIOUS

(***************************************************************************)
(* The card tells its pass to stop; the pass stays where it is.            *)
(***************************************************************************)
LEMMA FlagsStep ==
  ASSUME IInv, Stopped(TRUE) \/ Stopped(FALSE) \/ Unmount, sent' = sent
  PROVE  /\ Quiet
         /\ pass' \in [Pass -> [pc : {"idle", "sending", "yielding"}, at : 1..(Count + 1),
                                plan : [Rows -> Job], stopped : BOOLEAN, cancel : BOOLEAN]]
<1>1. /\ pass \in [Pass -> [pc : {"idle", "sending", "yielding"}, at : 1..(Count + 1),
                            plan : [Rows -> Job], stopped : BOOLEAN, cancel : BOOLEAN]]
      /\ Executing => card.pass \in Pass
  BY DEF IInv, TypeOK, Executing
<1>2. CASE ~Executing
  <2>1. pass' = pass
    BY <1>2 DEF Stopped, Unmount
  <2> QED BY <1>1, <2>1 DEF Quiet, UnderWay
<1>3. CASE Executing
  <2> DEFINE old == pass[card.pass]
             new == pass'[card.pass]
  <2>1. \A q \in Pass \ {card.pass} : pass'[q] = pass[q]
    BY <1>1, <1>3 DEF Stopped, Unmount
  <2>2. \/ new = [old EXCEPT !.stopped = TRUE, !.cancel = TRUE]
        \/ new = [old EXCEPT !.stopped = TRUE, !.cancel = FALSE]
        \/ new = [old EXCEPT !.stopped = TRUE]
    BY <1>1, <1>3 DEF Stopped, Unmount
  <2>3. old \in [pc : {"idle", "sending", "yielding"}, at : 1..(Count + 1),
                 plan : [Rows -> Job], stopped : BOOLEAN, cancel : BOOLEAN]
    BY <1>1, <1>3
  <2>4. DOMAIN pass' = Pass /\ pass' = [q \in Pass |-> pass'[q]]
    BY <1>1, <1>3 DEF Stopped, Unmount
  <2> HIDE DEF old, new
  <2>5. /\ new \in [pc : {"idle", "sending", "yielding"}, at : 1..(Count + 1),
                    plan : [Rows -> Job], stopped : BOOLEAN, cancel : BOOLEAN]
        /\ new.pc = old.pc /\ new.at = old.at /\ new.plan = old.plan
    BY <2>2, <2>3, FlagsType
  <2>6. Quiet
    BY <1>1, <2>1, <2>5 DEF Quiet, UnderWay, old, new
  <2>7. \A q \in Pass : pass'[q] \in
           [pc : {"idle", "sending", "yielding"}, at : 1..(Count + 1),
            plan : [Rows -> Job], stopped : BOOLEAN, cancel : BOOLEAN]
    BY <1>1, <2>1, <2>5 DEF new
  <2> QED BY <2>4, <2>6, <2>7
<1> QED BY <1>2, <1>3

\* What a mounted chat screen does to a run that was left running.
LEMMA RecoverStep ==
  ASSUME IInv, Recover
  PROVE  RowsOk(row') /\ SettledKept(row') /\ StatusEarned /\ status' \in Statuses
<1>1. RowsOk(ReconciledRows) /\ SettledKept(ReconciledRows)
  BY ReconciledAll DEF IInv, ReconciledRows, SettledKept
<1>2. RowsOk(row) /\ SettledKept(row) /\ status \in Statuses
  BY DEF IInv, SettledKept, TypeOK
<1> QED BY <1>1, <1>2 DEF Recover, StatusEarned, Statuses

\* An unmounted card holds nothing.
LEMMA UnmountCard ==
  ASSUME Unmount
  PROVE  card' \in [pass : Pass \cup {NoPass}, refresh : Routing \cup {NoRouting}]
BY DEF Unmount

(***************************************************************************)
(* The card's actions: pause, cancel, unmount; the chat screen's return;   *)
(* the app's relaunch; and the deletion of the run.                        *)
(***************************************************************************)
LEMMA CardStep ==
  ASSUME IInv, Pause \/ Cancel \/ CancelBeforeStart \/ RemountCard \/ RemountScreen \/ DeleteRun
  PROVE  IInv' /\ SettledKept(row')
<1>1. TypeOK /\ UNCHANGED <<cursor, dirty, routing, sent>> /\ RoutingOk'
  BY SameRows DEF IInv, Pause, Cancel, CancelBeforeStart, RemountCard, RemountScreen, DeleteRun,
                  store
<1>2. /\ Quiet
      /\ pass' \in [Pass -> [pc : {"idle", "sending", "yielding"}, at : 1..(Count + 1),
                             plan : [Rows -> Job], stopped : BOOLEAN, cancel : BOOLEAN]]
  <2>1. CASE Stopped(TRUE) \/ Stopped(FALSE) \/ Unmount
    BY <1>1, <2>1, FlagsStep
  <2>2. CASE pass' = pass
    BY <1>1, <2>2 DEF Quiet, UnderWay, TypeOK
  <2> QED BY <2>1, <2>2 DEF Pause, Cancel, CancelBeforeStart, RemountCard, RemountScreen, DeleteRun
<1>3. RowsOk(row') /\ SettledKept(row')
  <2>1. CASE row' = row
    BY <2>1, SameRows
  <2>2. CASE Recover
    BY <2>2, RecoverStep
  <2> QED BY <2>1, <2>2 DEF Pause, Cancel, CancelBeforeStart, RemountCard, RemountScreen,
                            DeleteRun, store
<1>4. StatusEarned /\ status' \in Statuses
  <2>1. CASE status' = status
    BY <1>1, <2>1 DEF StatusEarned, TypeOK
  <2>2. CASE status' \in {"cancelled", "deleted"}
    BY <2>2 DEF StatusEarned, Statuses
  <2>3. CASE Recover
    BY <2>3, RecoverStep
  <2> QED BY <2>1, <2>2, <2>3 DEF Pause, Cancel, CancelBeforeStart, RemountCard, RemountScreen,
                                  DeleteRun, store
<1>5. card' \in [pass : Pass \cup {NoPass}, refresh : Routing \cup {NoRouting}]
  BY <1>1, UnmountCard DEF TypeOK, Pause, Cancel, CancelBeforeStart, RemountCard, RemountScreen,
                           DeleteRun
<1>6. active' \in BOOLEAN /\ excluded' \subseteq Rows
  BY <1>1 DEF TypeOK, Pause, Cancel, CancelBeforeStart, RemountCard, RemountScreen, DeleteRun
<1>7. TypeOK'
  BY <1>1, <1>2, <1>3, <1>4, <1>5, <1>6 DEF TypeOK, RowsOk
<1>8. RowsOk(row)'
  BY <1>2, <1>3, QuietRows
<1> QED BY <1>1, <1>2, <1>3, <1>4, <1>7, <1>8, QuietStep

\* A killed app loses every pass and every computation of the routes.
LEMMA RelaunchStep ==
  ASSUME IInv, Relaunch
  PROVE  IInv' /\ SettledKept(row')
<1>1. TypeOK /\ UNCHANGED <<cursor, dirty, sent, excluded>>
  BY DEF IInv, Relaunch
<1>2. RowsOk(row') /\ SettledKept(row') /\ StatusEarned /\ status' \in Statuses
  BY RecoverStep DEF Relaunch
<1>3. Quiet
  BY <1>1, IdleType DEF Relaunch, Quiet, UnderWay, IdlePass
<1>4. RoutingOk'
  BY IdleType DEF Relaunch, RoutingOk
<1>5. /\ pass' \in [Pass -> [pc : {"idle", "sending", "yielding"}, at : 1..(Count + 1),
                             plan : [Rows -> Job], stopped : BOOLEAN, cancel : BOOLEAN]]
      /\ routing' \in [Routing -> [busy : BOOLEAN, rows : [Rows -> Row]]]
      /\ card' \in [pass : Pass \cup {NoPass}, refresh : Routing \cup {NoRouting}]
      /\ active' \in BOOLEAN
  BY IdleType DEF Relaunch
<1>6. TypeOK'
  BY <1>1, <1>2, <1>5 DEF TypeOK, RowsOk
<1>7. RowsOk(row)'
  BY <1>2, <1>3, QuietRows
<1> QED BY <1>2, <1>3, <1>4, <1>6, <1>7, QuietStep

(***************************************************************************)
(* A computation of the routes reads good rows and routes them well.       *)
(***************************************************************************)
LEMMA RoutedRow ==
  ASSUME NEW x \in Row, GoodRow(x), NEW blocked
  PROVE  /\ Restored(x) \in Row /\ GoodRow(Restored(x))
         /\ Assigned(x, blocked) \in Row /\ GoodRow(Assigned(x, blocked))
<1>1. Restored(x) \in Row /\ GoodRow(Restored(x))
  BY DEF Restored, Row, GoodRow, Evidence, Settled
<1>2. Assigned(x, blocked) \in Row /\ GoodRow(Assigned(x, blocked))
  BY DEF Assigned, Row, GoodRow, Evidence, Settled
<1> QED BY <1>1, <1>2

\* It begins, of the card's or of the review screen's own accord.
LEMMA ReadStep ==
  ASSUME IInv, NEW q \in Routing, Refresh(q) \/ ChangePolicy(q)
  PROVE  IInv' /\ SettledKept(row')
<1> DEFINE rows == [r \in Rows |-> Restored(row[r])]
<1>1. /\ TypeOK /\ UNCHANGED <<status, cursor, dirty, row, pass, active, sent, excluded>>
      /\ routing' = [routing EXCEPT ![q] = [busy |-> TRUE, rows |-> rows]]
      /\ \/ card' = card
         \/ card' = [card EXCEPT !.refresh = q]
  BY DEF Refresh, ChangePolicy, ReadRows, store, IInv
<1>2. \A r \in Rows : row[r] \in Row /\ GoodRow(row[r])
  BY DEF IInv, RowsOk
<1>3. rows \in [Rows -> Row] /\ \A r \in Rows : GoodRow(rows[r])
  BY <1>2, RoutedRow
<1> HIDE DEF rows
<1>4. \A s \in Routing : routing'[s] = IF s = q THEN [busy |-> TRUE, rows |-> rows] ELSE routing[s]
  BY <1>1 DEF TypeOK
<1>5. RoutingOk'
  BY <1>3, <1>4 DEF IInv, RoutingOk
<1>6. routing' \in [Routing -> [busy : BOOLEAN, rows : [Rows -> Row]]]
  BY <1>1, <1>3 DEF TypeOK
<1>7. card' \in [pass : Pass \cup {NoPass}, refresh : Routing \cup {NoRouting}]
  BY <1>1 DEF TypeOK
<1>8. TypeOK'
  BY <1>1, <1>6, <1>7 DEF TypeOK
<1>9. Quiet /\ StatusEarned
  BY <1>1 DEF Quiet, UnderWay, StatusEarned
<1>10. RowsOk(row') /\ SettledKept(row')
  BY <1>1, SameRows
<1>11. RowsOk(row)'
  BY <1>9, <1>10, QuietRows
<1> QED BY <1>5, <1>8, <1>9, <1>10, <1>11, QuietStep

\* It ends, and writes back what it read.
LEMMA WriteStep ==
  ASSUME IInv, NEW q \in Routing, WriteRoutes(q) \/ RoutingFails(q)
  PROVE  IInv' /\ SettledKept(row')
<1>1. TypeOK /\ EndRouting(q) /\ UNCHANGED <<status, cursor, pass, active, sent, excluded>>
  BY DEF WriteRoutes, RoutingFails, store, IInv
<1>2. \A s \in Routing : routing'[s] = IF s = q THEN IdleRouting ELSE routing[s]
  BY <1>1 DEF EndRouting, TypeOK
<1>3. RoutingOk'
  BY <1>2, IdleType DEF IInv, RoutingOk
<1>4. routing' \in [Routing -> [busy : BOOLEAN, rows : [Rows -> Row]]]
  BY <1>1, IdleType DEF EndRouting, TypeOK
<1>5. card' \in [pass : Pass \cup {NoPass}, refresh : Routing \cup {NoRouting}]
  BY <1>1 DEF EndRouting, TypeOK
<1>6. dirty' \in BOOLEAN
  BY <1>1 DEF WriteRoutes, RoutingFails, store, TypeOK
<1>7. RowsOk(row') /\ SettledKept(row')
  <2>1. CASE row' = row
    BY <2>1, SameRows
  <2>2. CASE row' # row
    <3>1. PICK blocked \in SUBSET Rows :
            row' = Replaced([r \in Rows |-> Assigned(routing[q].rows[r], r \in blocked)])
      BY <2>2 DEF WriteRoutes, RoutingFails, store
    <3> DEFINE rows == [r \in Rows |-> Assigned(routing[q].rows[r], r \in blocked)]
    <3>2. \A r \in Rows : routing[q].rows[r] \in Row /\ GoodRow(routing[q].rows[r])
      BY <1>1 DEF IInv, RoutingOk, TypeOK
    <3>3. rows \in [Rows -> Row] /\ \A r \in Rows : GoodRow(rows[r])
      <4>1. ASSUME NEW r \in Rows PROVE rows[r] \in Row /\ GoodRow(rows[r])
        <5>1. /\ Assigned(routing[q].rows[r], r \in blocked) \in Row
              /\ GoodRow(Assigned(routing[q].rows[r], r \in blocked))
          BY <3>2, RoutedRow, Zenon
        <5> QED BY <5>1
      <4> QED BY <4>1
    <3> HIDE DEF rows
    <3>4. RowsOk(Replaced(rows)) /\ SettledKept(Replaced(rows))
      BY <3>3, ReplacedAll
    <3> QED BY <3>1, <3>4 DEF rows
  <2> QED BY <2>1, <2>2
<1>8. Quiet /\ StatusEarned
  BY <1>1 DEF Quiet, UnderWay, StatusEarned
<1>9. TypeOK'
  BY <1>1, <1>4, <1>5, <1>6, <1>7 DEF TypeOK, RowsOk
<1>10. RowsOk(row)'
  BY <1>7, <1>8, QuietRows
<1> QED BY <1>3, <1>7, <1>8, <1>9, <1>10, QuietStep

(***************************************************************************)
(* A skipped or restored row has no evidence, before and after.            *)
(***************************************************************************)
LEMMA SkipStep ==
  ASSUME IInv, NEW r \in Rows, Skip(r) \/ Restore(r)
  PROVE  IInv' /\ SettledKept(row')
<1>1. /\ TypeOK /\ UNCHANGED <<status, cursor, pass, routing, card, active, sent>>
      /\ dirty' = TRUE /\ (excluded' = excluded \cup {r} \/ excluded' = excluded \ {r})
      /\ row[r].status \in {"ready", "skipped"}
      /\ \E st \in {"ready", "skipped"} : row' = [row EXCEPT ![r].status = st]
  BY DEF Skip, Restore, IInv
<1>2. PICK st \in {"ready", "skipped"} : row' = [row EXCEPT ![r].status = st]
  BY <1>1
<1>3. row \in [Rows -> Row] /\ row[r] \in Row /\ GoodRow(row[r])
  BY DEF IInv, RowsOk
<1>4. ~Evidence(row[r]) /\ sent[r] = <<>>
  BY <1>1, <1>3 DEF GoodRow, IInv, RowsOk, Marked, Evidence
<1> DEFINE new == [row[r] EXCEPT !.status = st]
<1>5. new \in Row /\ GoodRow(new)
  BY <1>3, <1>4 DEF Row, GoodRow, Evidence, Settled
<1>6. row' = [row EXCEPT ![r] = new]
  BY <1>2, <1>3
<1> HIDE DEF new
<1>7. row' \in [Rows -> Row] /\ row'[r] = new /\ \A q \in Rows \ {r} : row'[q] = row[q]
  BY <1>3, <1>5, <1>6
<1>8. \A p \in Pass : UnderWay(p) => pass[p].at # r
  BY <1>1 DEF IInv, RowsOk
<1>9. RowsOk(row')
  BY <1>4, <1>5, <1>7, <1>8 DEF IInv, RowsOk, PassesOk
<1>10. SettledKept(row')
  BY <1>1, <1>7 DEF SettledKept, Settled
<1>11. TypeOK'
  BY <1>1, <1>7 DEF TypeOK
<1>12. Quiet /\ StatusEarned
  BY <1>1 DEF Quiet, UnderWay, StatusEarned
<1>13. RowsOk(row)' /\ RoutingOk'
  BY <1>1, <1>9, <1>12, QuietRows, SameRows
<1> QED BY <1>10, <1>11, <1>12, <1>13, QuietStep

\* A revalidated row without evidence has the key of its new content.
LEMMA RevalidatedRow ==
  ASSUME NEW x \in Row, GoodRow(x), NEW content \in Content \cup {Malformed}
  PROVE  /\ Revalidated(x, content) \in Row
         /\ Evidence(x) \/ GoodRow(Revalidated(x, content))
<1>1. Revalidated(x, content) \in Row
  BY DEF Revalidated, Row
<1>2. ASSUME ~Evidence(x) PROVE GoodRow(Revalidated(x, content))
  BY <1>2 DEF Revalidated, Editable, Row, GoodRow, Evidence, Settled
<1> QED BY <1>1, <1>2

\* An edit replaces all the rows.
LEMMA EditStep ==
  ASSUME IInv, NEW r \in Rows, NEW content \in Content \cup {Malformed}, Edit(r, content)
  PROVE  IInv' /\ SettledKept(row')
<1> DEFINE rows == [q \in Rows |-> Revalidated(row[q], IF q = r THEN content ELSE row[q].content)]
<1>1. /\ TypeOK /\ UNCHANGED <<status, cursor, pass, routing, card, active, sent>>
      /\ row' = Replaced(rows)
      /\ dirty' = TRUE /\ (excluded' = excluded \/ excluded' = excluded \ {r})
  BY DEF Edit, IInv
<1>2. \A q \in Rows : row[q] \in Row /\ GoodRow(row[q])
  BY DEF IInv, RowsOk
<1>3. \A q \in Rows : (IF q = r THEN content ELSE row[q].content) \in Content \cup {Malformed}
  BY <1>2 DEF Row
<1>4. \A q \in Rows : rows[q] \in Row /\ (Evidence(row[q]) \/ GoodRow(rows[q]))
  BY <1>2, <1>3, RevalidatedRow
<1>5. rows \in [Rows -> Row]
  BY <1>4
<1> HIDE DEF rows
<1>6. RowsOk(row') /\ SettledKept(row')
  BY <1>1, <1>4, <1>5, ReplacedAll
<1>7. TypeOK'
  BY <1>1, <1>6 DEF TypeOK, RowsOk
<1>8. Quiet /\ StatusEarned
  BY <1>1 DEF Quiet, UnderWay, StatusEarned
<1>9. RowsOk(row)' /\ RoutingOk'
  BY <1>1, <1>6, <1>8, QuietRows, SameRows
<1> QED BY <1>6, <1>7, <1>8, <1>9, QuietStep

(***************************************************************************)
(* The invariant holds at first: nothing has been submitted, and a row is  *)
(* as validation, or an older build, left it.                              *)
(***************************************************************************)
LEMMA InitIInv == Init => IInv
<1> SUFFICES ASSUME Init PROVE IInv
  OBVIOUS
<1>1. /\ cursor = 1
      /\ pass = [p \in Pass |-> IdlePass]
      /\ routing = [q \in Routing |-> IdleRouting]
      /\ card = [pass |-> NoPass, refresh |-> NoRouting]
      /\ sent = [r \in Rows |-> <<>>]
      /\ excluded = {}
  BY DEF Init
<1>2. row \in [Rows -> Row] /\ \A r \in Rows : GoodRow(row[r])
  <2>1. CASE Staged
    <3>1. PICK c \in Content, bad \in SUBSET Rows, blocked \in SUBSET Rows :
            row = [r \in Rows |-> IF r \in bad THEN Fresh("invalid", Malformed, FALSE)
                                  ELSE IF r \in blocked THEN Fresh("invalid", c, FALSE)
                                  ELSE Fresh("ready", c, TRUE)]
      BY <2>1 DEF Staged
    <3> QED BY <3>1, FreshType
  <2>2. CASE Inherited
    <3>1. PICK c \in Content, st \in [Rows -> {"ready", "sending", "failed"}] :
            row = [r \in Rows |-> Fresh(st[r], c, TRUE)]
      BY <2>2 DEF Inherited
    <3> QED BY <3>1, FreshType
  <2> QED BY <2>1, <2>2 DEF Init
<1>3. status \in Statuses \ {"completed", "completed_with_claims_pending"}
      /\ dirty \in BOOLEAN /\ active \in BOOLEAN
  BY DEF Init, Staged, Inherited, Statuses
<1>4. cursor \in 1..(Count + 1)
  BY <1>1, PayrollAssumption
<1>5. sent \in [Rows -> Seq(Content \cup {Malformed})]
  BY <1>1
<1>6. TypeOK
  BY <1>1, <1>2, <1>3, <1>4, <1>5, IdleType DEF TypeOK
<1>7. RowsOk(row) /\ PassesOk /\ RoutingOk
  BY <1>1, <1>2, IdleType DEF RowsOk, PassesOk, RoutingOk, UnderWay
<1> QED BY <1>3, <1>6, <1>7 DEF IInv, CompletedIsPaid

(***************************************************************************)
(* Every step keeps it, and keeps what is settled.                         *)
(***************************************************************************)
LEMMA NextIInv == IInv /\ [Next]_vars => IInv' /\ SettledKept(row')
<1> SUFFICES ASSUME IInv, [Next]_vars PROVE IInv' /\ SettledKept(row')
  OBVIOUS
<1>1. ASSUME NEW p \in Pass, Start(p) PROVE IInv' /\ SettledKept(row')
  BY <1>1, StartStep
<1>2. ASSUME NEW p \in Pass, Retry(p) PROVE IInv' /\ SettledKept(row')
  BY <1>2, RetryStep
<1>3. ASSUME NEW p \in Pass, Submitted(p) \/ Failed(p) PROVE IInv' /\ SettledKept(row')
  BY <1>3, SubmittedStep
<1>4. ASSUME NEW p \in Pass, Aborted(p) PROVE IInv' /\ SettledKept(row')
  BY <1>4, AbortedStep
<1>5. ASSUME NEW p \in Pass, Continue(p) PROVE IInv' /\ SettledKept(row')
  BY <1>5, ContinueStep
<1>6. CASE Pause \/ Cancel \/ CancelBeforeStart \/ RemountCard \/ RemountScreen \/ DeleteRun
  BY <1>6, CardStep
<1>7. CASE Relaunch
  BY <1>7, RelaunchStep
<1>8. ASSUME NEW q \in Routing, Refresh(q) \/ ChangePolicy(q) PROVE IInv' /\ SettledKept(row')
  BY <1>8, ReadStep
<1>9. ASSUME NEW q \in Routing, WriteRoutes(q) \/ RoutingFails(q)
      PROVE  IInv' /\ SettledKept(row')
  BY <1>9, WriteStep
<1>10. ASSUME NEW r \in Rows, Skip(r) \/ Restore(r) PROVE IInv' /\ SettledKept(row')
  BY <1>10, SkipStep
<1>11. ASSUME NEW r \in Rows, NEW c \in Content \cup {Malformed}, Edit(r, c)
       PROVE  IInv' /\ SettledKept(row')
  BY <1>11, EditStep
<1>12. CASE UNCHANGED vars
  <2>1. UNCHANGED <<status, cursor, dirty, row, pass, routing, card, active, sent, excluded>>
    BY <1>12 DEF vars, store
  <2> QED BY <2>1 DEF IInv, TypeOK, RowsOk, PassesOk, UnderWay, RoutingOk, CompletedIsPaid,
                      SettledKept
<1> QED
  BY <1>1, <1>2, <1>3, <1>4, <1>5, <1>6, <1>7, <1>8, <1>9, <1>10, <1>11, <1>12 DEF Next

\* So it always holds.
THEOREM Invariance == Spec => []IInv
BY InitIInv, NextIInv, PTL DEF Spec

\* Every row, pass and computation of the routes keeps its shape.
THEOREM TypeCorrect == Spec => []TypeOK
<1>1. IInv => TypeOK
  BY DEF IInv
<1> QED BY <1>1, Invariance, PTL

\* No row is given to a route submitter twice.
THEOREM PaidOnce == Spec => []SentOnce
<1>1. IInv => SentOnce
  <2> SUFFICES ASSUME IInv, NEW r \in Rows PROVE Len(sent[r]) <= 1
    BY DEF SentOnce
  <2>1. sent[r] = <<>> \/ sent[r] = <<row[r].key>>
    BY DEF IInv, RowsOk
  <2>2. CASE sent[r] = <<>>
    BY <2>2
  <2>3. CASE sent[r] = <<row[r].key>>
    <3>1. Len(<<row[r].key>>) = 1
      OBVIOUS
    <3> QED BY <2>3, <3>1
  <2> QED BY <2>1, <2>2, <2>3
<1> QED BY <1>1, Invariance, PTL

\* A row whose submission began shows it as long as the run exists.
THEOREM SubmissionShows == Spec => []SentIsMarked
<1>1. IInv => SentIsMarked
  BY DEF IInv, RowsOk, SentIsMarked, Marked
<1> QED BY <1>1, Invariance, PTL

\* What was paid is what the key of the stored row says.
THEOREM KeyKept == Spec => []SentAsKeyed
<1>1. IInv => SentAsKeyed
  <2> SUFFICES ASSUME IInv, NEW r \in Rows, sent[r] # <<>>
               PROVE  sent[r][Len(sent[r])] = row[r].key
    BY DEF SentAsKeyed
  <2>1. sent[r] = <<row[r].key>>
    BY DEF IInv, RowsOk
  <2> QED BY <2>1
<1> QED BY <1>1, Invariance, PTL

\* A completed run has paid every row.
THEOREM CompletedPaid == Spec => []CompletedIsPaid
<1>1. IInv => CompletedIsPaid
  BY DEF IInv
<1> QED BY <1>1, Invariance, PTL

\* No step takes a settled row back.
THEOREM SettledFinal == Spec => SettledStays
<1>1. IInv /\ [Next]_vars =>
        [\A r \in Rows : row[r].status \in Settled => row'[r].status = row[r].status]_vars
  BY NextIInv DEF SettledKept
<1> QED BY <1>1, Invariance, PTL DEF Spec, SettledStays

(***************************************************************************)
(* The batch of PaymentBatch. A route computation never holds a signature  *)
(* that the store's row does not show: so no stale row can bring an        *)
(* outcome with it to a row that was not paid.                             *)
(***************************************************************************)
RoutedPaid == \A q \in Routing, r \in Rows : routing[q].rows[r].sig => row[r].sig

SigKept(rows) == \A r \in Rows : row[r].sig => rows[r].sig

Out(x) == IF x.status \in Settled THEN x.status ELSE "none"

\* The batch sees no difference between the rows.
Alike(x, y) == y.key = x.key /\ Out(y) = Out(x) /\ (x.sig => y.sig)

\* It sees that a row without evidence says something else.
Reworded(x, y) == (Evidence(x) => y.key = x.key) /\ Out(y) = Out(x) /\ (x.sig => y.sig)

\* What a step does to the batch, and the four kinds of it.
Unseen == sent' = sent /\ \A r \in Rows : Alike(row[r], row'[r])

Rewording == sent' = sent /\ status' = status /\ \A r \in Rows : Reworded(row[r], row'[r])

Giving ==
  /\ status \notin {"completed", "completed_with_claims_pending"}
  /\ status' \notin {"completed", "completed_with_claims_pending"}
  /\ \A q \in Rows : Alike(row[q], row'[q])
  /\ \E r \in Rows : sent[r] = <<>> /\ sent' = [sent EXCEPT ![r] = <<row[r].key>>]

Recording ==
  /\ sent' = sent /\ status' = status
  /\ \E r \in Rows :
       /\ sent[r] # <<>> /\ Out(row[r]) = "none" /\ row'[r].status \in Settled
       /\ row'[r].key = row[r].key /\ (row[r].sig => row'[r].sig)
       /\ \A q \in Rows \ {r} : row'[q] = row[q]

Seen == Unseen \/ Rewording \/ Giving \/ Recording

\* No step loses a signature.
LEMMA SeenSig == ASSUME Seen PROVE SigKept(row')
<1>1. CASE Unseen
  BY <1>1 DEF Unseen, Alike, SigKept
<1>2. CASE Rewording
  BY <1>2 DEF Rewording, Reworded, SigKept
<1>3. CASE Giving
  BY <1>3 DEF Giving, Alike, SigKept
<1>4. CASE Recording
  BY <1>4 DEF Recording, SigKept
<1> QED BY <1>1, <1>2, <1>3, <1>4 DEF Seen

(***************************************************************************)
(* Rows under reconciliation, retry, claim and failure are alike.          *)
(***************************************************************************)
LEMMA AlikeRow ==
  ASSUME NEW x \in Row
  PROVE  /\ Alike(x, x)
         /\ Alike(x, Reconciled(x))
         /\ x.status = "ready" => Alike(x, Claimed(x))
         /\ x.status = "failed" => Alike(x, [x EXCEPT !.status = "ready"])
         /\ x.status \in {"sending", "failed"} => Alike(x, Updated(x, "failed", TRUE, FALSE))
         /\ \A st \in {"ready", "skipped"} :
              x.status \in {"ready", "skipped"} => Alike(x, [x EXCEPT !.status = st])
BY DEF Alike, Out, Reconciled, Claimed, Updated, Row, Settled

\* One difference after another that is not seen is not seen.
LEMMA AlikeTrans ==
  ASSUME NEW x, NEW y, NEW z, Alike(x, y), Alike(y, z)
  PROVE  Alike(x, z)
BY DEF Alike

\* A replacement without news of a signature only rewords.
LEMMA PreservedRewords ==
  ASSUME NEW old \in Row, GoodRow(old), NEW new \in Row,
         Evidence(old) \/ Out(new) = "none"
  PROVE  Reworded(old, Preserved(old, new))
<1>1. CASE ~Evidence(old)
  BY <1>1 DEF Preserved, Reworded, GoodRow, Out, Evidence
<1>2. CASE Evidence(old)
  BY <1>2 DEF Preserved, Reworded, Out, Row
<1> QED BY <1>1, <1>2

\* So does the replacement of all the rows.
LEMMA ReplacedRewords ==
  ASSUME IInv, NEW rows \in [Rows -> Row], row' = Replaced(rows),
         \A r \in Rows : Evidence(row[r]) \/ Out(rows[r]) = "none",
         sent' = sent, status' = status
  PROVE  Rewording
<1>1. ASSUME NEW r \in Rows PROVE Reworded(row[r], row'[r])
  <2>1. row[r] \in Row /\ GoodRow(row[r]) /\ rows[r] \in Row
    BY DEF IInv, RowsOk
  <2>2. Reworded(row[r], Preserved(row[r], rows[r]))
    BY <2>1, PreservedRewords
  <2> QED BY <2>2 DEF Replaced
<1> QED BY <1>1 DEF Rewording

(***************************************************************************)
(* A row is given as its key says, and only while the run is not complete. *)
(***************************************************************************)
LEMMA SubmitNextGives ==
  ASSUME IInv, NEW p \in Pass, NEW rows, RowsOk(rows),
         \A r \in Rows : Alike(row[r], rows[r]),
         NEW plan \in [Rows -> Job],
         \A r \in Rows : plan[r].go => plan[r].content = plan[r].key,
         NEW from, SubmitNext(p, rows, plan, from), status' \in {status, "running"}
  PROVE  Giving
<1>1. PICK r \in Ahead(rows, plan, from) :
        /\ row' = [rows EXCEPT ![r] = Claimed(rows[r])]
        /\ sent' = [sent EXCEPT ![r] = Append(sent[r], plan[r].content)]
  BY DEF SubmitNext
<1>2. /\ r \in Rows /\ plan[r].go /\ Claimable(rows[r], plan[r])
      /\ TypeOK /\ rows \in [Rows -> Row]
  BY <1>1 DEF Ahead, IInv, RowsOk
<1>3. rows[r].status = "ready" /\ ~Evidence(rows[r]) /\ plan[r].key = rows[r].key
  BY <1>2 DEF Claimable, Sendable
<1>4. sent[r] = <<>>
  BY <1>2, <1>3 DEF RowsOk, Marked, Evidence
<1>5. plan[r].content = row[r].key /\ row[r].key \in Content \cup {Malformed}
  BY <1>2, <1>3 DEF Alike, Job
<1>6. sent' = [sent EXCEPT ![r] = <<row[r].key>>]
  BY <1>1, <1>4, <1>5
<1>7. ASSUME NEW q \in Rows PROVE Alike(row[q], row'[q])
  <2>1. CASE q # r
    BY <1>1, <1>2, <2>1
  <2>2. CASE q = r
    <3>1. Alike(rows[r], Claimed(rows[r]))
      BY <1>2, <1>3, AlikeRow
    <3>2. Alike(row[r], Claimed(rows[r]))
      BY <1>2, <3>1, AlikeTrans
    <3> QED BY <1>1, <1>2, <2>2, <3>2
  <2> QED BY <2>1, <2>2
<1>8. Out(row[r]) = "none"
  BY <1>2, <1>3 DEF Alike, Out, Settled
<1>9. status \notin {"completed", "completed_with_claims_pending"}
  BY <1>2, <1>8 DEF IInv, CompletedIsPaid, Out, Settled
<1> QED BY <1>2, <1>4, <1>6, <1>7, <1>9 DEF Giving

\* The executor's first step either gives a row or changes no row that is seen.
LEMMA ExecuteSeen ==
  ASSUME IInv, NEW p \in Pass, NEW rows, RowsOk(rows), \A r \in Rows : Alike(row[r], rows[r]),
         NEW from, Execute(p, rows, from)
  PROVE  Seen
<1>1. CASE SubmitNext(p, rows, Plan(rows), from) /\ status' = "running"
  BY <1>1, PlanOk, SubmitNextGives DEF Seen
<1>2. CASE NothingLeft(p, rows, Plan(rows), from)
  BY <1>2 DEF NothingLeft, Seen, Unseen
<1> QED BY <1>1, <1>2 DEF Execute

\* "Confirm", "Resume" and "Retry failed" reconcile rows first.
LEMMA StartSeen ==
  ASSUME IInv, NEW p \in Pass, Start(p) \/ Retry(p)
  PROVE  Seen
<1>1. \A r \in Rows : row[r] \in Row /\ GoodRow(row[r])
  BY DEF IInv, RowsOk
<1>2. CASE Start(p)
  <2>1. \A r \in Rows : Alike(row[r], ReconciledRows[r])
    BY <1>1, AlikeRow DEF ReconciledRows
  <2>2. RowsOk(ReconciledRows)
    BY ReconciledAll DEF IInv, ReconciledRows
  <2>3. Execute(p, ReconciledRows, cursor)
    BY <1>2 DEF Start
  <2> HIDE DEF ReconciledRows
  <2> QED BY <2>1, <2>2, <2>3, ExecuteSeen
<1>3. CASE Retry(p)
  <2> DEFINE rows == RetryRows
             new == [r \in Rows |-> Reconciled(rows[r])]
  <2>1. PICK first \in Rows : Execute(p, new, first)
    BY <1>3 DEF Retry
  <2>2. RowsOk(new)
    BY RetryRowsOk
  <2>3. ASSUME NEW r \in Rows PROVE Alike(row[r], new[r])
    <3>1. rows[r] \in Row /\ Alike(row[r], rows[r])
      BY <1>1, AlikeRow, RetryRowsOk DEF RetryRows, FailedBefore
    <3>2. Alike(rows[r], Reconciled(rows[r]))
      BY <3>1, AlikeRow
    <3> QED BY <3>1, <3>2, AlikeTrans
  <2> HIDE DEF new
  <2> QED BY <2>1, <2>2, <2>3, ExecuteSeen
<1> QED BY <1>2, <1>3

\* A submission that ends is recorded, unless the run was deleted meanwhile.
LEMMA EndSeen ==
  ASSUME IInv, NEW p \in Pass, Submitted(p) \/ Failed(p) \/ Aborted(p)
  PROVE  Seen
<1> DEFINE at == pass[p].at
<1>1. /\ TypeOK /\ UnderWay(p) /\ sent' = sent
      /\ at \in Rows /\ sent[at] # <<>> /\ row \in [Rows -> Row] /\ row[at] \in Row
  BY DEF Submitted, Failed, Aborted, UnderWay, IInv, PassesOk, RowsOk
<1>2. row[at].status \in {"sending", "failed"}
  BY <1>1 DEF IInv, RowsOk
<1>3. CASE row' = row
  <2>1. \A r \in Rows : Alike(row[r], row'[r])
    BY <1>3 DEF Alike
  <2> QED BY <1>1, <2>1 DEF Seen, Unseen
<1>4. CASE (Failed(p) \/ Aborted(p)) /\ row' = [row EXCEPT ![at] = Updated(row[at], "failed", TRUE, FALSE)]
  <2>1. \A r \in Rows : Alike(row[r], row'[r])
    BY <1>1, <1>2, <1>4, AlikeRow
  <2> QED BY <1>1, <2>1 DEF Seen, Unseen
<1>5. CASE /\ Submitted(p)
           /\ \E o \in Outcomes : row' = [row EXCEPT ![at] = Updated(row[at], o, FALSE, TRUE)]
  <2>1. PICK o \in Outcomes : row' = [row EXCEPT ![at] = Updated(row[at], o, FALSE, TRUE)]
    BY <1>5
  <2>2. o \in Settled
    BY PayrollAssumption
  <2>3. /\ row'[at].status \in Settled /\ row'[at].key = row[at].key
        /\ row[at].sig => row'[at].sig
        /\ \A q \in Rows \ {at} : row'[q] = row[q]
    BY <1>1, <2>1, <2>2 DEF Updated, Row
  <2>4. Out(row[at]) = "none"
    BY <1>2 DEF Out, Settled
  <2>5. status' = status
    BY <1>5 DEF Submitted, Yield
  <2> HIDE DEF at
  <2> QED BY <1>1, <2>3, <2>4, <2>5 DEF Seen, Recording
<1>6. \/ row' = row
      \/ (Failed(p) \/ Aborted(p))
         /\ row' = [row EXCEPT ![at] = Updated(row[at], "failed", TRUE, FALSE)]
      \/ Submitted(p)
         /\ \E o \in Outcomes : row' = [row EXCEPT ![at] = Updated(row[at], o, FALSE, TRUE)]
  BY DEF Submitted, Failed, Aborted, Record
<1> QED BY <1>3, <1>4, <1>5, <1>6

\* The loop goes on.
LEMMA ContinueSeen ==
  ASSUME IInv, NEW p \in Pass, Continue(p)
  PROVE  Seen
<1> DEFINE from == pass[p].at
           plan == pass[p].plan
<1>1. \A r \in Rows : Alike(row[r], row[r])
  BY DEF Alike
<1>2. /\ plan \in [Rows -> Job] /\ RowsOk(row)
      /\ \A r \in Rows : plan[r].go => plan[r].content = plan[r].key
  BY DEF IInv, TypeOK, PassesOk
<1>3. \/ UNCHANGED <<row, sent>>
      \/ SubmitNext(p, row, plan, from) /\ status' = status
      \/ NothingLeft(p, row, plan, from)
  BY DEF Continue
<1> HIDE DEF from, plan
<1>4. CASE SubmitNext(p, row, plan, from) /\ status' = status
  BY <1>1, <1>2, <1>4, SubmitNextGives DEF Seen
<1>5. CASE UNCHANGED <<row, sent>> \/ NothingLeft(p, row, plan, from)
  BY <1>1, <1>5 DEF NothingLeft, Seen, Unseen
<1> QED BY <1>3, <1>4, <1>5

\* The card, the screen's return, the relaunch and the deletion change no row that is seen.
LEMMA CardSeen ==
  ASSUME IInv,
         Pause \/ Cancel \/ CancelBeforeStart \/ RemountCard \/ RemountScreen \/ DeleteRun \/ Relaunch
  PROVE  Seen
<1>1. sent' = sent /\ (row' = row \/ row' = ReconciledRows)
  BY DEF Pause, Cancel, CancelBeforeStart, RemountCard, RemountScreen, DeleteRun, Relaunch,
         Recover, store
<1>2. \A r \in Rows : row[r] \in Row
  BY DEF IInv, RowsOk
<1>3. \A r \in Rows : Alike(row[r], row[r]) /\ Alike(row[r], ReconciledRows[r])
  BY <1>2, AlikeRow DEF ReconciledRows
<1> QED BY <1>1, <1>3 DEF Seen, Unseen

\* The beginning of a route computation, skip and restore change none either.
LEMMA UserSeen ==
  ASSUME IInv,
         \/ \E q \in Routing : Refresh(q) \/ ChangePolicy(q) \/ RoutingFails(q)
         \/ \E r \in Rows : Skip(r) \/ Restore(r)
         \/ UNCHANGED vars
  PROVE  Seen
<1>1. \A r \in Rows : row[r] \in Row
  BY DEF IInv, RowsOk
<1>2. CASE UNCHANGED <<row, sent>>
  BY <1>1, <1>2, AlikeRow DEF Seen, Unseen
<1>3. ASSUME NEW r \in Rows, Skip(r) \/ Restore(r) PROVE Seen
  <2>1. PICK st \in {"ready", "skipped"} : row' = [row EXCEPT ![r].status = st]
    BY <1>3 DEF Skip, Restore
  <2>2. row[r].status \in {"ready", "skipped"} /\ sent' = sent
    BY <1>3 DEF Skip, Restore
  <2>3. row \in [Rows -> Row]
    BY DEF IInv, RowsOk
  <2>4. Alike(row[r], [row[r] EXCEPT !.status = st])
    BY <1>1, <2>2, AlikeRow
  <2>5. \A q \in Rows : Alike(row[q], row'[q])
    BY <1>1, <2>1, <2>3, <2>4, AlikeRow
  <2> QED BY <2>2, <2>5 DEF Seen, Unseen
<1>4. \/ UNCHANGED <<row, sent>>
      \/ \E r \in Rows : Skip(r) \/ Restore(r)
  BY DEF Refresh, ChangePolicy, RoutingFails, vars, store
<1> QED BY <1>2, <1>3, <1>4

(***************************************************************************)
(* Stale rows are written back: where one shows an outcome, so does the    *)
(* row in the store, which then stands.                                    *)
(***************************************************************************)
LEMMA WriteSeen ==
  ASSUME IInv, RoutedPaid, NEW q \in Routing, WriteRoutes(q)
  PROVE  Seen
<1>1. sent' = sent /\ status' = status /\ TypeOK
  BY DEF WriteRoutes, IInv
<1>2. CASE row' = row
  BY <1>1, <1>2 DEF Seen, Unseen, Alike
<1>3. CASE row' # row
  <2>1. PICK blocked \in SUBSET Rows :
          row' = Replaced([r \in Rows |-> Assigned(routing[q].rows[r], r \in blocked)])
    BY <1>3 DEF WriteRoutes
  <2> DEFINE rows == [r \in Rows |-> Assigned(routing[q].rows[r], r \in blocked)]
  <2>2. ASSUME NEW r \in Rows
        PROVE  rows[r] \in Row /\ (Evidence(row[r]) \/ Out(rows[r]) = "none")
    <3>1. routing[q].rows[r] \in Row /\ GoodRow(routing[q].rows[r])
      BY <1>1 DEF IInv, RoutingOk, TypeOK
    <3>2. Assigned(routing[q].rows[r], r \in blocked) \in Row
      BY <3>1, RoutedRow, Zenon
    <3>3. Assigned(routing[q].rows[r], r \in blocked).status
            \in {routing[q].rows[r].status, "ready", "invalid"}
      BY <3>1 DEF Assigned, Row
    <3>4. ~Evidence(row[r]) => routing[q].rows[r].status \notin Settled
      BY <3>1 DEF RoutedPaid, Evidence, GoodRow
    <3> QED BY <3>2, <3>3, <3>4 DEF Out, Settled
  <2>3. rows \in [Rows -> Row]
    BY <2>2
  <2>4. \A r \in Rows : Evidence(row[r]) \/ Out(rows[r]) = "none"
    BY <2>2
  <2> HIDE DEF rows
  <2>5. Rewording
    BY <1>1, <2>1, <2>3, <2>4, ReplacedRewords DEF rows
  <2> QED BY <2>5 DEF Seen
<1> QED BY <1>2, <1>3

\* An edit changes what rows say that were not given.
LEMMA EditSeen ==
  ASSUME IInv, NEW r \in Rows, NEW content \in Content \cup {Malformed}, Edit(r, content)
  PROVE  Seen
<1> DEFINE rows == [q \in Rows |-> Revalidated(row[q], IF q = r THEN content ELSE row[q].content)]
<1>1. row' = Replaced(rows) /\ sent' = sent /\ status' = status
  BY DEF Edit
<1>2. ASSUME NEW q \in Rows, NEW c \in Content \cup {Malformed}
      PROVE  /\ Revalidated(row[q], c) \in Row
             /\ Evidence(row[q]) \/ Out(Revalidated(row[q], c)) = "none"
  <2>1. row[q] \in Row /\ GoodRow(row[q])
    BY DEF IInv, RowsOk
  <2>2. Revalidated(row[q], c) \in Row
    BY <2>1, RevalidatedRow
  <2>3. ~Evidence(row[q]) => Out(Revalidated(row[q], c)) = "none"
    BY <2>1 DEF Revalidated, Editable, Out, GoodRow, Evidence, Row, Settled
  <2> QED BY <2>2, <2>3
<1>3. \A q \in Rows : (IF q = r THEN content ELSE row[q].content) \in Content \cup {Malformed}
  BY DEF IInv, RowsOk, Row
<1>4. \A q \in Rows : rows[q] \in Row /\ (Evidence(row[q]) \/ Out(rows[q]) = "none")
  BY <1>2, <1>3
<1>5. rows \in [Rows -> Row]
  BY <1>4
<1> HIDE DEF rows
<1> QED BY <1>1, <1>4, <1>5, ReplacedRewords DEF Seen

\* Every step is of one of the four kinds.
LEMMA NextSeen == ASSUME IInv, RoutedPaid, [Next]_vars PROVE Seen
BY StartSeen, EndSeen, ContinueSeen, CardSeen, UserSeen, WriteSeen, EditSeen DEF Next

\* A computation's signatures are those it read, and none is ever lost.
LEMMA RoutedPaidStep ==
  ASSUME IInv, RoutedPaid, [Next]_vars
  PROVE  RoutedPaid'
<1>1. SigKept(row')
  BY NextSeen, SeenSig
<1>2. ASSUME NEW s \in Routing, NEW r \in Rows
      PROVE  routing'[s].rows[r].sig =>
               \/ routing[s].rows[r].sig
               \/ row[r].sig
  <2>1. TypeOK /\ row[r] \in Row
    BY DEF IInv, RowsOk
  <2>2. IdleRouting.rows[r].sig = FALSE
    BY DEF IdleRouting, NoRows, Fresh
  <2>3. Restored(row[r]).sig = row[r].sig
    BY <2>1 DEF Restored, Row
  <2>4. CASE routing' = routing
    BY <2>4
  <2>5. CASE \E q \in Routing : EndRouting(q)
    BY <2>1, <2>2, <2>5 DEF EndRouting, TypeOK
  <2>6. CASE \E q \in Routing : ReadRows(q)
    BY <2>1, <2>3, <2>6 DEF ReadRows, TypeOK
  <2>7. CASE Relaunch
    BY <2>2, <2>7 DEF Relaunch
  <2>8. \/ routing' = routing \/ \E q \in Routing : EndRouting(q)
        \/ \E q \in Routing : ReadRows(q)
        \/ Relaunch
    <3>1. CASE UNCHANGED vars
      BY <3>1 DEF vars
    <3>2. ASSUME NEW p \in Pass, Start(p) \/ Retry(p) PROVE routing' = routing
      BY <3>2 DEF Start, Retry, Execute
    <3>3. ASSUME NEW p \in Pass, Submitted(p) \/ Failed(p) \/ Aborted(p) \/ Continue(p)
          PROVE  routing' = routing
      BY <3>3 DEF Submitted, Failed, Aborted, Continue
    <3>4. CASE Pause \/ Cancel \/ CancelBeforeStart \/ RemountCard \/ RemountScreen \/ DeleteRun
      BY <3>4 DEF Pause, Cancel, CancelBeforeStart, RemountCard, RemountScreen, DeleteRun
    <3>5. ASSUME NEW q \in Routing,
                 Refresh(q) \/ ChangePolicy(q) \/ WriteRoutes(q) \/ RoutingFails(q)
          PROVE  EndRouting(q) \/ ReadRows(q)
      BY <3>5 DEF Refresh, ChangePolicy, WriteRoutes, RoutingFails
    <3>6. ASSUME NEW q \in Rows, Skip(q) \/ Restore(q) \/ \E c \in Content \cup {Malformed} : Edit(q, c)
          PROVE  routing' = routing
      BY <3>6 DEF Skip, Restore, Edit
    <3> QED BY <3>1, <3>2, <3>3, <3>4, <3>5, <3>6 DEF Next
  <2> QED BY <2>4, <2>5, <2>6, <2>7, <2>8
<1> QED BY <1>1, <1>2 DEF RoutedPaid, SigKept

\* At first no computation is under way.
LEMMA RoutedPaidInit == Init => RoutedPaid
<1> SUFFICES ASSUME Init, NEW q \in Routing, NEW r \in Rows PROVE ~routing[q].rows[r].sig
  BY DEF RoutedPaid
<1>1. IdleRouting.rows[r].sig = FALSE
  BY DEF IdleRouting, NoRows, Fresh
<1> QED BY <1>1 DEF Init

(***************************************************************************)
(* The refinement. A step that the batch does not see may still change the *)
(* run's status: it reports completion of settled rows only, or withdraws  *)
(* it.                                                                     *)
(***************************************************************************)
LEMMA SaysAndOutcomes ==
  /\ \A r \in Rows : OutcomeOf(r) = Out(row[r])
  /\ \A r \in Rows : OutcomeOf(r)' = Out(row'[r])
BY DEF OutcomeOf, Out

\* What is not seen completes the run, withdraws its completion, or is nothing.
LEMMA UnseenStep ==
  ASSUME IInv', Unseen
  PROVE  [Batch!Next]_(Batch!vars)
<1>1. /\ [r \in Rows |-> row[r].key]' = [r \in Rows |-> row[r].key]
      /\ [r \in Rows |-> OutcomeOf(r)]' = [r \in Rows |-> OutcomeOf(r)]
      /\ sent' = sent
  BY SaysAndOutcomes DEF Unseen, Alike
<1>2. CASE status' \in {"completed", "completed_with_claims_pending"}
  <2>1. \A r \in Rows : OutcomeOf(r)' # "none"
    BY <1>2, SaysAndOutcomes DEF IInv, CompletedIsPaid, Out, Settled
  <2>2. \A r \in Rows : OutcomeOf(r) # "none"
    BY <2>1, SaysAndOutcomes DEF Unseen, Alike
  <2>3. Batch!Complete
    BY <1>1, <1>2, <2>2 DEF Batch!Complete, Batch!None
  <2> QED BY <2>3 DEF Batch!Next
<1>3. CASE status' \notin {"completed", "completed_with_claims_pending"}
  <2>1. Batch!Reopen
    BY <1>1, <1>3 DEF Batch!Reopen
  <2> QED BY <2>1 DEF Batch!Next
<1> QED BY <1>2, <1>3

\* A row that was given shows evidence, and keeps its key.
LEMMA RewordingStep ==
  ASSUME IInv, IInv', Rewording
  PROVE  [Batch!Next]_(Batch!vars)
<1>1. [r \in Rows |-> OutcomeOf(r)]' = [r \in Rows |-> OutcomeOf(r)]
  BY SaysAndOutcomes DEF Rewording, Reworded
<1>2. [r \in Rows |-> row[r].key]' \in [Rows -> Content \cup {Malformed}]
  <2>1. \A r \in Rows : row'[r].key \in Content \cup {Malformed}
    BY DEF IInv, RowsOk, Row
  <2> QED BY <2>1
<1>3. \A r \in Rows : sent[r] # <<>> => row'[r].key = row[r].key
  BY DEF IInv, RowsOk, Marked, Evidence, Rewording, Reworded
<1>4. Batch!Reword
  BY <1>1, <1>2, <1>3 DEF Batch!Reword, Rewording
<1> QED BY <1>4 DEF Batch!Next

\* A row is given.
LEMMA GivingStep ==
  ASSUME IInv, Giving
  PROVE  [Batch!Next]_(Batch!vars)
<1>1. /\ [r \in Rows |-> row[r].key]' = [r \in Rows |-> row[r].key]
      /\ [r \in Rows |-> OutcomeOf(r)]' = [r \in Rows |-> OutcomeOf(r)]
  BY SaysAndOutcomes DEF Giving, Alike
<1>2. PICK r \in Rows : sent[r] = <<>> /\ sent' = [sent EXCEPT ![r] = <<row[r].key>>]
  BY DEF Giving
<1>3. [q \in Rows |-> row[q].key][r] = row[r].key
  OBVIOUS
<1>4. /\ (status \in {"completed", "completed_with_claims_pending"}) = FALSE
      /\ (status \in {"completed", "completed_with_claims_pending"})' = FALSE
  BY DEF Giving
<1>5. Batch!Give(r)
  BY <1>1, <1>2, <1>3, <1>4, Zenon DEF Batch!Give
<1> QED BY <1>5 DEF Batch!Next

\* An outcome is recorded.
LEMMA RecordingStep ==
  ASSUME IInv, Recording
  PROVE  [Batch!Next]_(Batch!vars)
<1>1. PICK r \in Rows :
        /\ sent[r] # <<>> /\ Out(row[r]) = "none" /\ row'[r].status \in Settled
        /\ row'[r].key = row[r].key
        /\ \A q \in Rows \ {r} : row'[q] = row[q]
  BY DEF Recording
<1>2. [q \in Rows |-> row[q].key]' = [q \in Rows |-> row[q].key]
  BY <1>1
<1>3. PICK o \in Settled : o = row'[r].status
  BY <1>1
<1>4. OutcomeOf(r)' = o /\ \A q \in Rows \ {r} : OutcomeOf(q)' = OutcomeOf(q)
  BY <1>1, <1>3, SaysAndOutcomes DEF Out
<1>5. [q \in Rows |-> OutcomeOf(q)]' = [[q \in Rows |-> OutcomeOf(q)] EXCEPT ![r] = o]
  BY <1>4
<1>6. OutcomeOf(r) = "none"
  BY <1>1, SaysAndOutcomes
<1>7. Batch!Record(r)
  BY <1>1, <1>2, <1>5, <1>6 DEF Batch!Record, Batch!None, Recording
<1> QED BY <1>7 DEF Batch!Next

\* So every step is a step of the batch, or none.
LEMMA StepPays == IInv /\ RoutedPaid /\ [Next]_vars => [Batch!Next]_(Batch!vars)
BY NextSeen, NextIInv, UnseenStep, RewordingStep, GivingStep, RecordingStep DEF Seen

\* At first no row was given and none has an outcome.
LEMMA InitPays == Init => Batch!Init
<1> SUFFICES ASSUME Init PROVE Batch!Init
  OBVIOUS
<1>1. row \in [Rows -> Row] /\ \A r \in Rows : row[r].status \in {"ready", "invalid", "sending", "failed"}
  <2>1. row \in [Rows -> Row]
    BY InitIInv DEF IInv, TypeOK
  <2>2. CASE Staged
    <3>1. PICK c \in Content, bad \in SUBSET Rows, blocked \in SUBSET Rows :
            row = [r \in Rows |-> IF r \in bad THEN Fresh("invalid", Malformed, FALSE)
                                  ELSE IF r \in blocked THEN Fresh("invalid", c, FALSE)
                                  ELSE Fresh("ready", c, TRUE)]
      BY <2>2 DEF Staged
    <3>2. \A r \in Rows : row[r].status \in {"ready", "invalid"}
      BY <3>1 DEF Fresh
    <3> QED BY <2>1, <3>2
  <2>3. CASE Inherited
    <3>1. PICK c \in Content, st \in [Rows -> {"ready", "sending", "failed"}] :
            row = [r \in Rows |-> Fresh(st[r], c, TRUE)]
      BY <2>3 DEF Inherited
    <3>2. \A r \in Rows : row[r].status \in {"ready", "sending", "failed"}
      BY <3>1 DEF Fresh
    <3> QED BY <2>1, <3>2
  <2> QED BY <2>1, <2>2, <2>3 DEF Init
<1>2. \A r \in Rows : row[r].key \in Content \cup {Malformed} /\ OutcomeOf(r) = "none"
  BY <1>1 DEF Row, OutcomeOf, Settled
<1>3. status \notin {"completed", "completed_with_claims_pending"}
  BY DEF Init, Staged, Inherited
<1> QED BY <1>2, <1>3 DEF Batch!Init, Batch!None, Init

(***************************************************************************)
(* Store, executor, routes and edits implement PaymentBatch, for any       *)
(* number of rows, passes and route computations: nobody is paid twice or  *)
(* something else than his row says, outcomes are final and recorded of    *)
(* paid rows only, and nothing is paid once the run is complete.           *)
(***************************************************************************)
THEOREM ImplementsBatch == Spec => PaidAsABatch
<1>1. IInv /\ RoutedPaid /\ [Next]_vars => RoutedPaid'
  BY RoutedPaidStep
<1>2. Spec => []RoutedPaid
  BY <1>1, RoutedPaidInit, Invariance, PTL DEF Spec
<1>3. IInv /\ RoutedPaid /\ [Next]_vars => [Batch!Next]_(Batch!vars)
  BY StepPays
<1> QED BY <1>2, <1>3, InitPays, Invariance, PTL DEF Spec, PaidAsABatch, Batch!Spec
=============================================================================
