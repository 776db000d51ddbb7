------------------------ MODULE LoanLifecycle_proofs ------------------------
(***************************************************************************)
(* Proofs about LoanLifecycle, for every number of sessions, every set of  *)
(* forms and every schedule length: its types, the agreement of the loan's *)
(* status with the disbursement ledger, and that it implements             *)
(* LoanContract; then, on a second invariant about the installments, that  *)
(* they follow the loan's status and its terms, and that what each was     *)
(* paid is the sum of its payments.                                        *)
(***************************************************************************)
EXTENDS LoanLifecycle, SumTheorems, SequenceTheorems, TLAPS

(***************************************************************************)
(* What a request relies on from its first read to its last write, and     *)
(* what the others therefore may not take away from it: a handler that     *)
(* writes without looking again has seen a loan that lent money, and such  *)
(* a loan stays one.                                                       *)
(***************************************************************************)
SawLentLoan == {"closing", "requesting", "accepting", "reopening", "waiving",
                "restoring", "editing", "clearing"}
HoldsForm == {"approving", "editing", "clearing", "building"}

RequestsAgree ==
    \A s \in Sessions :
        /\ req[s].at \in SawLentLoan => loan.status \in Lent
        /\ req[s].at # "idle" => loan.status # "none"
        /\ req[s].at \in HoldsForm => req[s].plan \in Plans
        /\ At(s, "building") => req[s].row \in 1..TermOf[req[s].plan]
        /\ At(s, "paying") => req[s].cash # 0

LoanHasForm == loan.status # "none" => loan.plan \in Plans

IInv ==
    /\ TypeOK
    /\ DisbursedIffLent
    /\ ClosureAskedOnlyOfLentLoans
    /\ LoanHasForm
    /\ RequestsAgree

-----------------------------------------------------------------------------
(* A first read changes nothing but the request; it keeps IInv when what it *)
(* notes down is well formed and agrees with the loan it has just seen.    *)

LEMMA BeginKeepsIInv ==
    ASSUME IInv, NEW s \in Sessions,
           NEW step \in Reads, NEW plan \in Plans \cup {None},
           NEW row \in RowNumbers \cup {0}, NEW cash \in Nat,
           loan.status # "none",
           step \in SawLentLoan => loan.status \in Lent,
           step \in HoldsForm => plan \in Plans,
           step = "paying" => cash # 0,
           Begin(s, step, plan, row, cash)
    PROVE  IInv'
<1> DEFINE new == [at |-> step, plan |-> plan, row |-> row, cash |-> cash]
<1>1. req' = [req EXCEPT ![s] = new] /\ UNCHANGED <<loan, rows, payments, disbursed, crashed, raced>>
  BY DEF Begin
<1>2. new \in Requests
  BY DEF Requests
<1>3. TypeOK'
  BY <1>1, <1>2 DEF IInv, TypeOK
<1>4. RequestsAgree'
  <2>1. \A x \in Sessions : req'[x] = IF x = s THEN new ELSE req[x]
    BY <1>1 DEF IInv, TypeOK
  <2>2. step # "building"
    BY DEF Reads
  <2>3. QED
    BY <1>1, <2>1, <2>2 DEF IInv, RequestsAgree, At
<1>5. QED
  BY <1>1, <1>3, <1>4 DEF IInv, DisbursedIffLent, ClosureAskedOnlyOfLentLoans, LoanHasForm

LEMMA IdleIsRequest == Idle \in Requests
BY DEF Idle, Requests

(* A request that ends leaves the others as they were. *)
LEMMA FinishKeepsRequests ==
    ASSUME TypeOK, RequestsAgree, NEW s \in Sessions, Finish(s),
           loan'.status \in Lent \/ loan.status \notin Lent,
           loan'.status = "none" => loan.status = "none"
    PROVE  RequestsAgree' /\ req' \in [Sessions -> Requests]
<1>1. req' \in [Sessions -> Requests] /\ \A x \in Sessions : req'[x] = IF x = s THEN Idle ELSE req[x]
  BY IdleIsRequest DEF Finish, TypeOK
<1>2. QED
  BY <1>1 DEF RequestsAgree, At, Idle, SawLentLoan, HoldsForm

(* So does one that goes on to a later write, if it holds what that needs. *)
LEMMA ContinueKeepsRequests ==
    ASSUME TypeOK, RequestsAgree, NEW s \in Sessions,
           NEW step \in Tails \ {"building"}, Continue(s, step), ~At(s, "idle"),
           loan'.status \in Lent,
           step \in HoldsForm => req[s].plan \in Plans
    PROVE  RequestsAgree' /\ req' \in [Sessions -> Requests]
<1> DEFINE new == [req[s] EXCEPT !.at = step]
<1>1. req[s] \in Requests /\ new \in Requests
  BY DEF TypeOK, Requests
<1>2. req' \in [Sessions -> Requests] /\ \A x \in Sessions : req'[x] = IF x = s THEN new ELSE req[x]
  BY <1>1 DEF Continue, TypeOK
<1>3. new.at = step /\ new.plan = req[s].plan
  BY <1>1 DEF Requests
<1>4. loan'.status # "none"
  BY DEF Lent
<1>5. QED
  BY <1>2, <1>3, <1>4 DEF RequestsAgree, At, Tails

(* A one-statement write of the loans row keeps IInv when it leaves a loan *)
(* that lent money one, and makes no other loan one.                       *)
LEMMA UpdateLoanKeepsIInv ==
    ASSUME IInv, NEW s \in Sessions, NEW new \in Loans,
           NEW next \in (Tails \ {"building"}) \cup {"idle"},
           ~At(s, "idle"), UpdateLoan(s, new, next),
           new.status \in Lent <=> loan.status \in Lent,
           new.status # "none", new.plan \in Plans,
           new.pendingClosure => new.status \in Lent,
           next # "idle" => new.status \in Lent,
           next \in HoldsForm => req[s].plan \in Plans
    PROVE  IInv'
<1>1. loan' = new /\ UNCHANGED <<rows, payments, disbursed, crashed, raced>>
  BY DEF UpdateLoan
<1>2. RequestsAgree' /\ req' \in [Sessions -> Requests]
  <2>1. CASE next = "idle"
    <3>1. Finish(s)
      BY <2>1 DEF UpdateLoan
    <3>2. QED
      BY <1>1, <3>1, FinishKeepsRequests DEF IInv
  <2>2. CASE next # "idle"
    <3>1. Continue(s, next) /\ next \in Tails \ {"building"}
      BY <2>2 DEF UpdateLoan
    <3>2. loan'.status \in Lent
      BY <1>1, <2>2
    <3>3. QED
      BY <3>1, <3>2, ContinueKeepsRequests DEF IInv
  <2>3. QED
    BY <2>1, <2>2
<1>3. TypeOK'
  BY <1>1, <1>2 DEF IInv, TypeOK
<1>4. QED
  BY <1>1, <1>2, <1>3 DEF IInv, DisbursedIffLent, ClosureAskedOnlyOfLentLoans, LoanHasForm

(* A request that ends without a write keeps IInv. *)
LEMMA RefuseKeepsIInv ==
    ASSUME IInv, NEW s \in Sessions, Finish(s),
           UNCHANGED <<loan, rows, payments, disbursed>>,
           crashed' \in BOOLEAN, raced' \in BOOLEAN
    PROVE  IInv'
<1>1. RequestsAgree' /\ req' \in [Sessions -> Requests]
  BY FinishKeepsRequests DEF IInv
<1>2. QED
  BY <1>1 DEF IInv, TypeOK, DisbursedIffLent, ClosureAskedOnlyOfLentLoans, LoanHasForm

-----------------------------------------------------------------------------
LEMMA TypesOfLoan ==
    ASSUME TypeOK
    PROVE  /\ loan.status \in Lent \cup {"none", "PENDING", "REJECTED"}
           /\ loan.plan \in Plans \cup {None}
           /\ loan.pendingClosure \in BOOLEAN /\ loan.deleted \in BOOLEAN
BY DEF TypeOK, Loans

(* The first reads. *)
LEMMA FirstReadKeepsIInv ==
    ASSUME IInv, NEW s \in Sessions, FirstRead(s)
    PROVE  IInv'
<1> USE DEF Reads, SawLentLoan, HoldsForm, Lent, ActiveStatuses
<1>1. CASE ReadForApproval(s)
  <2>1. loan.plan \in Plans
    BY <1>1 DEF ReadForApproval, IInv, LoanHasForm
  <2>2. QED
    BY <1>1, <2>1, BeginKeepsIInv DEF ReadForApproval
<1>2. CASE ReadForReject(s)
  BY <1>2, BeginKeepsIInv DEF ReadForReject
<1>3. ASSUME NEW isFieldRequest \in BOOLEAN, ReadForClose(s, isFieldRequest) PROVE IInv'
  BY <1>3, BeginKeepsIInv DEF ReadForClose
<1>4. CASE ReadForApproveClose(s)
  <2>1. loan.status \in Lent
    BY <1>4 DEF ReadForApproveClose, IInv, ClosureAskedOnlyOfLentLoans
  <2>2. QED
    BY <1>4, <2>1, BeginKeepsIInv DEF ReadForApproveClose
<1>5. CASE ReadForReopen(s)
  BY <1>5, BeginKeepsIInv DEF ReadForReopen, Reopenable
<1>6. CASE ReadForDelete(s)
  BY <1>6, BeginKeepsIInv DEF ReadForDelete
<1>7. QED
  BY <1>1, <1>2, <1>3, <1>4, <1>5, <1>6 DEF FirstRead

LEMMA ReadForPaymentKeepsIInv ==
    ASSUME IInv, NEW s \in Sessions, NEW r \in RowNumbers, NEW amount \in 1..Total,
           ReadForPayment(s, r, amount)
    PROVE  IInv'
<1>1. amount \in Nat /\ amount # 0
  BY ConstantsAssumption
<1>2. loan.status # "none"
  BY DEF ReadForPayment, ActiveStatuses
<1>3. QED
  BY <1>1, <1>2, BeginKeepsIInv DEF ReadForPayment, Reads, SawLentLoan, HoldsForm

-----------------------------------------------------------------------------
(* Applying for a loan, and the first read of an edit. *)

LEMMA FirstRowNumber ==
    ASSUME NEW p \in Plans
    PROVE  1 \in 1..TermOf[p] /\ 1..TermOf[p] \subseteq RowNumbers
BY ConstantsAssumption DEF RowNumbers

LEMMA InsertLoanKeepsIInv ==
    ASSUME IInv, NEW s \in Sessions, NEW p \in Plans, InsertLoan(s, p)
    PROVE  IInv'
<1> DEFINE new == [at |-> "building", plan |-> p, row |-> 1, cash |-> 0]
<1>1. /\ loan.status = "none"
      /\ loan' = [status |-> "PENDING", plan |-> p, pendingClosure |-> FALSE, deleted |-> FALSE]
      /\ req' = [req EXCEPT ![s] = new]
      /\ UNCHANGED <<rows, payments, disbursed, crashed, raced>>
  BY DEF InsertLoan
<1>2. new \in Requests /\ loan' \in Loans
  BY <1>1, FirstRowNumber DEF Requests, Loans, Tails
<1>3. TypeOK'
  BY <1>1, <1>2 DEF IInv, TypeOK
<1>4. \A x \in Sessions : req'[x] = IF x = s THEN new ELSE req[x]
  BY <1>1 DEF IInv, TypeOK
<1>5. \A x \in Sessions : req[x].at = "idle"
  BY <1>1 DEF IInv, RequestsAgree
<1>6. RequestsAgree'
  BY <1>1, <1>4, <1>5, FirstRowNumber DEF RequestsAgree, At, SawLentLoan, HoldsForm
<1>7. disbursed = None
  BY <1>1 DEF IInv, DisbursedIffLent, Lent
<1>8. QED
  BY <1>1, <1>3, <1>6, <1>7
  DEF IInv, DisbursedIffLent, ClosureAskedOnlyOfLentLoans, LoanHasForm, Lent

LEMMA SubmitKeepsIInv ==
    ASSUME IInv, NEW s \in Sessions, NEW p \in Plans, Submit(s, p)
    PROVE  IInv'
<1>1. InsertLoan(s, p) \/ ReadForEdit(s, p)
  BY DEF Submit, CreateWeeklyLoan, CreateDailyLoan, CreateMonthlyLoan, CreateAgentRiskLoan,
         UpdateWeeklyLoan, UpdateDailyLoan, UpdateMonthlyLoan, UpdateAgentRiskLoan
<1>2. CASE ReadForEdit(s, p)
  <2>1. loan.status \in Lent
    BY <1>2 DEF ReadForEdit, LoanEditable, ActiveStatuses, Lent
  <2>2. loan.status # "none"
    BY <2>1 DEF Lent
  <2>3. QED
    BY <1>2, <2>1, <2>2, BeginKeepsIInv DEF ReadForEdit, Reads
<1>3. QED
  BY <1>1, <1>2, InsertLoanKeepsIInv

-----------------------------------------------------------------------------
(* The first writes. *)

LEMMA CommitApprovalKeepsIInv ==
    ASSUME IInv, NEW s \in Sessions, CommitApproval(s)
    PROVE  IInv'
<1>1. /\ loan.status = "PENDING"
      /\ loan' = [loan EXCEPT !.status = "APPROVED"]
      /\ Finish(s) /\ UNCHANGED <<rows, payments, crashed, raced>>
  BY DEF CommitApproval, StillPending
<1>2. /\ loan' \in Loans /\ loan'.status = "APPROVED"
      /\ loan'.plan = loan.plan /\ loan'.pendingClosure = loan.pendingClosure
  BY <1>1 DEF IInv, TypeOK, Loans, Lent
<1>3. req[s].plan \in Plans
  BY DEF CommitApproval, At, IInv, RequestsAgree, HoldsForm
<1>4. disbursed = None
  BY <1>1 DEF IInv, DisbursedIffLent, Lent
<1>5. disbursed' \in Nat /\ disbursed' # None
  BY <1>3, <1>4, ConstantsAssumption DEF CommitApproval
<1>6. RequestsAgree' /\ req' \in [Sessions -> Requests]
  BY <1>1, <1>2, FinishKeepsRequests DEF IInv, Lent
<1>7. TypeOK'
  BY <1>1, <1>2, <1>5, <1>6 DEF IInv, TypeOK
<1>8. QED
  BY <1>1, <1>2, <1>5, <1>6, <1>7
  DEF IInv, DisbursedIffLent, ClosureAskedOnlyOfLentLoans, LoanHasForm, Lent

LEMMA CommitPaymentKeepsIInv ==
    ASSUME IInv, NEW s \in Sessions, CommitPayment(s)
    PROVE  IInv'
<1> DEFINE r == req[s].row
           amount == req[s].cash
<1>1. /\ At(s, "paying") /\ r # 0
      /\ rows' = [rows EXCEPT ![r] = Credited(rows[r], amount)]
      /\ payments' = Append(payments, [row |-> r, amount |-> amount])
      /\ Finish(s) /\ UNCHANGED <<loan, disbursed, crashed>>
      /\ raced' \in BOOLEAN
  BY DEF CommitPayment, TailOf, IInv, TypeOK
<1>2. r \in RowNumbers /\ amount \in Nat \ {0}
  BY <1>1 DEF IInv, TypeOK, Requests, RequestsAgree
<1>3. rows[r] \in Rows
  BY <1>2 DEF IInv, TypeOK
<1>4. rows[r].paid + amount \in Nat /\ StatusOfBalance(rows[r].paid + amount) \in Unpaid \cup {"PAID"}
  BY <1>2, <1>3 DEF Rows, StatusOfBalance, Unpaid
<1>5. Credited(rows[r], amount) \in Rows
  BY <1>3, <1>4 DEF Rows, Credited
<1>6. rows' \in [RowNumbers -> Rows]
  BY <1>1, <1>5 DEF IInv, TypeOK
<1>7. payments' \in Seq(Payments)
  BY <1>1, <1>2 DEF IInv, TypeOK, Payments
<1>8. RequestsAgree' /\ req' \in [Sessions -> Requests]
  BY <1>1, FinishKeepsRequests DEF IInv
<1>9. TypeOK'
  BY <1>1, <1>6, <1>7, <1>8 DEF IInv, TypeOK
<1>10. QED
  BY <1>1, <1>8, <1>9 DEF IInv, DisbursedIffLent, ClosureAskedOnlyOfLentLoans, LoanHasForm

LEMMA FirstWriteKeepsIInv ==
    ASSUME IInv, NEW s \in Sessions, FirstWrite(s)
    PROVE  IInv'
<1> USE TypesOfLoan DEF IInv, At
<1> DEFINE saw == req[s].at \in SawLentLoan
<1>1. req[s].at # "idle" => loan.status # "none" /\ loan.plan \in Plans
  BY DEF RequestsAgree, LoanHasForm
<1>2. saw => loan.status \in Lent
  BY DEF RequestsAgree
<1>3. ASSUME NEW new \in Loans, NEW next \in (Tails \ {"building"}) \cup {"idle"},
             req[s].at # "idle", UpdateLoan(s, new, next),
             new.status \in Lent <=> loan.status \in Lent,
             new.status # "none", new.plan \in Plans,
             new.pendingClosure => new.status \in Lent,
             next # "idle" => new.status \in Lent,
             next \in HoldsForm => req[s].plan \in Plans
      PROVE  IInv'
  BY <1>3, UpdateLoanKeepsIInv
<1>4. CASE CommitReject(s)
  <2> DEFINE new == [loan EXCEPT !.status = "REJECTED"]
  <2>1. new \in Loans /\ new.status = "REJECTED" /\ new.plan = loan.plan
        /\ new.pendingClosure = loan.pendingClosure
    BY DEF TypeOK, Loans
  <2>2. loan.status = "PENDING" /\ req[s].at = "rejecting" /\ UpdateLoan(s, new, "idle")
    BY <1>4 DEF CommitReject, StillPending
  <2>3. ~loan.pendingClosure
    BY <2>2 DEF ClosureAskedOnlyOfLentLoans, Lent
  <2>4. QED
    BY <1>1, <1>3, <2>1, <2>2, <2>3 DEF Lent, HoldsForm
<1>5. CASE CommitClose(s)
  <2> DEFINE new == [loan EXCEPT !.status = "CLOSED"]
  <2>1. new \in Loans /\ new.status = "CLOSED" /\ new.plan = loan.plan
    BY DEF TypeOK, Loans, Lent
  <2>2. req[s].at = "closing" /\ UpdateLoan(s, new, "waiving")
    BY <1>5 DEF CommitClose
  <2>3. QED
    BY <1>1, <1>2, <1>3, <2>1, <2>2 DEF Lent, HoldsForm, SawLentLoan, Tails
<1>6. CASE RequestClosure(s)
  <2> DEFINE new == [loan EXCEPT !.pendingClosure = TRUE]
  <2>1. new \in Loans /\ new.status = loan.status /\ new.plan = loan.plan
    BY DEF TypeOK, Loans
  <2>2. req[s].at = "requesting" /\ UpdateLoan(s, new, "idle")
    BY <1>6 DEF RequestClosure
  <2>3. QED
    BY <1>1, <1>2, <1>3, <2>1, <2>2 DEF HoldsForm, SawLentLoan
<1>7. CASE CommitApproveClose(s)
  <2> DEFINE new == [loan EXCEPT !.status = "CLOSED", !.pendingClosure = FALSE]
  <2>1. new \in Loans /\ new.status = "CLOSED" /\ new.plan = loan.plan
    BY DEF TypeOK, Loans, Lent
  <2>2. req[s].at = "accepting" /\ UpdateLoan(s, new, "waiving")
    BY <1>7 DEF CommitApproveClose
  <2>3. QED
    BY <1>1, <1>2, <1>3, <2>1, <2>2 DEF Lent, HoldsForm, SawLentLoan, Tails
<1>8. CASE CommitReopen(s)
  <2> DEFINE new == [loan EXCEPT !.status = "DISBURSED"]
  <2>1. new \in Loans /\ new.status = "DISBURSED" /\ new.plan = loan.plan
    BY DEF TypeOK, Loans, Lent
  <2>2. req[s].at = "reopening" /\ UpdateLoan(s, new, "restoring")
    BY <1>8 DEF CommitReopen
  <2>3. QED
    BY <1>1, <1>2, <1>3, <2>1, <2>2 DEF Lent, HoldsForm, SawLentLoan, Tails
<1>9. CASE CommitDelete(s)
  <2> DEFINE new == [loan EXCEPT !.deleted = TRUE]
  <2>1. new \in Loans /\ new.status = loan.status /\ new.plan = loan.plan
        /\ new.pendingClosure = loan.pendingClosure
    BY DEF TypeOK, Loans
  <2>2. req[s].at = "deleting" /\ UpdateLoan(s, new, "idle")
    BY <1>9 DEF CommitDelete
  <2>3. QED
    BY <1>1, <1>3, <2>1, <2>2 DEF HoldsForm, ClosureAskedOnlyOfLentLoans
<1>10. CASE CommitEdit(s)
  <2> DEFINE new == [loan EXCEPT !.plan = req[s].plan]
  <2>1. req[s].at = "editing" /\ UpdateLoan(s, new, "clearing")
    BY <1>10 DEF CommitEdit
  <2>2. req[s].plan \in Plans
    BY <2>1 DEF RequestsAgree, HoldsForm
  <2>3. new \in Loans /\ new.status = loan.status /\ new.plan = req[s].plan
    BY <2>2 DEF TypeOK, Loans
  <2>4. QED
    BY <1>1, <1>2, <1>3, <2>1, <2>2, <2>3 DEF Lent, HoldsForm, SawLentLoan, Tails
<1>11. CASE LoseApproval(s) \/ LoseReject(s) \/ PaymentRolledBack(s)
  BY <1>11, RefuseKeepsIInv DEF LoseApproval, LoseReject, PaymentRolledBack, Refuse, TypeOK
<1>12. QED
  BY <1>4, <1>5, <1>6, <1>7, <1>8, <1>9, <1>10, <1>11,
     CommitApprovalKeepsIInv, CommitPaymentKeepsIInv DEF FirstWrite

-----------------------------------------------------------------------------
(* The later writes touch the installments only. *)

LEMMA RowsWriteKeepsIInv ==
    ASSUME IInv, rows' \in [RowNumbers -> Rows], payments' \in Seq(Payments),
           req' \in [Sessions -> Requests], RequestsAgree',
           UNCHANGED <<loan, disbursed, crashed>>, raced' \in BOOLEAN
    PROVE  IInv'
BY DEF IInv, TypeOK, DisbursedIffLent, ClosureAskedOnlyOfLentLoans, LoanHasForm

LEMMA TailOfTypes ==
    ASSUME IInv, NEW s \in Sessions, NEW undisturbed \in BOOLEAN, TailOf(undisturbed)
    PROVE  raced' \in BOOLEAN /\ UNCHANGED <<loan, disbursed, crashed>>
BY DEF TailOf, IInv, TypeOK

LEMMA InsertRowKeepsIInv ==
    ASSUME IInv, NEW s \in Sessions, InsertRow(s)
    PROVE  IInv'
<1> DEFINE r == req[s].row
           p == req[s].plan
           inserted == [status |-> "PENDING", paid |-> 0, plan |-> p]
           next == [req[s] EXCEPT !.row = r + 1]
<1>1. /\ At(s, "building")
      /\ rows' = [rows EXCEPT ![r] = inserted]
      /\ IF r = LastRow(p) THEN Finish(s) ELSE req' = [req EXCEPT ![s] = next]
      /\ TailOf(loan.plan = p /\ loan.status # "CLOSED")
      /\ UNCHANGED payments
  BY DEF InsertRow
<1>2. p \in Plans /\ r \in 1..TermOf[p]
  BY <1>1 DEF IInv, RequestsAgree, At, HoldsForm
<1>3. r \in RowNumbers
  BY <1>2, FirstRowNumber
<1>4. inserted \in Rows
  BY <1>2 DEF Rows, Unpaid
<1>5. rows' \in [RowNumbers -> Rows] /\ payments' \in Seq(Payments)
  BY <1>1, <1>3, <1>4 DEF IInv, TypeOK
<1>6. raced' \in BOOLEAN /\ UNCHANGED <<loan, disbursed, crashed>>
  BY <1>1, TailOfTypes
<1>7. RequestsAgree' /\ req' \in [Sessions -> Requests]
  <2>1. CASE r = LastRow(p)
    BY <1>1, <1>6, <2>1, FinishKeepsRequests DEF IInv
  <2>2. CASE r # LastRow(p)
    <3>1. r + 1 \in 1..TermOf[p] /\ r + 1 \in RowNumbers
      BY <1>2, <2>2, FirstRowNumber, ConstantsAssumption DEF LastRow
    <3>2. req[s] \in Requests
      BY DEF IInv, TypeOK
    <3>3. next \in Requests /\ next.at = req[s].at /\ next.plan = p /\ next.row = r + 1
          /\ next.cash = req[s].cash
      BY <3>1, <3>2 DEF Requests
    <3>4. req' \in [Sessions -> Requests] /\ \A x \in Sessions : req'[x] = IF x = s THEN next ELSE req[x]
      BY <1>1, <2>2, <3>3 DEF IInv, TypeOK
    <3>5. QED
      BY <1>1, <1>6, <3>1, <3>3, <3>4, ZenonT(30) DEF IInv, RequestsAgree, At
  <2>3. QED
    BY <2>1, <2>2
<1>8. QED
  BY <1>5, <1>6, <1>7, RowsWriteKeepsIInv

LEMMA RowStatusChange ==
    ASSUME NEW row \in Rows
    PROVE  Waived(row) \in Rows /\ Restored(row) \in Rows
BY DEF Waived, Restored, Rows, StatusOfBalance, Unpaid

LEMMA WaiveOrRestoreKeepsIInv ==
    ASSUME IInv, NEW s \in Sessions, WaiveRows(s) \/ RestoreRows(s)
    PROVE  IInv'
<1>1. Finish(s) /\ UNCHANGED payments
  BY DEF WaiveRows, RestoreRows
<1>2. raced' \in BOOLEAN /\ UNCHANGED <<loan, disbursed, crashed>>
  BY TailOfTypes DEF WaiveRows, RestoreRows
<1>3. rows' \in [RowNumbers -> Rows]
  BY RowStatusChange DEF WaiveRows, RestoreRows, IInv, TypeOK
<1>4. RequestsAgree' /\ req' \in [Sessions -> Requests]
  BY <1>1, <1>2, FinishKeepsRequests DEF IInv
<1>5. payments' \in Seq(Payments)
  BY <1>1 DEF IInv, TypeOK
<1>6. QED
  BY <1>2, <1>3, <1>4, <1>5, RowsWriteKeepsIInv

LEMMA ClearRowsKeepsIInv ==
    ASSUME IInv, NEW s \in Sessions, ClearRows(s)
    PROVE  IInv'
<1> DEFINE orphaned(q) == [q EXCEPT !.row = 0]
           rebuilding == [req[s] EXCEPT !.at = "building", !.row = 1]
           after(x) == IF x = s THEN rebuilding
                       ELSE IF At(x, "paying") THEN [req[x] EXCEPT !.row = 0] ELSE req[x]
<1>1. /\ At(s, "clearing")
      /\ rows' = [r \in RowNumbers |-> NoRow]
      /\ payments' = [i \in DOMAIN payments |-> orphaned(payments[i])]
      /\ req' = [x \in Sessions |-> after(x)]
      /\ TailOf(loan.plan = req[s].plan /\ loan.status # "CLOSED")
  BY DEF ClearRows
<1>2. raced' \in BOOLEAN /\ UNCHANGED <<loan, disbursed, crashed>>
  BY <1>1, TailOfTypes
<1>3. rows' \in [RowNumbers -> Rows]
  BY <1>1 DEF NoRow, Rows
<1>4. payments' \in Seq(Payments)
  <2>1. payments \in Seq(Payments)
    BY DEF IInv, TypeOK
  <2>2. \A i \in DOMAIN payments : payments[i] \in Payments
    BY <2>1
  <2>3. \A q \in Payments : orphaned(q) \in Payments
    BY DEF Payments
  <2>4. DOMAIN payments = 1..Len(payments) /\ Len(payments) \in Nat
    BY <2>1
  <2>5. payments' \in [1..Len(payments) -> Payments]
    BY <1>1, <2>2, <2>3, <2>4
  <2>6. QED
    BY <2>4, <2>5, SeqDef
<1>5. req[s].plan \in Plans
  BY <1>1 DEF IInv, RequestsAgree, At, HoldsForm
<1>6. \A x \in Sessions :
         /\ req[x] \in Requests /\ after(x) \in Requests
         /\ after(x).at = (IF x = s THEN "building" ELSE req[x].at)
         /\ after(x).plan = req[x].plan /\ after(x).cash = req[x].cash
         /\ x = s => after(x).row = 1
         /\ x # s /\ ~At(x, "paying") => after(x).row = req[x].row
  BY <1>5, FirstRowNumber DEF IInv, TypeOK, Requests, Tails
<1>7. req' \in [Sessions -> Requests]
  BY <1>1, <1>6
<1>8. RequestsAgree'
  <2> SUFFICES ASSUME NEW x \in Sessions
               PROVE  /\ req'[x].at \in SawLentLoan => loan'.status \in Lent
                      /\ req'[x].at # "idle" => loan'.status # "none"
                      /\ req'[x].at \in HoldsForm => req'[x].plan \in Plans
                      /\ req'[x].at = "building" => req'[x].row \in 1..TermOf[req'[x].plan]
                      /\ req'[x].at = "paying" => req'[x].cash # 0
    BY DEF RequestsAgree, At
  <2>1. req'[x] = after(x)
    BY <1>1
  <2> HIDE DEF after
  <2>2. CASE x = s
    BY <1>1, <1>2, <1>5, <1>6, <2>1, <2>2, FirstRowNumber DEF IInv, RequestsAgree, At, SawLentLoan
  <2>3. CASE x # s
    BY <1>2, <1>6, <2>1, <2>3 DEF IInv, RequestsAgree, At
  <2>4. QED
    BY <2>2, <2>3
<1>9. QED
  BY <1>2, <1>3, <1>4, <1>7, <1>8, RowsWriteKeepsIInv

LEMMA LaterWriteKeepsIInv ==
    ASSUME IInv, NEW s \in Sessions, LaterWrite(s)
    PROVE  IInv'
<1>1. CASE InsertRowConflict(s)
  BY <1>1, RefuseKeepsIInv DEF InsertRowConflict, IInv, TypeOK
<1>2. QED
  BY <1>1, InsertRowKeepsIInv, WaiveOrRestoreKeepsIInv, ClearRowsKeepsIInv DEF LaterWrite

LEMMA CrashKeepsIInv ==
    ASSUME IInv, NEW s \in Sessions, Crash(s)
    PROVE  IInv'
BY RefuseKeepsIInv DEF Crash, IInv, TypeOK

-----------------------------------------------------------------------------
(* The theorems. *)

LEMMA InitIInv == Init => IInv
<1> SUFFICES ASSUME Init PROVE IInv
  OBVIOUS
<1> USE DEF Init
<1>1. loan \in Loans
  BY DEF Loans
<1>2. rows \in [RowNumbers -> Rows]
  BY DEF NoRow, Rows
<1>3. payments \in Seq(Payments)
  OBVIOUS
<1>4. req \in [Sessions -> Requests] /\ \A s \in Sessions : req[s] = Idle
  BY IdleIsRequest
<1>5. TypeOK
  BY <1>1, <1>2, <1>3, <1>4 DEF TypeOK
<1>6. RequestsAgree
  BY <1>4 DEF RequestsAgree, At, Idle, SawLentLoan, HoldsForm
<1>7. QED
  BY <1>5, <1>6 DEF IInv, DisbursedIffLent, ClosureAskedOnlyOfLentLoans, LoanHasForm, Lent

LEMMA NextKeepsIInv == IInv /\ [Next]_vars => IInv'
<1> SUFFICES ASSUME IInv, [Next]_vars PROVE IInv'
  OBVIOUS
<1>1. CASE UNCHANGED vars
  BY <1>1 DEF vars, IInv, TypeOK, DisbursedIffLent, ClosureAskedOnlyOfLentLoans, LoanHasForm,
              RequestsAgree, At
<1>2. CASE Next
  BY <1>2, SubmitKeepsIInv, FirstReadKeepsIInv, ReadForPaymentKeepsIInv, FirstWriteKeepsIInv,
     LaterWriteKeepsIInv, CrashKeepsIInv DEF Next
<1>3. QED
  BY <1>1, <1>2

(***************************************************************************)
(* The inductive invariant holds in every reachable state.                 *)
(***************************************************************************)
THEOREM InductiveInvariant == Spec => []IInv
<1>1. Init => IInv
  BY InitIInv
<1>2. IInv /\ [Next]_vars => IInv'
  BY NextKeepsIInv
<1>3. QED
  BY <1>1, <1>2, PTL DEF Spec

(***************************************************************************)
(* Type correctness: every variable keeps its type.                        *)
(***************************************************************************)
THEOREM TypeCorrect == Spec => []TypeOK
<1>1. IInv => TypeOK
  BY DEF IInv
<1>2. QED
  BY <1>1, InductiveInvariant, PTL

(***************************************************************************)
(* However many requests race, the disbursement is on the ledger exactly   *)
(* for the loans that lent money.                                          *)
(***************************************************************************)
THEOREM LedgerAgreesWithStatus == Spec => []DisbursedIffLent
<1>1. IInv => DisbursedIffLent
  BY DEF IInv
<1>2. QED
  BY <1>1, InductiveInvariant, PTL

(***************************************************************************)
(* A closure is only ever asked for on a loan that lent money.             *)
(***************************************************************************)
THEOREM ClosureRequestsAreSound == Spec => []ClosureAskedOnlyOfLentLoans
<1>1. IInv => ClosureAskedOnlyOfLentLoans
  BY DEF IInv
<1>2. QED
  BY <1>1, InductiveInvariant, PTL

-----------------------------------------------------------------------------
(* The refinement of LoanContract, step by step. *)

LEMMA InitContract == Init => Contract!Init
BY DEF Init, Contract!Init

LEMMA LoanStatusAfter ==
    ASSUME TypeOK, NEW new
    PROVE  /\ [loan EXCEPT !.status = new].status = new
           /\ [loan EXCEPT !.pendingClosure = TRUE].status = loan.status
           /\ [loan EXCEPT !.status = new, !.pendingClosure = FALSE].status = new
           /\ [loan EXCEPT !.deleted = TRUE].status = loan.status
           /\ [loan EXCEPT !.plan = new].status = loan.status
BY DEF TypeOK, Loans

LEMMA FirstWriteContract ==
    ASSUME IInv, NEW s \in Sessions, FirstWrite(s)
    PROVE  [Contract!Next]_(Contract!vars)
<1> USE DEF Contract!vars, Lent, Contract!Lent
<1>1. TypeOK /\ (req[s].at \in SawLentLoan => loan.status \in Lent)
  BY DEF IInv, RequestsAgree
<1>2. CASE CommitApproval(s)
  <2>1. req[s].plan \in Plans
    BY <1>2 DEF CommitApproval, At, IInv, RequestsAgree, HoldsForm
  <2>2. loan.status = "PENDING" /\ loan'.status = "APPROVED"
    BY <1>1, <1>2, LoanStatusAfter DEF CommitApproval, StillPending
  <2>3. disbursed' = PrincipalOf[req[s].plan]
    BY <1>2, <2>2 DEF CommitApproval, IInv, DisbursedIffLent
  <2>4. Contract!Approve(PrincipalOf[req[s].plan])
    BY <2>2, <2>3 DEF Contract!Approve
  <2>5. QED
    BY <2>1, <2>4 DEF Contract!Next
<1>3. CASE CommitReject(s)
  <2>1. Contract!Reject
    BY <1>1, <1>3, LoanStatusAfter DEF CommitReject, StillPending, UpdateLoan, Contract!Reject
  <2>2. QED
    BY <2>1 DEF Contract!Next
<1>4. CASE CommitClose(s) \/ CommitApproveClose(s)
  <2>1. Contract!Close
    BY <1>1, <1>4, LoanStatusAfter
    DEF CommitClose, CommitApproveClose, UpdateLoan, At, SawLentLoan, Contract!Close
  <2>2. QED
    BY <2>1 DEF Contract!Next
<1>5. CASE CommitReopen(s)
  <2>1. Contract!Reopen
    BY <1>1, <1>5, LoanStatusAfter DEF CommitReopen, UpdateLoan, At, SawLentLoan, Contract!Reopen
  <2>2. QED
    BY <2>1 DEF Contract!Next
<1>6. CASE RequestClosure(s) \/ CommitDelete(s) \/ CommitEdit(s)
  BY <1>1, <1>6, LoanStatusAfter DEF RequestClosure, CommitDelete, CommitEdit, UpdateLoan
<1>7. CASE \/ LoseApproval(s) \/ LoseReject(s)
           \/ CommitPayment(s) \/ PaymentRolledBack(s)
  BY <1>7 DEF LoseApproval, LoseReject, CommitPayment, PaymentRolledBack, Refuse, TailOf
<1>8. QED
  BY <1>2, <1>3, <1>4, <1>5, <1>6, <1>7 DEF FirstWrite

LEMMA NextContract ==
    ASSUME IInv, [Next]_vars
    PROVE  [Contract!Next]_(Contract!vars)
<1> USE DEF Contract!vars
<1>1. CASE UNCHANGED vars
  BY <1>1 DEF vars
<1>2. ASSUME NEW s \in Sessions, NEW p \in Plans, Submit(s, p)
      PROVE  [Contract!Next]_(Contract!vars)
  <2>1. CASE InsertLoan(s, p)
    <3>1. Contract!Apply
      BY <2>1 DEF InsertLoan, Contract!Apply
    <3>2. QED
      BY <3>1 DEF Contract!Next
  <2>2. CASE ReadForEdit(s, p)
    BY <2>2 DEF ReadForEdit, Begin
  <2>3. QED
    BY <1>2, <2>1, <2>2
    DEF Submit, CreateWeeklyLoan, CreateDailyLoan, CreateMonthlyLoan, CreateAgentRiskLoan,
        UpdateWeeklyLoan, UpdateDailyLoan, UpdateMonthlyLoan, UpdateAgentRiskLoan
<1>3. ASSUME NEW s \in Sessions, FirstRead(s)
      PROVE  UNCHANGED Contract!vars
  BY <1>3 DEF FirstRead, ReadForApproval, ReadForReject, ReadForClose, ReadForApproveClose,
              ReadForReopen, ReadForDelete, Begin
<1>4. ASSUME NEW s \in Sessions, NEW r \in RowNumbers, NEW amount \in 1..Total,
             ReadForPayment(s, r, amount)
      PROVE  UNCHANGED Contract!vars
  BY <1>4 DEF ReadForPayment, Begin
<1>5. ASSUME NEW s \in Sessions, LaterWrite(s) \/ Crash(s)
      PROVE  UNCHANGED Contract!vars
  BY <1>5 DEF LaterWrite, InsertRow, InsertRowConflict, WaiveRows, RestoreRows, ClearRows,
              TailOf, Crash
<1>6. QED
  BY <1>1, <1>2, <1>3, <1>4, <1>5, FirstWriteContract DEF Next

(***************************************************************************)
(* The handlers implement the contract: in every interleaving the loan is  *)
(* decided once, disbursed once, and closed or reopened only after that.   *)
(***************************************************************************)
THEOREM HandlersImplementContract == Spec => ImplementsContract
<1>1. Init => Contract!Init
  BY InitContract
<1>2. IInv /\ [Next]_vars => [Contract!Next]_(Contract!vars)
  BY NextContract
<1>3. QED
  BY <1>1, <1>2, InductiveInvariant, PTL DEF Spec, Contract!Spec, ImplementsContract

-----------------------------------------------------------------------------
(* The installments follow the loan.  The two properties say something     *)
(* only when no request is between its writes; what makes them inductive   *)
(* says at every moment which request still has to bring about the rest.   *)

NobodyAt(step) == \A s \in Sessions : ~At(s, step)
Undisturbed == ~crashed /\ ~raced

(* Nothing of a closed loan is open, but for the request that closed it.   *)
ClosedRows ==
    Undisturbed /\ loan.status = "CLOSED" /\ NobodyAt("waiving") =>
        \A r \in RowNumbers : rows[r].status \notin Unpaid

(* Nothing of another is waived, but for the request that reopened it.     *)
OpenRows ==
    Undisturbed /\ loan.status # "CLOSED" /\ NobodyAt("restoring") =>
        \A r \in RowNumbers : rows[r].status # "WAIVED"

Building(s, r) == At(s, "building") /\ req[s].row = r /\ req[s].plan = loan.plan
UnderWay(r) == Present(r) \/ \E s \in Sessions : Building(s, r)

(* The schedule grows from its first row, and whoever inserted the last    *)
(* row, or met another request's, leaves the next one present or under way. *)
ScheduleGrows ==
    Undisturbed /\ loan.status # "none" /\ NobodyAt("clearing") =>
        /\ \A r \in RowNumbers : Present(r) => r <= TermOf[loan.plan] /\ rows[r].plan = loan.plan
        /\ UnderWay(1)
        /\ \A r \in 1..TermOf[loan.plan] - 1 : Present(r) => UnderWay(r + 1)

RowsExist ==
    /\ loan.status = "none" => \A r \in RowNumbers : ~Present(r)
    /\ \A r \in RowNumbers : ~Present(r) => rows[r].paid = 0
    /\ \A s \in Sessions : At(s, "paying") /\ req[s].row # 0 => Present(req[s].row)

RowsInv == RowsExist /\ ClosedRows /\ OpenRows /\ ScheduleGrows /\ PaidIsThePayments

LEMMA MovesOne ==
    ASSUME TypeOK, NEW s \in Sessions, NEW new, req' = [req EXCEPT ![s] = new]
    PROVE  \A x \in Sessions : req'[x] = IF x = s THEN new ELSE req[x]
BY DEF TypeOK

(* A request that reads, is refused, ends without a further write or dies. *)
LEMMA QuietKeepsRowsInv ==
    ASSUME TypeOK, RowsInv, NEW s \in Sessions, NEW new, req' = [req EXCEPT ![s] = new],
           UNCHANGED <<loan, rows, payments, raced>>,
           crashed => crashed',
           crashed' \/ req[s].at \notin Tails \/ (At(s, "building") /\ Present(req[s].row)),
           new.at \notin Tails,
           new.at = "paying" /\ new.row # 0 => Present(new.row)
    PROVE  RowsInv'
<1>1. \A x \in Sessions : req'[x] = IF x = s THEN new ELSE req[x]
  BY MovesOne
<1>2. \A r : Present(r)' <=> Present(r)
  BY DEF Present
<1>3. RowsExist'
  BY <1>1, <1>2 DEF RowsInv, RowsExist, At
<1>4. ASSUME NEW step \in Tails \ {"building"}, Undisturbed', NobodyAt(step)'
      PROVE  NobodyAt(step) /\ Undisturbed
  BY <1>1, <1>4 DEF NobodyAt, At, Undisturbed
<1>5. ClosedRows' /\ OpenRows'
  BY <1>4 DEF RowsInv, ClosedRows, OpenRows, Tails
<1>6. ASSUME Undisturbed', NEW r, UnderWay(r)
      PROVE  UnderWay(r)'
  <2>1. CASE Present(r)
    BY <1>2, <2>1 DEF UnderWay
  <2>2. CASE ~Present(r)
    <3>1. PICK x \in Sessions : Building(x, r)
      BY <1>6, <2>2 DEF UnderWay
    <3>2. x # s
      BY <1>6, <2>2, <3>1 DEF Building, Undisturbed, At, Tails
    <3>3. Building(x, r)'
      BY <1>1, <3>1, <3>2 DEF Building, At
    <3>4. QED
      BY <3>3 DEF UnderWay
  <2>3. QED
    BY <2>1, <2>2
<1>7. ScheduleGrows'
  <2> SUFFICES ASSUME Undisturbed', loan.status # "none", NobodyAt("clearing")'
               PROVE  /\ \A r \in RowNumbers : Present(r)' =>
                             r <= TermOf[loan.plan] /\ rows[r].plan = loan.plan
                      /\ UnderWay(1)'
                      /\ \A r \in 1..TermOf[loan.plan] - 1 : Present(r)' => UnderWay(r + 1)'
    BY DEF ScheduleGrows
  <2>1. NobodyAt("clearing") /\ Undisturbed
    BY <1>4 DEF Tails
  <2>2. /\ \A r \in RowNumbers : Present(r) => r <= TermOf[loan.plan] /\ rows[r].plan = loan.plan
        /\ UnderWay(1)
        /\ \A r \in 1..TermOf[loan.plan] - 1 : Present(r) => UnderWay(r + 1)
    BY <2>1 DEF RowsInv, ScheduleGrows
  <2>3. QED
    BY <1>2, <1>6, <2>2
<1>8. PaidIsThePayments'
  BY DEF RowsInv, PaidIsThePayments, PaidOn
<1>9. QED
  BY <1>3, <1>5, <1>7, <1>8 DEF RowsInv

(* A statement on the loans row that starts what its handler does next.    *)
LEMMA LoanWriteKeepsRowsInv ==
    ASSUME TypeOK, RowsInv, NEW s \in Sessions, NEW new, req' = [req EXCEPT ![s] = new],
           UNCHANGED <<rows, payments, crashed, raced>>,
           req[s].at \in Reads, new.at \in {"idle", "waiving", "restoring", "clearing"},
           loan.status # "none", loan'.status # "none",
           loan'.plan = loan.plan \/ new.at = "clearing",
           \/ (loan'.status = "CLOSED") = (loan.status = "CLOSED")
           \/ loan'.status = "CLOSED" /\ new.at = "waiving"
           \/ loan'.status # "CLOSED" /\ new.at = "restoring"
    PROVE  RowsInv'
<1>1. \A x \in Sessions : req'[x] = IF x = s THEN new ELSE req[x]
  BY MovesOne
<1>2. \A r : Present(r)' <=> Present(r)
  BY DEF Present
<1>3. RowsExist'
  BY <1>1, <1>2 DEF RowsInv, RowsExist, At
<1>4. req[s].at \notin Tails
  BY DEF Reads, Tails
<1>5. ASSUME NEW step \in Tails, NobodyAt(step)'
      PROVE  NobodyAt(step) /\ new.at # step
  BY <1>1, <1>4, <1>5 DEF NobodyAt, At
<1>6. ClosedRows' /\ OpenRows'
  <2>1. (Undisturbed' <=> Undisturbed) /\ "waiving" \in Tails /\ "restoring" \in Tails
    BY DEF Undisturbed, Tails
  <2>2. ClosedRows'
    BY <1>5, <2>1 DEF RowsInv, ClosedRows
  <2>3. OpenRows'
    BY <1>5, <2>1 DEF RowsInv, OpenRows
  <2>4. QED
    BY <2>2, <2>3
<1>7. ScheduleGrows'
  <2> SUFFICES ASSUME Undisturbed', NobodyAt("clearing")'
               PROVE  /\ \A r \in RowNumbers : Present(r)' =>
                             r <= TermOf[loan'.plan] /\ rows'[r].plan = loan'.plan
                      /\ UnderWay(1)'
                      /\ \A r \in 1..TermOf[loan'.plan] - 1 : Present(r)' => UnderWay(r + 1)'
    BY DEF ScheduleGrows
  <2>1. NobodyAt("clearing") /\ Undisturbed /\ loan'.plan = loan.plan
    BY <1>5 DEF Tails, Undisturbed
  <2>2. /\ \A r \in RowNumbers : Present(r) => r <= TermOf[loan.plan] /\ rows[r].plan = loan.plan
        /\ UnderWay(1)
        /\ \A r \in 1..TermOf[loan.plan] - 1 : Present(r) => UnderWay(r + 1)
    BY <2>1 DEF RowsInv, ScheduleGrows
  <2>3. ASSUME NEW r, UnderWay(r) PROVE UnderWay(r)'
    <3>1. \A x \in Sessions : Building(x, r) => Building(x, r)'
      BY <1>1, <1>4, <2>1 DEF Building, At, Tails
    <3>2. QED
      BY <1>2, <2>3, <3>1 DEF UnderWay
  <2>4. QED
    BY <1>2, <2>1, <2>2, <2>3
<1>8. PaidIsThePayments'
  BY DEF RowsInv, PaidIsThePayments, PaidOn
<1>9. QED
  BY <1>3, <1>6, <1>7, <1>8 DEF RowsInv

LEMMA InsertLoanKeepsRowsInv ==
    ASSUME IInv, RowsInv, NEW s \in Sessions, NEW p \in Plans, InsertLoan(s, p)
    PROVE  RowsInv'
<1> DEFINE new == [at |-> "building", plan |-> p, row |-> 1, cash |-> 0]
<1>1. /\ loan.status = "none" /\ loan'.status = "PENDING" /\ loan'.plan = p
      /\ req' = [req EXCEPT ![s] = new]
      /\ UNCHANGED <<rows, payments, disbursed, crashed, raced>>
  BY DEF InsertLoan
<1>2. \A x \in Sessions : req'[x] = IF x = s THEN new ELSE req[x]
  BY <1>1, MovesOne DEF IInv
<1>3. \A r \in RowNumbers : ~Present(r) /\ ~Present(r)' /\ rows'[r] = rows[r]
  BY <1>1 DEF RowsInv, RowsExist, Present
<1>4. RowsExist'
  <2>1. \A x \in Sessions : ~At(x, "paying")'
    BY <1>1, <1>2 DEF IInv, RequestsAgree, At
  <2>2. loan'.status # "none"
    BY <1>1
  <2>3. QED
    BY <1>1, <1>3, <2>1, <2>2 DEF RowsInv, RowsExist
<1>5. ClosedRows' /\ OpenRows'
  BY <1>1, <1>3 DEF ClosedRows, OpenRows, Present
<1>6. ScheduleGrows'
  <2>1. Building(s, 1)'
    BY <1>1, <1>2 DEF Building, At
  <2>2. UnderWay(1)'
    BY <2>1 DEF UnderWay
  <2>3. \A r \in 1..TermOf[p] - 1 : r \in RowNumbers
    BY FirstRowNumber, ConstantsAssumption
  <2>4. QED
    BY <1>1, <1>3, <2>2, <2>3 DEF ScheduleGrows
<1>7. PaidIsThePayments'
  BY <1>1 DEF RowsInv, PaidIsThePayments, PaidOn
<1>8. QED
  BY <1>4, <1>5, <1>6, <1>7 DEF RowsInv

(* The inserted row was under way, the one after it is next.               *)
LEMMA InsertRowKeepsRowsInv ==
    ASSUME IInv, RowsInv, NEW s \in Sessions, InsertRow(s)
    PROVE  RowsInv'
<1>0. PICK r, p : r = req[s].row /\ p = req[s].plan
  OBVIOUS
<1> DEFINE inserted == [status |-> "PENDING", paid |-> 0, plan |-> p]
           next == [req[s] EXCEPT !.row = r + 1]
           new == IF r = LastRow(p) THEN Idle ELSE next
<1>1. /\ At(s, "building") /\ ~Present(r)
      /\ rows' = [rows EXCEPT ![r] = inserted]
      /\ req' = [req EXCEPT ![s] = new]
      /\ raced' = (raced \/ ~(loan.plan = p /\ loan.status # "CLOSED"))
      /\ UNCHANGED <<loan, payments, crashed>>
  BY <1>0 DEF InsertRow, TailOf, Finish
<1>2. p \in Plans /\ r \in 1..TermOf[p] /\ loan.status # "none"
  BY <1>0, <1>1 DEF IInv, RequestsAgree, At, HoldsForm
<1>3. r \in RowNumbers /\ TermOf[p] \in Nat /\ r \in Nat
  BY <1>2, FirstRowNumber, ConstantsAssumption
<1>4. req[s] \in Requests
  BY DEF IInv, TypeOK
<1>5. next.at = "building" /\ next.plan = p /\ next.row = r + 1
  BY <1>0, <1>1, <1>4 DEF Requests, At
<1>6. new.at \in {"idle", "building"}
  BY <1>5 DEF Idle
<1>7. r = LastRow(p) \/ (r # LastRow(p) /\ new = next)
  OBVIOUS
<1> HIDE DEF new, next
<1>8. \A x \in Sessions : req'[x] = IF x = s THEN new ELSE req[x]
  BY <1>1, MovesOne DEF IInv
<1>9. \A q \in RowNumbers : rows'[q] = IF q = r THEN inserted ELSE rows[q]
  BY <1>1, <1>3 DEF IInv, TypeOK
<1>10. \A q \in RowNumbers : Present(q)' <=> (Present(q) \/ q = r)
  BY <1>9 DEF Present
<1>11. RowsExist'
  <2>1. \A q \in RowNumbers : ~Present(q)' => rows'[q].paid = 0
    BY <1>9, <1>10 DEF RowsInv, RowsExist
  <2>2. ASSUME NEW x \in Sessions, At(x, "paying")', req'[x].row # 0
        PROVE  Present(req[x].row)'
    <3>1. x # s /\ req'[x] = req[x]
      BY <1>6, <1>8, <2>2 DEF At
    <3>2. Present(req[x].row) /\ req[x].row \in RowNumbers
      BY <2>2, <3>1 DEF RowsInv, RowsExist, At, IInv, TypeOK, Requests
    <3>3. PICK q : q = req[x].row
      OBVIOUS
    <3>4. Present(q)'
      BY <1>10, <3>2, <3>3
    <3>5. QED
      BY <3>1, <3>3, <3>4 DEF Present
  <2>3. loan'.status # "none"
    BY <1>1, <1>2
  <2>4. QED
    BY <2>1, <2>2, <2>3 DEF RowsExist
<1>12. ASSUME Undisturbed' PROVE Undisturbed /\ loan.plan = p /\ loan.status # "CLOSED"
  BY <1>1, <1>12 DEF Undisturbed
<1>13. ASSUME NEW step \in {"restoring", "clearing"}, NobodyAt(step)' PROVE NobodyAt(step)
  BY <1>1, <1>8, <1>13 DEF NobodyAt, At
<1>14. ClosedRows' /\ OpenRows'
  BY <1>1, <1>9, <1>12, <1>13 DEF RowsInv, ClosedRows, OpenRows
<1>15. ScheduleGrows'
  <2> SUFFICES ASSUME Undisturbed', NobodyAt("clearing")'
               PROVE  /\ \A q \in RowNumbers : Present(q)' =>
                             q <= TermOf[loan'.plan] /\ rows'[q].plan = loan'.plan
                      /\ UnderWay(1)'
                      /\ \A q \in 1..TermOf[loan'.plan] - 1 : Present(q)' => UnderWay(q + 1)'
    BY DEF ScheduleGrows
  <2>1. Undisturbed /\ NobodyAt("clearing") /\ loan.plan = p /\ loan'.plan = p
    BY <1>1, <1>12, <1>13
  <2>2. /\ \A q \in RowNumbers : Present(q) => q <= TermOf[p] /\ rows[q].plan = p
        /\ UnderWay(1)
        /\ \A q \in 1..TermOf[p] - 1 : Present(q) => UnderWay(q + 1)
    BY <1>2, <2>1 DEF RowsInv, ScheduleGrows
  <2>3. ASSUME NEW q \in RowNumbers, UnderWay(q) PROVE UnderWay(q)'
    <3>1. CASE Present(q) \/ q = r
      BY <1>10, <3>1 DEF UnderWay
    <3>2. CASE ~Present(q) /\ q # r
      <4>1. PICK x \in Sessions : Building(x, q)
        BY <2>3, <3>2 DEF UnderWay
      <4>2. x # s /\ req'[x] = req[x]
        BY <1>0, <1>8, <3>2, <4>1 DEF Building
      <4>3. Building(x, q)'
        BY <2>1, <4>1, <4>2 DEF Building, At
      <4>4. QED
        BY <4>3 DEF UnderWay
    <3>3. QED
      BY <3>1, <3>2
  <2>4. r # TermOf[p] => UnderWay(r + 1)'
    <3>1. ASSUME r # TermOf[p] PROVE Building(s, r + 1)'
      BY <1>5, <1>8, <1>7, <2>1, <3>1 DEF Building, At, LastRow
    <3>2. QED
      BY <3>1 DEF UnderWay
  <2>5. 1..TermOf[p] \subseteq RowNumbers /\ 1 \in RowNumbers
    BY <1>2, FirstRowNumber
  <2>6. \A q \in RowNumbers : Present(q)' => q <= TermOf[p] /\ rows'[q].plan = p
    <3>1. inserted.plan = p /\ r <= TermOf[p]
      BY <1>2, <1>3
    <3>2. QED
      BY <1>9, <1>10, <2>2, <3>1
  <2>7. ASSUME NEW q \in 1..TermOf[p] - 1, Present(q)' PROVE UnderWay(q + 1)'
    <3>1. q \in RowNumbers /\ q + 1 \in RowNumbers /\ q # TermOf[p]
      BY <1>3, <2>5
    <3>2. CASE q = r
      BY <2>4, <3>1, <3>2
    <3>3. CASE q # r
      BY <1>10, <2>2, <2>3, <2>7, <3>1, <3>3
    <3>4. QED
      BY <3>2, <3>3
  <2>8. QED
    BY <2>1, <2>2, <2>3, <2>5, <2>6, <2>7
<1>16. PaidIsThePayments'
  <2>1. \A q \in RowNumbers : rows'[q].paid = rows[q].paid
    BY <1>1, <1>9 DEF RowsInv, RowsExist
  <2>2. \A q \in RowNumbers : PaidOn(q)' = PaidOn(q)
    BY <1>1 DEF PaidOn
  <2>3. QED
    BY <2>1, <2>2 DEF RowsInv, PaidIsThePayments
<1>17. QED
  BY <1>11, <1>14, <1>15, <1>16 DEF RowsInv

(* A request that ends with a write to rows it leaves present leaves the    *)
(* schedule as whole as it was.                                            *)
LEMMA SameRowsStayWhole ==
    ASSUME IInv, RowsInv, NEW s \in Sessions, req' = [req EXCEPT ![s] = Idle],
           req[s].at \in {"waiving", "restoring", "paying"},
           UNCHANGED <<loan, crashed>>, raced => raced',
           \A q \in RowNumbers : /\ Present(q)' <=> Present(q)
                                 /\ rows'[q].plan = rows[q].plan
                                 /\ ~Present(q) => rows'[q].paid = rows[q].paid
    PROVE  RowsExist' /\ ScheduleGrows'
<1>1. \A x \in Sessions : req'[x] = IF x = s THEN Idle ELSE req[x]
  BY MovesOne, ZenonT(30) DEF IInv
<1>2. RowsExist'
  <2>1. ASSUME NEW x \in Sessions, At(x, "paying")', req'[x].row # 0
        PROVE  Present(req[x].row)'
    <3>1. x # s /\ req'[x] = req[x]
      BY <1>1, <2>1 DEF At, Idle
    <3>2. Present(req[x].row) /\ req[x].row \in RowNumbers
      BY <2>1, <3>1 DEF RowsInv, RowsExist, At, IInv, TypeOK, Requests
    <3>3. PICK q : q = req[x].row
      OBVIOUS
    <3>4. Present(q)'
      BY <3>2, <3>3
    <3>5. QED
      BY <3>1, <3>3, <3>4 DEF Present
  <2>2. /\ loan'.status = "none" => \A q \in RowNumbers : ~Present(q)'
        /\ \A q \in RowNumbers : ~Present(q)' => rows'[q].paid = 0
    BY DEF RowsInv, RowsExist
  <2>3. QED
    BY <2>1, <2>2 DEF RowsExist
<1>3. ScheduleGrows'
  <2> SUFFICES ASSUME Undisturbed', NobodyAt("clearing")', loan.status # "none"
               PROVE  /\ \A q \in RowNumbers : Present(q)' =>
                             q <= TermOf[loan'.plan] /\ rows'[q].plan = loan'.plan
                      /\ UnderWay(1)'
                      /\ \A q \in 1..TermOf[loan'.plan] - 1 : Present(q)' => UnderWay(q + 1)'
    BY DEF ScheduleGrows
  <2>1. Undisturbed /\ NobodyAt("clearing")
    BY <1>1 DEF Undisturbed, NobodyAt, At
  <2>2. /\ \A q \in RowNumbers : Present(q) => q <= TermOf[loan.plan] /\ rows[q].plan = loan.plan
        /\ UnderWay(1)
        /\ \A q \in 1..TermOf[loan.plan] - 1 : Present(q) => UnderWay(q + 1)
    BY <2>1 DEF RowsInv, ScheduleGrows
  <2>3. \A x \in Sessions : \A q : Building(x, q) => Building(x, q)'
    BY <1>1 DEF Building, At
  <2>4. \A q \in RowNumbers : UnderWay(q) => UnderWay(q)'
    BY <2>3 DEF UnderWay
  <2>5. loan.plan \in Plans
    BY DEF IInv, LoanHasForm
  <2>6. 1..TermOf[loan.plan] \subseteq RowNumbers /\ 1 \in RowNumbers /\ TermOf[loan.plan] \in Nat
    BY <2>5, FirstRowNumber, ConstantsAssumption
  <2>7. \A q \in 1..TermOf[loan.plan] - 1 : q \in RowNumbers /\ q + 1 \in RowNumbers
    BY <2>6
  <2>8. QED
    BY <2>2, <2>4, <2>6, <2>7
<1>4. QED
  BY <1>2, <1>3

(* Waiving and restoring change no row but its status; what they are after *)
(* holds of every row when they are done.                                  *)
LEMMA StatusOnly ==
    ASSUME NEW row \in Rows
    PROVE  /\ Waived(row).status \notin Unpaid
           /\ Restored(row).status # "WAIVED"
           /\ Waived(row).paid = row.paid /\ Waived(row).plan = row.plan
           /\ Restored(row).paid = row.paid /\ Restored(row).plan = row.plan
           /\ Waived(row).status = "none" <=> row.status = "none"
           /\ Restored(row).status = "none" <=> row.status = "none"
BY DEF Waived, Restored, Rows, StatusOfBalance, Unpaid

LEMMA WaiveOrRestoreKeepsRowsInv ==
    ASSUME IInv, RowsInv, NEW s \in Sessions, WaiveRows(s) \/ RestoreRows(s)
    PROVE  RowsInv'
<1>1. /\ At(s, "waiving") \/ At(s, "restoring")
      /\ req' = [req EXCEPT ![s] = Idle]
      /\ UNCHANGED <<loan, payments, crashed>>
  BY DEF WaiveRows, RestoreRows, TailOf, Finish
<1>2. \A r \in RowNumbers : rows[r] \in Rows
  BY DEF IInv, TypeOK
<1>3. \A r \in RowNumbers :
         /\ rows'[r].paid = rows[r].paid /\ rows'[r].plan = rows[r].plan
         /\ Present(r)' <=> Present(r)
  BY <1>2, StatusOnly DEF WaiveRows, RestoreRows, Present
<1>4. RowsExist' /\ ScheduleGrows'
  <2>1. raced => raced'
    BY DEF WaiveRows, RestoreRows, TailOf
  <2>2. QED
    BY <1>1, <1>3, <2>1, SameRowsStayWhole DEF At
<1>5. ClosedRows' /\ OpenRows'
  <2>1. CASE WaiveRows(s)
    <3>1. /\ \A r \in RowNumbers : rows'[r].status \notin Unpaid
          /\ raced' = (raced \/ ~(loan.status = "CLOSED"))
      BY <1>2, <2>1, StatusOnly DEF WaiveRows, TailOf
    <3>2. QED
      BY <1>1, <3>1 DEF ClosedRows, OpenRows, Undisturbed
  <2>2. CASE RestoreRows(s)
    <3>1. /\ \A r \in RowNumbers : rows'[r].status # "WAIVED"
          /\ raced' = (raced \/ ~(loan.status = "DISBURSED"))
      BY <1>2, <2>2, StatusOnly DEF RestoreRows, TailOf
    <3>2. QED
      BY <1>1, <3>1 DEF ClosedRows, OpenRows, Undisturbed
  <2>3. QED
    BY <2>1, <2>2
<1>6. PaidIsThePayments'
  BY <1>1, <1>3 DEF RowsInv, PaidIsThePayments, PaidOn
<1>7. QED
  BY <1>4, <1>5, <1>6 DEF RowsInv

(* An edit that deletes the old schedule is itself under way to the first  *)
(* row of the new one.                                                     *)
LEMMA ClearRowsKeepsRowsInv ==
    ASSUME IInv, RowsInv, NEW s \in Sessions, ClearRows(s)
    PROVE  RowsInv'
<1>1. PICK p : p = req[s].plan
  OBVIOUS
<1>2. /\ At(s, "clearing")
      /\ rows' = [r \in RowNumbers |-> NoRow]
      /\ payments' = [i \in DOMAIN payments |-> [payments[i] EXCEPT !.row = 0]]
      /\ raced' = (raced \/ ~(loan.plan = p /\ loan.status # "CLOSED"))
      /\ UNCHANGED <<loan, disbursed, crashed>>
  BY <1>1 DEF ClearRows, TailOf
<1>3. loan.status # "none" /\ p \in Plans
  BY <1>1, <1>2 DEF IInv, RequestsAgree, At, HoldsForm
<1>4. \A x \in Sessions : req[x] \in Requests
  BY DEF IInv, TypeOK
<1>5. ASSUME NEW x \in Sessions, At(x, "paying")' PROVE req'[x].row = 0
  <2>1. req'[x] = IF x = s THEN [req[s] EXCEPT !.at = "building", !.row = 1]
                  ELSE IF At(x, "paying") THEN [req[x] EXCEPT !.row = 0] ELSE req[x]
    BY DEF ClearRows
  <2>2. QED
    BY <1>4, <1>5, <2>1 DEF At, Requests
<1>6. req'[s].at = "building" /\ req'[s].row = 1 /\ req'[s].plan = p
  <2>1. req'[s] = [req[s] EXCEPT !.at = "building", !.row = 1]
    BY DEF ClearRows
  <2>2. QED
    BY <1>1, <1>4, <2>1 DEF Requests
<1>7. \A r \in RowNumbers : rows'[r] = NoRow /\ ~Present(r)'
  BY <1>2 DEF Present, NoRow
<1>8. RowsExist'
  BY <1>5, <1>7 DEF RowsExist, NoRow
<1>9. ClosedRows' /\ OpenRows'
  BY <1>7 DEF ClosedRows, OpenRows, NoRow, Unpaid
<1>10. ScheduleGrows'
  <2>1. Undisturbed' => Building(s, 1)'
    BY <1>2, <1>6 DEF Building, At, Undisturbed
  <2>2. Undisturbed' => UnderWay(1)'
    BY <2>1 DEF UnderWay
  <2>3. Undisturbed' => loan'.plan = p
    BY <1>2 DEF Undisturbed
  <2>4. \A r \in 1..TermOf[p] - 1 : r \in RowNumbers
    BY <1>3, FirstRowNumber, ConstantsAssumption
  <2>5. QED
    BY <1>7, <2>2, <2>3, <2>4 DEF ScheduleGrows
<1>11. PaidIsThePayments'
  <2>1. payments \in Seq(Payments)
    BY DEF IInv, TypeOK
  <2>2. ASSUME NEW i \in DOMAIN payments PROVE payments'[i].row = 0
    <3>1. payments[i] \in Payments
      BY <2>1
    <3>2. payments'[i] = [payments[i] EXCEPT !.row = 0]
      BY <1>2
    <3>3. QED
      BY <3>1, <3>2 DEF Payments
  <2>3. DOMAIN payments' = DOMAIN payments
    BY <1>2
  <2>4. \A r \in RowNumbers : r # 0
    BY ConstantsAssumption DEF RowNumbers
  <2>5. ASSUME NEW r \in RowNumbers PROVE rows'[r].paid = PaidOn(r)'
    <3>1. {i \in DOMAIN payments' : payments'[i].row = r} = {}
      BY <2>2, <2>3, <2>4
    <3>2. PaidOn(r)' = 0
      BY <3>1, SumOfNothing DEF PaidOn
    <3>3. QED
      BY <1>7, <3>2 DEF NoRow
  <2>6. QED
    BY <2>5 DEF PaidIsThePayments
<1>12. QED
  BY <1>8, <1>9, <1>10, <1>11 DEF RowsInv

(* A payment adds to its own row what it adds to the payments table.       *)
LEMMA PaidOnAfter ==
    ASSUME TypeOK, NEW r \in RowNumbers, NEW amount \in Nat \ {0},
           payments' = Append(payments, [row |-> r, amount |-> amount])
    PROVE  \A q \in RowNumbers : PaidOn(q)' = IF q = r THEN PaidOn(q) + amount ELSE PaidOn(q)
<1>1. payments \in Seq(Payments) /\ Len(payments) \in Nat /\ DOMAIN payments = 1..Len(payments)
  BY DEF TypeOK
<1>2. PICK n : n = Len(payments) + 1
  OBVIOUS
<1>3. /\ DOMAIN payments' = 1..n /\ n \in Nat /\ n \notin DOMAIN payments
      /\ payments'[n] = [row |-> r, amount |-> amount]
      /\ \A i \in DOMAIN payments : payments'[i] = payments[i]
  BY <1>1, <1>2
<1>4. \A i \in DOMAIN payments : payments[i].amount \in Int
  <2>1. \A i \in DOMAIN payments : payments[i] \in Payments
    BY <1>1
  <2>2. QED
    BY <2>1 DEF Payments
<1>5. IsFiniteSet(DOMAIN payments) /\ 1..n = DOMAIN payments \cup {n}
  <2>1. IsFiniteSet(1..Len(payments))
    BY <1>1, FS_Interval
  <2>2. QED
    BY <1>1, <1>2, <2>1
<1> DEFINE before == [i \in DOMAIN payments |-> payments[i].amount]
           after == [i \in DOMAIN payments' |-> payments'[i].amount]
<1>6. ASSUME NEW q \in RowNumbers
      PROVE  PaidOn(q)' = IF q = r THEN PaidOn(q) + amount ELSE PaidOn(q)
  <2> DEFINE S == {i \in DOMAIN payments : payments[i].row = q}
             T == {i \in DOMAIN payments' : payments'[i].row = q}
  <2>1. IsFiniteSet(S)
    BY <1>5, FS_Subset
  <2>2. n \notin S /\ T = IF q = r THEN S \cup {n} ELSE S
    BY <1>3, <1>5
  <2>3. \A i \in S : before[i] = after[i] /\ before[i] \in Int
    BY <1>3, <1>4, <1>5
  <2>4. after[n] = amount /\ amount \in Int
    BY <1>3, <1>5
  <2>5. PaidOn(q) = SumFunctionOnSet(before, S) /\ PaidOn(q)' = SumFunctionOnSet(after, T)
    BY DEF PaidOn
  <2> HIDE DEF S, T, before, after
  <2>6. IntegersOn(before, S) /\ IntegersOn(after, S)
    BY <2>1, <2>3 DEF IntegersOn
  <2>7. SumFunctionOnSet(before, S) = SumFunctionOnSet(after, S)
    BY <2>3, <2>6, SumOfEquals
  <2>8. SumFunctionOnSet(after, S \cup {n}) = SumFunctionOnSet(after, S) + amount
    BY <2>2, <2>4, <2>6, SumWith
  <2>9. QED
    BY <2>2, <2>5, <2>7, <2>8
<1>7. QED
  BY <1>6

LEMMA CommitPaymentKeepsRowsInv ==
    ASSUME IInv, RowsInv, NEW s \in Sessions, CommitPayment(s)
    PROVE  RowsInv'
<1>1. PICK r, amount : r = req[s].row /\ amount = req[s].cash
  OBVIOUS
<1>2. /\ At(s, "paying") /\ r # 0
      /\ rows' = [rows EXCEPT ![r] = Credited(rows[r], amount)]
      /\ payments' = Append(payments, [row |-> r, amount |-> amount])
      /\ req' = [req EXCEPT ![s] = Idle]
      /\ raced' = (raced \/ ~(loan.status # "CLOSED"))
      /\ UNCHANGED <<loan, disbursed, crashed>>
  BY <1>1 DEF CommitPayment, TailOf, Finish
<1>3. r \in RowNumbers /\ amount \in Nat \ {0} /\ Present(r)
  BY <1>1, <1>2 DEF IInv, TypeOK, Requests, RequestsAgree, RowsInv, RowsExist, At
<1>4. \A x \in Sessions : req'[x] = IF x = s THEN Idle ELSE req[x]
  BY <1>2, MovesOne DEF IInv
<1>5. PICK new : new = Credited(rows[r], amount)
  OBVIOUS
<1>6. rows[r] \in Rows
  BY <1>3 DEF IInv, TypeOK
<1>7. /\ new.status \in Unpaid \cup {"PAID"} /\ new.plan = rows[r].plan
      /\ new.paid = rows[r].paid + amount
  BY <1>3, <1>5, <1>6 DEF Credited, Rows, StatusOfBalance, Unpaid
<1>8. \A q \in RowNumbers : rows'[q] = IF q = r THEN new ELSE rows[q]
  BY <1>2, <1>3, <1>5 DEF IInv, TypeOK
<1>9. \A q \in RowNumbers : /\ Present(q)' <=> Present(q)
                            /\ rows'[q].plan = rows[q].plan
  BY <1>3, <1>7, <1>8 DEF Present, Unpaid
<1>10. RowsExist' /\ ScheduleGrows'
  <2>1. \A q \in RowNumbers : ~Present(q) => rows'[q].paid = rows[q].paid
    BY <1>3, <1>8
  <2>2. (raced => raced') /\ req[s].at = "paying"
    BY <1>2 DEF At
  <2>3. QED
    BY <1>2, <1>9, <2>1, <2>2, SameRowsStayWhole
<1>11. ASSUME Undisturbed' PROVE Undisturbed /\ loan.status # "CLOSED"
  BY <1>2, <1>11 DEF Undisturbed
<1>12. ASSUME NEW step \in {"restoring", "clearing"}, NobodyAt(step)' PROVE NobodyAt(step)
  BY <1>2, <1>4, <1>12 DEF NobodyAt, At
<1>13. ClosedRows' /\ OpenRows'
  <2>1. new.status # "WAIVED"
    BY <1>7 DEF Unpaid
  <2>2. QED
    BY <1>2, <1>8, <1>11, <1>12, <2>1 DEF RowsInv, ClosedRows, OpenRows
<1>14. PaidIsThePayments'
  <2>1. \A q \in RowNumbers : PaidOn(q)' = IF q = r THEN PaidOn(q) + amount ELSE PaidOn(q)
    BY <1>2, <1>3, PaidOnAfter DEF IInv
  <2>2. QED
    BY <1>7, <1>8, <2>1 DEF RowsInv, PaidIsThePayments
<1>15. QED
  BY <1>10, <1>13, <1>14 DEF RowsInv

-----------------------------------------------------------------------------
LEMMA InitRowsInv == Init => RowsInv
<1> SUFFICES ASSUME Init PROVE RowsInv
  OBVIOUS
<1>1. /\ loan.status = "none" /\ payments = <<>>
      /\ \A s \in Sessions : req[s] = Idle
      /\ \A r \in RowNumbers : rows[r] = NoRow
  BY DEF Init
<1>2. RowsExist /\ ClosedRows /\ OpenRows /\ ScheduleGrows
  BY <1>1 DEF RowsExist, ClosedRows, OpenRows, ScheduleGrows, NoRow, Present, Idle, At
<1>3. PaidIsThePayments
  <2>1. \A r \in RowNumbers : {i \in DOMAIN payments : payments[i].row = r} = {}
    BY <1>1
  <2>2. \A r \in RowNumbers : PaidOn(r) = 0
    BY <2>1, SumOfNothing DEF PaidOn
  <2>3. QED
    BY <1>1, <2>2 DEF PaidIsThePayments, NoRow
<1>4. QED
  BY <1>2, <1>3 DEF RowsInv

(* What a first read notes down of an installment is one that exists.      *)
LEMMA BeginKeepsRowsInv ==
    ASSUME TypeOK, RowsInv, NEW s \in Sessions, NEW step \in Reads, NEW plan, NEW row, NEW cash,
           Begin(s, step, plan, row, cash), step = "paying" => Present(row)
    PROVE  RowsInv'
<1> DEFINE new == [at |-> step, plan |-> plan, row |-> row, cash |-> cash]
<1>1. /\ req' = [req EXCEPT ![s] = new] /\ req[s].at \notin Tails
      /\ UNCHANGED <<loan, rows, payments, disbursed, crashed, raced>>
  BY DEF Begin, At, Tails
<1>2. new.at \notin Tails /\ (new.at = "paying" => Present(new.row))
  BY DEF Reads, Tails
<1> HIDE DEF new
<1>3. QED
  BY <1>1, <1>2, QuietKeepsRowsInv

LEMMA ReadsKeepRowsInv ==
    ASSUME IInv, RowsInv, NEW s \in Sessions,
           \/ FirstRead(s)
           \/ \E p \in Plans : ReadForEdit(s, p)
           \/ \E r \in RowNumbers, amount \in 1..Total : ReadForPayment(s, r, amount)
    PROVE  RowsInv'
<1>1. PICK step, plan, row, cash :
         /\ step \in Reads /\ Begin(s, step, plan, row, cash)
         /\ step = "paying" => Present(row)
  <2> USE DEF Reads
  <2>1. CASE FirstRead(s)
    BY <2>1 DEF FirstRead, ReadForApproval, ReadForReject, ReadForClose, ReadForApproveClose,
                ReadForReopen, ReadForDelete
  <2>2. CASE \E p \in Plans : ReadForEdit(s, p)
    BY <2>2 DEF ReadForEdit
  <2>3. CASE \E r \in RowNumbers, amount \in 1..Total : ReadForPayment(s, r, amount)
    BY <2>3 DEF ReadForPayment
  <2>4. QED
    BY <2>1, <2>2, <2>3
<1>2. QED
  BY <1>1, BeginKeepsRowsInv DEF IInv

LEMMA EndsKeepRowsInv ==
    ASSUME IInv, RowsInv, NEW s \in Sessions,
           \/ LoseApproval(s) \/ LoseReject(s) \/ PaymentRolledBack(s)
           \/ InsertRowConflict(s) \/ Crash(s)
    PROVE  RowsInv'
<1>1. /\ req' = [req EXCEPT ![s] = Idle]
      /\ UNCHANGED <<loan, rows, payments, raced>> /\ (crashed => crashed')
  <2>1. CASE Crash(s)
    <3>1. crashed' = (crashed \/ req[s].at \in Tails)
      BY <2>1 DEF Crash
    <3>2. QED
      BY <2>1, <3>1 DEF Crash, Finish
  <2>2. CASE LoseApproval(s) \/ LoseReject(s) \/ PaymentRolledBack(s)
    BY <2>2 DEF LoseApproval, LoseReject, PaymentRolledBack, Refuse, Finish
  <2>3. CASE InsertRowConflict(s)
    BY <2>3 DEF InsertRowConflict, Finish
  <2>4. QED
    BY <2>1, <2>2, <2>3
<1>2. crashed' \/ req[s].at \notin Tails \/ (At(s, "building") /\ Present(req[s].row))
  BY DEF LoseApproval, LoseReject, PaymentRolledBack, InsertRowConflict, Crash, At, Tails
<1>3. Idle.at \notin Tails /\ Idle.at # "paying"
  BY DEF Idle, Tails
<1>4. QED
  BY <1>1, <1>2, <1>3, QuietKeepsRowsInv DEF IInv

LEMMA LoanWritesKeepRowsInv ==
    ASSUME IInv, RowsInv, NEW s \in Sessions,
           \/ CommitApproval(s) \/ CommitReject(s) \/ CommitClose(s) \/ RequestClosure(s)
           \/ CommitApproveClose(s) \/ CommitReopen(s) \/ CommitDelete(s) \/ CommitEdit(s)
    PROVE  RowsInv'
<1> DEFINE goesOn(step) == [req[s] EXCEPT !.at = step]
<1>1. req[s].at \in Reads /\ req[s].at # "idle" /\ loan.status # "none"
  <2>1. req[s].at \in Reads /\ req[s].at # "idle"
    BY DEF CommitApproval, CommitReject, CommitClose, RequestClosure, CommitApproveClose,
           CommitReopen, CommitDelete, CommitEdit, At, Reads
  <2>2. QED
    BY <2>1 DEF IInv, RequestsAgree
<1>2. \A step : goesOn(step).at = step
  BY DEF IInv, TypeOK, Requests
<1>3. Idle.at = "idle"
  BY DEF Idle
<1>4. UNCHANGED <<rows, payments, crashed, raced>>
  BY DEF CommitApproval, CommitReject, CommitClose, RequestClosure, CommitApproveClose,
         CommitReopen, CommitDelete, CommitEdit, UpdateLoan
<1>5. loan \in Loans
  BY DEF IInv, TypeOK
<1>6. CASE CommitApproval(s) \/ CommitReject(s) \/ RequestClosure(s) \/ CommitDelete(s)
  <2>1. req' = [req EXCEPT ![s] = Idle]
    BY <1>6 DEF CommitApproval, CommitReject, RequestClosure, CommitDelete, UpdateLoan, Finish
  <2>2. /\ loan'.plan = loan.plan /\ loan'.status # "none"
        /\ (loan'.status = "CLOSED") = (loan.status = "CLOSED")
    BY <1>1, <1>5, <1>6
    DEF CommitApproval, CommitReject, RequestClosure, CommitDelete, UpdateLoan, StillPending, Loans
  <2>3. QED
    BY <1>1, <1>3, <1>4, <2>1, <2>2, LoanWriteKeepsRowsInv DEF IInv
<1>7. CASE CommitClose(s) \/ CommitApproveClose(s)
  <2>1. req' = [req EXCEPT ![s] = goesOn("waiving")]
    BY <1>7 DEF CommitClose, CommitApproveClose, UpdateLoan, Continue
  <2>2. loan'.plan = loan.plan /\ loan'.status = "CLOSED"
    BY <1>5, <1>7 DEF CommitClose, CommitApproveClose, UpdateLoan, Loans
  <2> HIDE DEF goesOn
  <2>3. QED
    BY <1>1, <1>2, <1>4, <2>1, <2>2, LoanWriteKeepsRowsInv DEF IInv
<1>8. CASE CommitReopen(s)
  <2>1. req' = [req EXCEPT ![s] = goesOn("restoring")]
    BY <1>8 DEF CommitReopen, UpdateLoan, Continue
  <2>2. loan'.plan = loan.plan /\ loan'.status = "DISBURSED"
    BY <1>5, <1>8 DEF CommitReopen, UpdateLoan, Loans
  <2> HIDE DEF goesOn
  <2>3. QED
    BY <1>1, <1>2, <1>4, <2>1, <2>2, LoanWriteKeepsRowsInv DEF IInv
<1>9. CASE CommitEdit(s)
  <2>1. req' = [req EXCEPT ![s] = goesOn("clearing")]
    BY <1>9 DEF CommitEdit, UpdateLoan, Continue
  <2>2. loan'.status = loan.status
    BY <1>5, <1>9 DEF CommitEdit, UpdateLoan, Loans
  <2> HIDE DEF goesOn
  <2>3. QED
    BY <1>1, <1>2, <1>4, <2>1, <2>2, LoanWriteKeepsRowsInv DEF IInv
<1>10. QED
  BY <1>6, <1>7, <1>8, <1>9

LEMMA NextKeepsRowsInv == IInv /\ RowsInv /\ [Next]_vars => RowsInv'
<1> SUFFICES ASSUME IInv, RowsInv, [Next]_vars PROVE RowsInv'
  OBVIOUS
<1>1. CASE UNCHANGED vars
  <2>1. \A r, x : Building(x, r)' <=> Building(x, r)
    BY <1>1 DEF vars, Building, At
  <2>2. \A r : (UnderWay(r)' <=> UnderWay(r)) /\ (Present(r)' <=> Present(r))
    BY <1>1, <2>1 DEF vars, UnderWay, Present
  <2>3. RowsExist' /\ ClosedRows' /\ OpenRows'
    BY <1>1, <2>2 DEF vars, RowsInv, RowsExist, ClosedRows, OpenRows, NobodyAt, Undisturbed,
                      At, Present
  <2>4. ScheduleGrows'
    BY <1>1, <2>2 DEF vars, RowsInv, ScheduleGrows, NobodyAt, Undisturbed, At
  <2>5. PaidIsThePayments'
    BY <1>1 DEF vars, RowsInv, PaidIsThePayments, PaidOn
  <2>6. QED
    BY <2>3, <2>4, <2>5 DEF RowsInv
<1>2. ASSUME NEW s \in Sessions, NEW p \in Plans, Submit(s, p) PROVE RowsInv'
  <2>1. InsertLoan(s, p) \/ ReadForEdit(s, p)
    BY <1>2 DEF Submit, CreateWeeklyLoan, CreateDailyLoan, CreateMonthlyLoan, CreateAgentRiskLoan,
                UpdateWeeklyLoan, UpdateDailyLoan, UpdateMonthlyLoan, UpdateAgentRiskLoan
  <2>2. QED
    BY <2>1, InsertLoanKeepsRowsInv, ReadsKeepRowsInv
<1>3. ASSUME NEW s \in Sessions, FirstWrite(s) PROVE RowsInv'
  BY <1>3, LoanWritesKeepRowsInv, EndsKeepRowsInv, CommitPaymentKeepsRowsInv DEF FirstWrite
<1>4. ASSUME NEW s \in Sessions, LaterWrite(s) PROVE RowsInv'
  BY <1>4, InsertRowKeepsRowsInv, EndsKeepRowsInv, WaiveOrRestoreKeepsRowsInv, ClearRowsKeepsRowsInv
  DEF LaterWrite
<1>5. QED
  BY <1>1, <1>2, <1>3, <1>4, ReadsKeepRowsInv, EndsKeepRowsInv DEF Next

(***************************************************************************)
(* Of the installments of a loan, at every moment and in every             *)
(* interleaving of its handlers: which of them exist, what the loan's      *)
(* status says of them, and which request still owes the rest.             *)
(***************************************************************************)
THEOREM RowsInvariant == Spec => []RowsInv
<1>1. Init => RowsInv
  BY InitRowsInv
<1>2. IInv /\ RowsInv /\ [Next]_vars => RowsInv'
  BY NextKeepsRowsInv
<1>3. QED
  BY <1>1, <1>2, InductiveInvariant, PTL DEF Spec

(***************************************************************************)
(* A closed loan has nothing left open and an active one nothing waived,   *)
(* once the requests are done and none wrote over another's decision.      *)
(***************************************************************************)
THEOREM InstallmentsFollowStatus == Spec => []RowsFollowStatus
<1>1. RowsInv => RowsFollowStatus
  <2> SUFFICES ASSUME RowsInv, Settled, ~raced
               PROVE  /\ loan.status = "CLOSED" =>
                             \A r \in RowNumbers : rows[r].status \notin Unpaid
                      /\ loan.status \in ActiveStatuses =>
                             \A r \in RowNumbers : rows[r].status # "WAIVED"
    BY DEF RowsFollowStatus
  <2>1. Undisturbed /\ \A step \in Tails : NobodyAt(step)
    BY DEF Settled, Undisturbed, NobodyAt, At
  <2>2. QED
    BY <2>1 DEF RowsInv, ClosedRows, OpenRows, ActiveStatuses, Tails
<1>2. QED
  BY <1>1, RowsInvariant, PTL

(***************************************************************************)
(* Once the requests are done the schedule is the whole schedule of the    *)
(* loan's terms, also after overlapping edits to one form have each lost   *)
(* their place to the other: were a row missing, the one before the first  *)
(* missing row would say that a request is still on its way to it.         *)
(***************************************************************************)
THEOREM ScheduleIsTheTerms == Spec => []ScheduleFollowsTerms
<1>1. IInv /\ RowsInv => ScheduleFollowsTerms
  <2> SUFFICES ASSUME IInv, RowsInv, Settled, ~raced, loan.status # "none",
                      NEW r \in RowNumbers
               PROVE  IF r <= TermOf[loan.plan] THEN rows[r].plan = loan.plan ELSE ~Present(r)
    BY DEF ScheduleFollowsTerms
  <2>1. Undisturbed /\ \A step \in Tails : NobodyAt(step)
    BY DEF Settled, Undisturbed, NobodyAt, At
  <2>2. /\ \A q \in RowNumbers : Present(q) => q <= TermOf[loan.plan] /\ rows[q].plan = loan.plan
        /\ UnderWay(1)
        /\ \A q \in 1..TermOf[loan.plan] - 1 : Present(q) => UnderWay(q + 1)
    BY <2>1 DEF RowsInv, ScheduleGrows, Tails
  <2>3. \A q : UnderWay(q) => Present(q)
    BY <2>1 DEF UnderWay, Building, NobodyAt, Tails
  <2>4. PICK n \in Nat : n = TermOf[loan.plan]
    BY ConstantsAssumption DEF IInv, LoanHasForm
  <2> DEFINE absent == {q \in 1..n : ~Present(q)}
  <2>5. absent = {}
    <3> SUFFICES ASSUME absent # {} PROVE FALSE
      OBVIOUS
    <3>1. PICK q \in absent : \A x \in absent : q <= x
      <4>1. absent \subseteq Nat /\ absent # {}
        OBVIOUS
      <4> HIDE DEF absent
      <4>2. QED
        BY <4>1, LeastElement
    <3>2. q # 1
      BY <2>2, <2>3
    <3>3. q - 1 \in 1..n /\ q - 1 \notin absent
      BY <3>1, <3>2
    <3>4. Present(q - 1) /\ q - 1 \in 1..n - 1
      BY <3>1, <3>3
    <3>5. Present((q - 1) + 1)
      BY <2>2, <2>3, <2>4, <3>4
    <3>6. (q - 1) + 1 = q
      BY <3>1
    <3>7. QED
      BY <3>1, <3>5, <3>6
  <2>6. r \in Nat /\ r >= 1
    BY ConstantsAssumption DEF RowNumbers
  <2>7. QED
    BY <2>2, <2>4, <2>5, <2>6
<1>2. QED
  BY <1>1, InductiveInvariant, RowsInvariant, PTL

(***************************************************************************)
(* What an installment has been paid is the sum of the payments tied to    *)
(* it: payments racing each other, an edit or a closing lose nothing.      *)
(***************************************************************************)
THEOREM PaidIsTheSumOfPayments == Spec => []PaidIsThePayments
<1>1. RowsInv => PaidIsThePayments
  BY DEF RowsInv
<1>2. QED
  BY <1>1, RowsInvariant, PTL
=============================================================================
