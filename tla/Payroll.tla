------------------------------ MODULE Payroll ------------------------------
(***************************************************************************)
(* Salaries: advances to employees, payroll runs per shop and period, the  *)
(* correction of their lines, their payment as an expense, and what        *)
(* deleting and restoring that expense does to them.                       *)
(*                                                                         *)
(* A request reads first and writes later, in transactions of its own; the *)
(* page (apps/web/.../payroll/page.tsx) lets several users work on one run *)
(* and the process of the server may stop between two statements.  The     *)
(* expense is a document of TxnCore; here it is its shop's run, its total  *)
(* and whether it is in the recycle bin.                                   *)
(*                                                                         *)
(* The variables given, crossed, torn, doubled and waived are histories:   *)
(* no action reads them.                                                   *)
(***************************************************************************)
EXTENDS Integers, Sequences, FiniteSets, Functions

CONSTANTS
    None,
    Employees,
    Branches,
    Periods,        \* "start..end", compared as text
    Months,         \* calendar months in which runs are paid
    Clients,        \* requests under way at the same time
    Salaries,       \* base salaries
    Amounts,           \* advances, bonuses and deductions entered by hand
    MaxRequests     \* bound: requests, stops of the server included

Keys == Periods \X Branches     \* @@unique([businessId, branchId, period])

Staff == [branch : Branches \cup {None}, active : BOOLEAN, base : Nat, advance : Int]

Nobody == [branch |-> None, active |-> FALSE, base |-> 0, advance |-> 0]

Line == [base : Nat, bonus : Nat, deductions : Nat, advance : Int, net : Nat]

(* The lines of a run: one for every employee it pays. *)
Sheets == [Employees -> Line \cup {None}]

Run == [status : {"DRAFT", "PAID"}, total : Nat, txn : Nat \cup {None},
        paidAt : Months \cup {None}, lines : Sheets]

Expense == [run : Keys, total : Nat, deleted : BOOLEAN]

ASSUME FiniteAssumption ==
    /\ IsFiniteSet(Employees) /\ IsFiniteSet(Branches)
    /\ IsFiniteSet(Periods) /\ IsFiniteSet(Months)
ASSUME NumbersAssumption == Salaries \subseteq Nat /\ Amounts \subseteq Nat
ASSUME NoneAssumption == None \notin Branches \cup Months \cup Line \cup Run \cup Nat

VARIABLES
    staff,      \* the row of an employee, or Nobody
    payroll,    \* the run of a period and branch, or None
    expenses,   \* salary expenses in the order they were posted
    request,    \* what a client is in the middle of
    left,       \* requests still to be made
    given,      \* history: advances handed out
    crossed,    \* history: runs two edits of which summed each other's old line
    torn,       \* history: runs touched while paid, orphaned by a stop, or restored
    doubled,    \* history: employees in two generations at once
    waived      \* history: employees whose advance was edited on a line

vars == <<staff, payroll, expenses, request, left, given, crossed, torn, doubled, waived>>
history == <<left, given, crossed, torn, doubled, waived>>

Least(a, b) == IF a < b THEN a ELSE b

CalcNet(base, bonus, deductions, advance) ==
    LET net == base + bonus - deductions - advance IN IF net < 0 THEN 0 ELSE net

Net(line) == IF line = None THEN 0 ELSE line.net

Total(lines) == SumFunctionOnSet([e \in Employees |-> Net(lines[e])], Employees)

Idle == [is |-> "idle"]

Ask == left > 0 /\ left' = left - 1

(* The runs a request is about to change, or to have changed. *)
About(c) == IF request[c].is \in {"edit", "sum", "pay", "posted"} THEN {request[c].run} ELSE {}

Busy(k) == \E d \in Clients : k \in About(d)

BeingPaid(k) == \E d \in Clients : k \in About(d) /\ request[d].is \in {"pay", "posted"}

Touched(ks) == torn \cup {k \in ks : Busy(k)}

TypeOK ==
    /\ staff \in [Employees -> Staff]
    /\ \A e \in Employees : staff[e] # Nobody => staff[e].branch \in Branches
    /\ payroll \in [Keys -> Run \cup {None}]
    /\ expenses \in Seq(Expense)
    /\ DOMAIN request = Clients
    /\ given \in [Employees -> Int]

(* What a client is in the middle of.                                      *)
RequestOK(c) ==
    /\ request[c].is \in {"idle", "generate", "create", "edit", "sum", "pay", "posted"}
    /\ request[c].is \in {"generate", "create"} =>
         /\ request[c].period \in Periods
         /\ request[c].read \in [Employees -> Staff]
         /\ request[c].todo \subseteq Branches
         /\ \A e \in Employees : request[c].read[e] # Nobody =>
              staff[e] # Nobody /\ request[c].read[e].branch \in Branches
    /\ request[c].is = "create" => request[c].at \in request[c].todo
    /\ request[c].is \in {"edit", "sum", "pay", "posted"} =>
         request[c].run \in Keys /\ payroll[request[c].run] # None
    /\ request[c].is \in {"edit", "sum"} =>
         /\ request[c].line \in Line /\ request[c].employee \in Employees
         /\ payroll[request[c].run].lines[request[c].employee] # None
    /\ request[c].is \in {"sum", "pay"} => request[c].total \in Nat
    /\ request[c].is = "posted" => request[c].txn \in DOMAIN expenses

Init ==
    /\ staff = [e \in Employees |-> Nobody]
    /\ payroll = [k \in Keys |-> None]
    /\ expenses = <<>>
    /\ request = [c \in Clients |-> Idle]
    /\ left = MaxRequests
    /\ given = [e \in Employees |-> 0]
    /\ crossed = {} /\ torn = {} /\ doubled = {} /\ waived = {}

(***************************************************************************)
(* Employees.                                                              *)
(***************************************************************************)
CreateEmployee(e, b, base) ==
    /\ staff[e] = Nobody
    /\ staff' = [staff EXCEPT ![e] = [branch |-> b, active |-> TRUE, base |-> base, advance |-> 0]]
    /\ UNCHANGED <<payroll, expenses, request, history>>

UpdateEmployee(e, base, active) ==
    /\ staff[e] # Nobody
    /\ Ask
    /\ staff' = [staff EXCEPT ![e].base = base, ![e].active = active]
    /\ UNCHANGED <<payroll, expenses, request, given, crossed, torn, doubled, waived>>

(* The page lists active employees only.  No money is posted. *)
RecordAdvance(e, amount) ==
    /\ staff[e].active
    /\ Ask
    /\ staff' = [staff EXCEPT ![e].advance = @ + amount]
    /\ given' = [given EXCEPT ![e] = @ + amount]
    /\ UNCHANGED <<payroll, expenses, request, crossed, torn, doubled, waived>>

(***************************************************************************)
(* generatePayroll: one read of the employees, then a transaction for      *)
(* every branch.                                                           *)
(***************************************************************************)
Scope(b) == {e \in Employees : staff[e].active /\ (b = None \/ staff[e].branch = b)}

(* The employees a generation has read. *)
Holds(c, e) == request[c].is \in {"generate", "create"} /\ request[c].read[e] # Nobody

Generate(c, p, b) ==
    /\ request[c] = Idle
    /\ Scope(b) # {}
    /\ Ask
    /\ request' = [request EXCEPT ![c] =
         [is |-> "generate", period |-> p,
          read |-> [e \in Employees |-> IF e \in Scope(b) THEN staff[e] ELSE Nobody],
          todo |-> {staff[e].branch : e \in Scope(b)}]]
    /\ doubled' = doubled \cup {e \in Scope(b) : \E d \in Clients : Holds(d, e)}
    /\ UNCHANGED <<staff, payroll, expenses, given, crossed, torn, waived>>

Later(r, b) ==
    IF r.todo = {b} THEN Idle
    ELSE [is |-> "generate", period |-> r.period, read |-> r.read, todo |-> r.todo \ {b}]

(* A branch that has a run of this period already is passed over. *)
Pass(c, b) ==
    /\ request[c].is = "generate" /\ b \in request[c].todo
    /\ payroll[<<request[c].period, b>>] # None
    /\ request' = [request EXCEPT ![c] = Later(@, b)]
    /\ UNCHANGED <<staff, payroll, expenses, history>>

Start(c, b) ==
    /\ request[c].is = "generate" /\ b \in request[c].todo
    /\ payroll[<<request[c].period, b>>] = None
    /\ request' = [request EXCEPT ![c] =
         [is |-> "create", period |-> @.period, read |-> @.read, todo |-> @.todo, at |-> b]]
    /\ UNCHANGED <<staff, payroll, expenses, history>>

NewLine(row) ==
    LET advance == Least(row.advance, row.base) IN
    [base |-> row.base, bonus |-> 0, deductions |-> 0, advance |-> advance,
     net |-> CalcNet(row.base, 0, 0, advance)]

NewLines(r) ==
    [e \in Employees |-> IF r.read[e].branch = r.at THEN NewLine(r.read[e]) ELSE None]

(* Mutated form for model checking: the whole balance is taken. *)
DrawDownAll(lines) ==
    [e \in Employees |-> IF lines[e] # None
                         THEN [staff[e] EXCEPT !.advance = 0] ELSE staff[e]]

(* The advance is drawn down from what it is now by what was read before. *)
DrawDown(lines) ==
    [e \in Employees |-> IF lines[e] # None
                         THEN [staff[e] EXCEPT !.advance = @ - lines[e].advance] ELSE staff[e]]

CreateRun(c) ==
    LET r == request[c] IN
    LET k == <<r.period, r.at>> IN
    /\ r.is = "create"
    /\ payroll[k] = None
    /\ payroll' = [payroll EXCEPT ![k] =
         [status |-> "DRAFT", total |-> Total(NewLines(r)), txn |-> None, paidAt |-> None,
          lines |-> NewLines(r)]]
    /\ staff' = DrawDown(NewLines(r))
    /\ request' = [request EXCEPT ![c] = Later(r, r.at)]
    /\ UNCHANGED <<expenses, history>>

(* Somebody else created the run since: the unique key refuses this one and *)
(* the branches still to do are left.                                       *)
CreateRefused(c) ==
    /\ request[c].is = "create"
    /\ payroll[<<request[c].period, request[c].at>>] # None
    /\ request' = [request EXCEPT ![c] = Idle]
    /\ UNCHANGED <<staff, payroll, expenses, history>>

(***************************************************************************)
(* updateLine: status and line are read, all fields are computed from that *)
(* read, and one transaction writes the line, sums up the lines it sees    *)
(* and writes the total.                                                   *)
(***************************************************************************)
Fields == {"bonus", "deductions", "advance"}

EditLine(c, k, e, field, v) ==
    /\ request[c] = Idle
    /\ payroll[k] # None
    /\ payroll[k].status # "PAID"
    /\ Ask
    /\ payroll[k].lines[e] # None
    /\ v # payroll[k].lines[e][field]       \* onBlur sends changes only
    /\ LET l == [payroll[k].lines[e] EXCEPT ![field] = v] IN
       request' = [request EXCEPT ![c] =
         [is |-> "edit", run |-> k, employee |-> e,
          line |-> [l EXCEPT !.net = CalcNet(l.base, l.bonus, l.deductions, l.advance)]]]
    /\ torn' = IF BeingPaid(k) THEN torn \cup {k} ELSE torn
    /\ waived' = IF field = "advance" THEN waived \cup {e} ELSE waived
    /\ UNCHANGED <<staff, payroll, expenses, given, crossed, doubled>>

LineLocked(c, k, e) ==
    \E d \in Clients \ {c} :
        request[d].is = "sum" /\ request[d].run = k /\ request[d].employee = e

(* Mutated form for model checking: the lines are summed before the write. *)
SeenBefore(r) == payroll[r.run].lines

Seen(r) == [payroll[r.run].lines EXCEPT ![r.employee] = r.line]

SumLines(c) ==
    LET r == request[c] IN
    /\ r.is = "edit"
    /\ ~LineLocked(c, r.run, r.employee)
    /\ request' = [request EXCEPT ![c] =
         [is |-> "sum", run |-> r.run, employee |-> r.employee, line |-> r.line,
          total |-> Total(Seen(r))]]
    /\ crossed' = IF \E d \in Clients : request[d].is = "sum" /\ request[d].run = r.run
                  THEN crossed \cup {r.run} ELSE crossed
    /\ UNCHANGED <<staff, payroll, expenses, left, given, torn, doubled, waived>>

Corrected(run, r) ==
    [run EXCEPT !.lines = [run.lines EXCEPT ![r.employee] = r.line], !.total = r.total]

CommitLine(c) ==
    LET r == request[c] IN
    /\ r.is = "sum"
    /\ payroll' = [payroll EXCEPT ![r.run] = Corrected(@, r)]
    /\ request' = [request EXCEPT ![c] = Idle]
    /\ UNCHANGED <<staff, expenses, history>>

(***************************************************************************)
(* payPayroll: the expense is posted by one transaction and the run is     *)
(* marked by another.                                                      *)
(***************************************************************************)
(* Mutated form for model checking: a paid run may be paid again. *)
PayableAgain(k) == payroll[k] # None /\ payroll[k].total > 0

Payable(k) == payroll[k] # None /\ payroll[k].status # "PAID" /\ payroll[k].total > 0

Pay(c, k) ==
    /\ request[c] = Idle
    /\ Payable(k)
    /\ Ask
    /\ request' = [request EXCEPT ![c] = [is |-> "pay", run |-> k, total |-> payroll[k].total]]
    /\ torn' = Touched({k})
    /\ UNCHANGED <<staff, payroll, expenses, given, crossed, doubled, waived>>

PostExpense(c) ==
    LET r == request[c] IN
    /\ r.is = "pay"
    /\ expenses' = Append(expenses, [run |-> r.run, total |-> r.total, deleted |-> FALSE])
    /\ request' = [request EXCEPT ![c] = [is |-> "posted", run |-> r.run, txn |-> Len(expenses) + 1]]
    /\ UNCHANGED <<staff, payroll, history>>

(* The clock may be in any month. *)
MarkPaid(c, m) ==
    LET r == request[c] IN
    /\ r.is = "posted"
    /\ payroll' = [payroll EXCEPT ![r.run] =
         [@ EXCEPT !.status = "PAID", !.txn = r.txn, !.paidAt = m]]
    /\ request' = [request EXCEPT ![c] = Idle]
    /\ UNCHANGED <<staff, expenses, history>>

(***************************************************************************)
(* The recycle bin of the transaction engine, and a stop of the server.    *)
(***************************************************************************)
DeleteExpense(x) ==
    /\ ~expenses[x].deleted
    /\ Ask
    /\ expenses' = [expenses EXCEPT ![x].deleted = TRUE]
    /\ payroll' = [k \in Keys |-> IF payroll[k] # None /\ payroll[k].txn = x
                                  THEN [payroll[k] EXCEPT !.status = "DRAFT", !.txn = None, !.paidAt = None]
                                  ELSE payroll[k]]
    /\ torn' = Touched({expenses[x].run})
    /\ UNCHANGED <<staff, request, given, crossed, doubled, waived>>

(* The run stays a draft. *)
RestoreExpense(x) ==
    /\ expenses[x].deleted
    /\ Ask
    /\ expenses' = [expenses EXCEPT ![x].deleted = FALSE]
    /\ torn' = torn \cup {expenses[x].run}
    /\ UNCHANGED <<staff, payroll, request, given, crossed, doubled, waived>>

(* What was committed stays; an open transaction is rolled back. *)
Stop ==
    /\ Ask
    /\ \E c \in Clients : request[c] # Idle
    /\ request' = [c \in Clients |-> Idle]
    /\ torn' = torn \cup {k \in Keys : \E c \in Clients : request[c].is = "posted" /\ request[c].run = k}
    /\ UNCHANGED <<staff, payroll, expenses, given, crossed, doubled, waived>>

Step(c) ==
    \/ \E p \in Periods, b \in Branches \cup {None} : Generate(c, p, b)
    \/ \E b \in Branches : Pass(c, b) \/ Start(c, b)
    \/ CreateRun(c) \/ CreateRefused(c)
    \/ \E k \in Keys, e \in Employees, field \in Fields, v \in Amounts : EditLine(c, k, e, field, v)
    \/ SumLines(c) \/ CommitLine(c)
    \/ \E k \in Keys : Pay(c, k)
    \/ PostExpense(c)
    \/ \E m \in Months : MarkPaid(c, m)

Next ==
    \/ \E e \in Employees, b \in Branches, base \in Salaries : CreateEmployee(e, b, base)
    \/ \E e \in Employees, base \in Salaries, active \in BOOLEAN : UpdateEmployee(e, base, active)
    \/ \E e \in Employees, amount \in Amounts : RecordAdvance(e, amount)
    \/ \E c \in Clients : Step(c)
    \/ \E x \in DOMAIN expenses : DeleteExpense(x) \/ RestoreExpense(x)
    \/ Stop

Spec == Init /\ [][Next]_vars

(***************************************************************************)
(* What the page shows.                                                    *)
(***************************************************************************)
Paid == {k \in Keys : payroll[k] # None /\ payroll[k].status = "PAID"}

(* What a run pays an employee, if it is paid. *)
PaidTo(e, k) == IF k \in Paid THEN Net(payroll[k].lines[e]) ELSE 0

(* The salary history of an employee adds up his lines of the paid runs. *)
SalaryHistory(e) == SumFunctionOnSet([k \in Keys |-> PaidTo(e, k)], Keys)

(* The summary of a month adds up the runs paid in it. *)
PaidIn(m) == {k \in Paid : payroll[k].paidAt = m}

PayrollSummary(m) == SumFunctionOnSet([k \in PaidIn(m) |-> payroll[k].total], PaidIn(m))

Live(k) == {x \in DOMAIN expenses : expenses[x].run = k /\ ~expenses[x].deleted}

(***************************************************************************)
(* Properties.                                                             *)
(***************************************************************************)

(* A run is PAID exactly while one expense of its total is in the books:   *)
(* payPayroll and deleteTxn keep the two together, unless the run was      *)
(* changed while it was being paid, the server stopped between expense and *)
(* mark, or a deleted expense was restored.                                *)
PaidRunsAreExpensed ==
    \A k \in Keys :
        payroll[k] # None /\ k \notin torn /\ ~Busy(k) =>
            IF payroll[k].status = "PAID"
            THEN Live(k) = {payroll[k].txn} /\ expenses[payroll[k].txn].total = payroll[k].total
            ELSE Live(k) = {}

(* The total of a run is the sum of its lines however they are edited, so  *)
(* that the salary histories of the employees, over all time, add up to    *)
(* the summaries of the months: no paid run is missing from every month or *)
(* counted in two, whatever was deleted and paid again later.  Excepted    *)
(* are edits of different lines that summed up before either committed.    *)
TotalsAreSums ==
    /\ \A k \in Keys \ crossed : payroll[k] # None => payroll[k].total = Total(payroll[k].lines)
    /\ crossed = {} =>
         SumFunctionOnSet([e \in Employees |-> SalaryHistory(e)], Employees)
           = SumFunctionOnSet([m \in Months |-> PayrollSummary(m)], Months)

(* What a run recovers of the advance of an employee.                      *)
Recovered(e, k) ==
    IF payroll[k] = None THEN 0
    ELSE IF payroll[k].lines[e] = None THEN 0 ELSE payroll[k].lines[e].advance

(* An advance is recovered once: what was handed out is still owed or      *)
(* stands on the lines of runs, and what is owed is never negative, unless *)
(* two generations took the same employee or a line's advance was edited.  *)
AdvancesRecoveredOnce ==
    \A e \in Employees \ doubled :
        /\ staff[e].advance >= 0
        /\ e \notin waived =>
             given[e] = staff[e].advance
                        + SumFunctionOnSet([k \in Keys |-> Recovered(e, k)], Keys)

-----------------------------------------------------------------------------
(* The inductive invariant, of which the three properties are parts.       *)

(* What stands of the payment of a run nobody disturbed: no request is     *)
(* about it, or edits are and it is a draft without an expense, or one     *)
(* request pays it and is before or after the expense.                     *)
Undisturbed(k) ==
    /\ payroll[k] = None => Live(k) = {}
    /\ \A c \in Clients : k \in About(c) => payroll[k].status = "DRAFT"
    /\ Busy(k) /\ ~BeingPaid(k) => Live(k) = {}
    /\ \A c \in Clients : k \in About(c) /\ request[c].is \in {"pay", "posted"} =>
         \A d \in Clients \ {c} : k \notin About(d)
    /\ \A c \in Clients : k \in About(c) /\ request[c].is = "pay" =>
         Live(k) = {} /\ request[c].total = payroll[k].total
    /\ \A c \in Clients : k \in About(c) /\ request[c].is = "posted" =>
         /\ Live(k) = {request[c].txn}
         /\ expenses[request[c].txn].total = payroll[k].total

PaymentsFollowRuns == \A k \in Keys \ torn : Undisturbed(k)

(* A run has the month of its payment exactly while it is paid.            *)
MarksAreDated ==
    \A k \in Keys : payroll[k] # None => (payroll[k].status = "PAID") = (payroll[k].paidAt \in Months)

(* An edit that has summed up knows the lines as they are, and is alone.   *)
SumsAreCurrent ==
    \A c \in Clients :
        request[c].is = "sum" /\ request[c].run \notin crossed =>
            /\ request[c].total = Total(Seen(request[c]))
            /\ \A d \in Clients \ {c} :
                 request[d].is = "sum" => request[d].run # request[c].run

(* An edit leaves the advance of a line alone, unless it is what is edited. *)
EditsKeepAdvance ==
    \A c \in Clients :
        request[c].is \in {"edit", "sum"} /\ request[c].employee \notin waived =>
            request[c].line.advance
              = payroll[request[c].run].lines[request[c].employee].advance

(* A generation that still has to pay an employee is the only one, and     *)
(* what it has read is still owed.                                         *)
ReadingsAreOwed ==
    \A e \in Employees \ doubled : \A c \in Clients : Holds(c, e) =>
        /\ \A d \in Clients \ {c} : ~Holds(d, e)
        /\ request[c].read[e].branch \in request[c].todo =>
             0 <= request[c].read[e].advance /\ request[c].read[e].advance <= staff[e].advance

IInv ==
    /\ TypeOK /\ \A c \in Clients : RequestOK(c)
    /\ PaidRunsAreExpensed /\ PaymentsFollowRuns
    /\ TotalsAreSums /\ SumsAreCurrent /\ MarksAreDated
    /\ AdvancesRecoveredOnce /\ EditsKeepAdvance /\ ReadingsAreOwed
=============================================================================
