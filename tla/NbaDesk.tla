------------------------------ MODULE NbaDesk ------------------------------
(***************************************************************************)
(* The recommendation desk of the backend: NbaController, NbaService and   *)
(* AssessmentService over their tables.  Every handler that awaits between *)
(* a check and its effect is split at the await, and the request in        *)
(* progress of a user is job[u].  The batch that writes recommendations    *)
(* and the bank's own tables are the environment.                          *)
(***************************************************************************)
EXTENDS NbaPolicy, TLC

CONSTANTS Customers, Users,
          UserOf,          \* u -> [role, branch, linked]: linked when the token maps to a users row
          Profiles,        \* the states a customer's bank data may be in
          InitialData,     \* the c -> profile it may start from
          Assignments,     \* the bodies of POST admin/calllist: [date, rows]
          KpiInputs,       \* the bodies of PUT admin/kpi: [month, product, multiplier]
          FeedbackInputs,  \* the bodies of POST feedback: [status, product, reason]
          Mode,            \* EXPLAINER_MODE
          Replies,         \* what the language model may answer; NULL when the call fails
          DayJumps,        \* how far the clock may jump
          MaxVersions,     \* the recommendations of a customer
          Limits           \* the bounds a run may be given: [day, feedback, changes, writes, requests, ops]

ASSUME RowsAreOfUsers == \A a \in Assignments : a.rows \in Seq([customer : Customers, sale : Users])
ASSUME ProfileAssumption ==
    \A d \in Profiles :
        /\ d.casa \in Seq(Int)
        /\ d.txns \in Seq([ts : Int, dir : {"in", "out"}, amount : Int])
        /\ \A h \in d.held : h.product \in Products
ASSUME DataAssumption  == InitialData \subseteq [Customers -> Profiles]
ASSUME InputAssumption == \A i \in FeedbackInputs : i.product \in Products \cup {NULL}
ASSUME ClockAssumption == DayJumps \subseteq Nat
ASSUME LimitAssumption == \A l \in Limits : l.day \in Nat /\ l.writes \in Nat
ASSUME NullIsNoRow == NULL \notin [sale : Users, created_by : Users]

VARIABLES limit,           \* the bounds of this run, one of Limits
          today, data, recs, feedback, suppressions, notes, callLists, kpi,
          job,             \* u -> the request being handled
          answer,          \* what the last step answered
          changes,         \* the bank's rows, recommendations, multipliers and notes written
          written,         \* history: <<date, customer>> -> the number of the row's last write
          writes,          \* history: the list rows written so far
          listed           \* history: the <<customer, sale>> pairs that were ever on a list

tables  == <<data, recs, feedback, suppressions, notes, callLists, kpi>>
history == <<written, writes, listed>>
vars    == <<limit, today, tables, job, answer, changes, history>>

Dates   == {a.date : a \in Assignments}
NoKpi   == [p \in Products |-> NULL]
KpiOf(month) == IF month \in DOMAIN kpi THEN kpi[month] ELSE NoKpi
Idle    == [op |-> "idle"]
Latest(c) == IF recs[c] = <<>> THEN NULL ELSE recs[c][Len(recs[c])]

FeedbackOn(c) == SelectSeq(feedback, LAMBDA f : f.customer = c)
RelationshipNow(c) ==
    Relationship(data[c], FeedbackOn(c), {s \in suppressions : s.customer = c}, notes[c], today)

Role(u)   == UserOf[u].role
Branch(u) == UserOf[u].branch
SaleOf(date, c)  == callLists[date][c].sale
OnList(date, c)  == callLists[date][c] # NULL

CanAccessOfAnyBranch(u, c) ==
    \/ Role(u) = "admin"
    \/ /\ Role(u) = "manager" /\ Branch(u) # NULL
       /\ \E d \in Dates : OnList(d, c)
    \/ /\ Role(u) = "employee" /\ UserOf[u].linked
       /\ \E d \in Dates : OnList(d, c) /\ SaleOf(d, c) = u

\* _assertCanAccessCustomer: any list the customer was ever on counts, of any day.
CanAccess(u, c) ==
    \/ Role(u) = "admin"
    \/ /\ Role(u) = "manager" /\ Branch(u) # NULL
       /\ \E d \in Dates : OnList(d, c) /\ Branch(SaleOf(d, c)) = Branch(u)
    \/ /\ Role(u) = "employee" /\ UserOf[u].linked
       /\ \E d \in Dates : OnList(d, c) /\ SaleOf(d, c) = u

\* The answer a step gives, if it gives one.  A refusal changes nothing and is no step.  The
\* row _audit appends is read by nothing here and its failure is swallowed: it is left out.
Answer(op, c, said) == answer' = [op |-> op, customer |-> c, said |-> said]
Tell(op)  == Answer(op, NULL, NULL)
Quiet     == answer' = Idle

Init ==
    /\ limit \in Limits
    /\ today = 0
    /\ data \in InitialData
    /\ recs = [c \in Customers |-> <<>>]
    /\ feedback = <<>> /\ suppressions = {}
    /\ notes = [c \in Customers |-> 0]
    /\ callLists = [d \in Dates |-> [c \in Customers |-> NULL]]
    /\ kpi = [m \in {k.month : k \in KpiInputs} |-> NoKpi]
    /\ job = [u \in Users |-> Idle]
    /\ answer = Idle
    /\ changes = 0
    /\ written = [d \in Dates |-> [c \in Customers |-> 0]]
    /\ writes = 0 /\ listed = {}

-----------------------------------------------------------------------------
(* The environment *)

DayPasses ==
    /\ \E n \in DayJumps : today + n <= limit.day /\ today' = today + n
    /\ Quiet
    /\ UNCHANGED <<limit, tables, job, changes, history>>

BankDataChanges(c) ==
    /\ changes < limit.changes
    /\ \E d \in Profiles \ {data[c]} : data' = [data EXCEPT ![c] = d]
    /\ changes' = changes + 1
    /\ Quiet
    /\ UNCHANGED <<limit, today, recs, feedback, suppressions, notes, callLists, kpi, job, history>>

\* A batch appends a version: a rank, the rules that fired, the features it saw.
\* verdict is history: what the rules said of each package at that moment.
BatchRecommends(c) ==
    /\ Len(recs[c]) < MaxVersions /\ changes < limit.changes
    /\ changes' = changes + 1
    /\ LET cur == CurrentPosition(data[c])
           ps  == Evaluate(data[c], cur, RelationshipNow(c), KpiOf(Month(today)))
       IN \E p \in Values(ps) :
            /\ p.eligible
            /\ recs' = [recs EXCEPT ![c] = Append(@,
                 [rank1 |-> p.product,
                  rules_applied |-> UNION {q.blocked_by : q \in Values(ps)},
                  snapshot |-> [casa_avg |-> cur.casa_avg, total_debt |-> cur.total_debt,
                                product_flags |-> {h.product : h \in
                                                    {x \in data[c].held : x.active}}],
                  verdict |-> ps])]
    /\ Quiet
    /\ UNCHANGED <<limit, today, data, feedback, suppressions, notes, callLists, kpi, job, history>>

-----------------------------------------------------------------------------
(* Requests about one customer: the check, then the body *)

\* Requests of the kinds in limit.ops come in, at most limit.requests at a time.
Free(u, op) == /\ job[u] = Idle /\ op \in limit.ops
               /\ Cardinality({v \in Users : job[v] # Idle}) < limit.requests
Start(u, j) == job' = [job EXCEPT ![u] = j]
Done(u)     == job' = [job EXCEPT ![u] = Idle]

Serving(u, op, step) == job[u] # Idle /\ job[u].op = op /\ job[u].step = step

\* getCustomer: the latest recommendation, its versions and whether it is stale.
GetCustomer(u, c) ==
    /\ Free(u, "read") /\ CanAccess(u, c)
    /\ Answer("customer", c,
              [version |-> Len(recs[c]),
               stale   |-> IF Latest(c) = NULL THEN {} ELSE Staleness(data[c], Latest(c))])
    /\ UNCHANGED <<limit, today, tables, job, changes, history>>

GetCallNotes(u, c) ==
    /\ Free(u, "read") /\ CanAccess(u, c)
    /\ Answer("notes", c, [count |-> notes[c]])
    /\ UNCHANGED <<limit, today, tables, job, changes, history>>

\* The recommendation is looked up before the check.
AuditRecommendation(u, c, v) ==
    /\ Free(u, "read") /\ v \in DOMAIN recs[c] /\ CanAccess(u, c)
    /\ LET of(f) == f.customer = c /\ f.version = v IN
       Answer("trace", c, [feedback |-> SelectSeq(feedback, of)])
    /\ UNCHANGED <<limit, today, tables, job, changes, history>>

\* GET customer/:id/assessment: authorizeAssessment, then assess in three steps.
AskAssessment(u, c) ==
    /\ Free(u, "assessment") /\ CanAccess(u, c)
    /\ Start(u, [op |-> "assessment", step |-> "allowed", customer |-> c,
                 asked |-> Len(feedback)])
    /\ Quiet
    /\ UNCHANGED <<limit, today, tables, changes, history>>

\* assess, first await: the five reads of Promise.all.
ReadPosition(u) ==
    /\ Serving(u, "assessment", "allowed")
    /\ LET c == job[u].customer
           d == data[c]
           asOf == HalfMonth(today)
       IN Start(u, [op |-> "assessment", step |-> "read", customer |-> c,
                    asked |-> job[u].asked, month |-> Month(today),
                    current |-> CurrentPosition(d), relationship |-> RelationshipNow(c),
                    window_3m |-> Window(d, asOf, 3), window_6m |-> Window(d, asOf, 6),
                    trend |-> Trend(d, asOf), packages |-> NULL])
    /\ Quiet
    /\ UNCHANGED <<limit, today, tables, changes, history>>

\* Then the tags, the catalog and the month's multipliers.
ScorePackages(u) ==
    /\ Serving(u, "assessment", "read")
    /\ LET j == job[u] IN
       Start(u, [j EXCEPT !.step = "scored",
                          !.packages = Evaluate(data[j.customer], j.current, j.relationship,
                                                KpiOf(j.month))])
    /\ Quiet
    /\ UNCHANGED <<limit, today, tables, changes, history>>

\* Then the drift, the evidence and the words of the explainer.
FinishAssessment(u) ==
    /\ Serving(u, "assessment", "scored")
    /\ LET j == job[u]
           evidence == Evidence(j.current, j.window_3m, j.window_6m, j.trend,
                                j.relationship, j.packages)
       IN \E reply \in Replies :
            Answer("assessment", j.customer,
                   [asked |-> j.asked, packages |-> j.packages,
                    held_back |-> CustomerBlocked(j.relationship),
                    drift |-> DetectDrift(j.packages, Latest(j.customer)),
                    explanation |-> Explain(Mode, j.packages, evidence, reply)])
    /\ Done(u)
    /\ UNCHANGED <<limit, today, tables, changes, history>>

\* The product a feedback is about, by default the one that was recommended.
ProductAsSent(c, v, input) == input.product
ProductOf(c, v, input) == IF input.product = NULL THEN recs[c][v].rank1 ELSE input.product

\* POST feedback up to the INSERT: the default product, the mandatory reason.
AskFeedback(u, c, v, input) ==
    /\ Free(u, "feedback") /\ UserOf[u].linked
    /\ v \in DOMAIN recs[c] /\ CanAccess(u, c)
    /\ input.status = "rejected" => input.reason
    /\ Start(u, [op |-> "feedback", step |-> "allowed", customer |-> c, version |-> v,
                 status |-> input.status,
                 product |-> ProductOf(c, v, input)])
    /\ Quiet
    /\ UNCHANGED <<limit, today, tables, changes, history>>

\* The INSERT, with the trigger auto_suppression in the same statement.
SubmitFeedback(u) ==
    /\ Serving(u, "feedback", "allowed") /\ Len(feedback) < limit.feedback
    /\ LET j == job[u] IN
       /\ feedback' = Append(feedback, [customer |-> j.customer, version |-> j.version,
                                        sale |-> u, product |-> j.product,
                                        status |-> j.status, day |-> today])
       /\ suppressions' = suppressions \cup
             IF j.status = "rejected"
             THEN {[customer |-> j.customer, product |-> j.product,
                    until |-> today + SUPPRESSION_DAYS, from |-> Len(feedback) + 1]}
             ELSE {}
       /\ Answer("feedback", j.customer, [suppressed |-> j.status = "rejected"])
    /\ Done(u)
    /\ UNCHANGED <<limit, today, data, recs, notes, callLists, kpi, changes, history>>

\* POST notes.
AskNote(u, c) ==
    /\ Free(u, "note") /\ UserOf[u].linked /\ CanAccess(u, c)
    /\ Start(u, [op |-> "note", step |-> "allowed", customer |-> c])
    /\ Quiet
    /\ UNCHANGED <<limit, today, tables, changes, history>>

SaveCallNote(u) ==
    /\ Serving(u, "note", "allowed")
    /\ LET c == job[u].customer IN
       /\ changes < limit.changes
       /\ changes' = changes + 1
       /\ notes' = [notes EXCEPT ![c] = @ + 1]
       /\ Tell("note")
    /\ Done(u)
    /\ UNCHANGED <<limit, today, data, recs, feedback, suppressions, callLists, kpi, history>>

-----------------------------------------------------------------------------
(* Lists and settings *)

InScope(u, date, c) ==
    /\ OnList(date, c)
    /\ \/ Role(u) = "admin"
       \/ Role(u) = "manager" /\ Branch(u) # NULL /\ Branch(SaleOf(date, c)) = Branch(u)
       \/ Role(u) = "employee" /\ UserOf[u].linked /\ SaleOf(date, c) = u

GetCallList(u, date) ==
    /\ Free(u, "read")
    /\ Answer("calllist", NULL, [rows |-> {c \in Customers : InScope(u, date, c)}])
    /\ UNCHANGED <<limit, today, tables, job, changes, history>>

ListCustomers(u) ==
    /\ Free(u, "read")
    /\ Answer("customers", NULL,
              [rows |-> {c \in Customers : Role(u) = "admin" \/
                                           \E d \in Dates : InScope(u, d, c)}])
    /\ UNCHANGED <<limit, today, tables, job, changes, history>>

\* POST admin/calllist up to the loop: a manager names only sales of the own branch.
AskAssign(u, a) ==
    /\ Free(u, "assign")
    /\ Role(u) \in {"manager", "admin"} /\ UserOf[u].linked
    /\ Role(u) # "admin" =>
         Branch(u) # NULL /\ \A r \in Values(a.rows) : Branch(r.sale) = Branch(u)
    /\ Start(u, [op |-> "assign", step |-> "rows", request |-> a, next |-> 1, since |-> writes])
    /\ Quiet
    /\ UNCHANGED <<limit, today, tables, changes, history>>

AllWrittenButOne(j) == j.next >= Len(j.request.rows)
AllWritten(j) == j.next > Len(j.request.rows)

\* One INSERT .. ON CONFLICT DO UPDATE of the loop; created_by stays the first writer's.
AssignRow(u) ==
    /\ Serving(u, "assign", "rows") /\ writes < limit.writes
    /\ LET j == job[u]
           r == j.request.rows[j.next]
           old == callLists[j.request.date][r.customer]
       IN /\ ~AllWritten(j)
          /\ callLists' = [callLists EXCEPT ![j.request.date][r.customer] =
                [sale |-> r.sale, created_by |-> IF old = NULL THEN u ELSE old.created_by]]
          /\ writes' = writes + 1
          /\ written' = [written EXCEPT ![j.request.date][r.customer] = writes + 1]
          /\ listed' = listed \cup {<<r.customer, r.sale>>}
          /\ Start(u, [j EXCEPT !.next = @ + 1])
    /\ Quiet
    /\ UNCHANGED <<limit, today, data, recs, feedback, suppressions, notes, kpi, changes>>

AssignDone(u) ==
    /\ Serving(u, "assign", "rows") /\ AllWritten(job[u])
    /\ Answer("assign", NULL, [request |-> job[u].request, since |-> job[u].since])
    /\ Done(u)
    /\ UNCHANGED <<limit, today, tables, changes, history>>

\* A statement of a body fails: what was written before it stays.
RequestFails(u) ==
    /\ job[u] # Idle
    /\ Quiet
    /\ Done(u)
    /\ UNCHANGED <<limit, today, tables, changes, history>>

SetKpi(u, k) ==
    /\ Free(u, "kpi") /\ changes < limit.changes
    /\ Role(u) \in {"manager", "admin"}
    /\ changes' = changes + 1
    /\ kpi' = [kpi EXCEPT ![k.month][k.product] = k.multiplier]
    /\ Tell("kpi")
    /\ UNCHANGED <<limit, today, data, recs, feedback, suppressions, notes, callLists, job, history>>

-----------------------------------------------------------------------------
Next ==
    \/ DayPasses
    \/ \E c \in Customers : BankDataChanges(c) \/ BatchRecommends(c)
    \/ \E u \in Users :
         \/ ReadPosition(u) \/ ScorePackages(u) \/ FinishAssessment(u)
         \/ SubmitFeedback(u) \/ SaveCallNote(u) \/ ListCustomers(u)
         \/ AssignRow(u) \/ AssignDone(u) \/ RequestFails(u)
         \/ \E c \in Customers :
              \/ GetCustomer(u, c) \/ GetCallNotes(u, c) \/ AskAssessment(u, c) \/ AskNote(u, c)
              \/ \E v \in 1..MaxVersions :
                   \/ AuditRecommendation(u, c, v)
                   \/ \E i \in FeedbackInputs : AskFeedback(u, c, v, i)
         \/ \E d \in Dates : GetCallList(u, d)
         \/ \E a \in Assignments : AskAssign(u, a)
         \/ \E k \in KpiInputs : SetKpi(u, k)

Spec == Init /\ [][Next]_vars

-----------------------------------------------------------------------------
(* Properties *)

Answered(op) == answer.op = op

\* The state has the shape of the tables and of the requests in progress.
NbaTypeOK ==
    /\ today \in 0..limit.day /\ writes \in 0..limit.writes
    /\ data \in [Customers -> Profiles]
    /\ \A i \in DOMAIN feedback :
         feedback[i] \in [customer : Customers, version : 1..MaxVersions, sale : Users,
                          product : Products, status : {i2.status : i2 \in FeedbackInputs},
                          day : 0..limit.day]
    /\ \A s \in suppressions : s.customer \in Customers /\ s.product \in Products
    /\ \A d \in Dates, c \in Customers : OnList(d, c) =>
         callLists[d][c] \in [sale : Users, created_by : Users]
    /\ \A u \in Users : job[u] # Idle =>
         job[u].op \in {"customer", "assessment", "notes", "trace", "feedback", "note", "assign"}

\* An assessment never offers, as an eligible package or in the words of the explainer, a
\* product the customer had rejected within 90 days when the request came in.
RejectedIsNotOffered ==
    Answered("assessment") =>
        \A i \in 1..answer.said.asked :
            /\ feedback[i].customer = answer.customer /\ feedback[i].status = "rejected"
            /\ feedback[i].day + SUPPRESSION_DAYS >= today
            => /\ \A p \in Values(answer.said.packages) :
                     p.product = feedback[i].product => ~p.eligible
               /\ answer.said.explanation.narrative # NULL =>
                     answer.said.explanation.narrative.product # feedback[i].product

\* The two quarters the trend compares are the six months of the window: no transaction is
\* counted twice and none between them is lost (flows, window, trend).
QuartersAddUp ==
    \A c \in Customers :
        LET asOf == HalfMonth(today)
            half == Window(data[c], asOf, 6).flow
            q1 == Flows(data[c], asOf, 3, 0)
            q2 == Flows(data[c], asOf, 3, 3)
        IN /\ half.total_in  = q1.total_in  + q2.total_in
           /\ half.total_out = q1.total_out + q2.total_out
           /\ half.txn_count = q1.txn_count + q2.txn_count

\* When a package the batch could recommend is blocked now because the customer's accounts
\* were closed (R9) or because the customer took the product since (R4), the page says that
\* the recommendation is stale: the two services read the same tables with other defaults.
NewGateIsFlagged ==
    \A c \in Customers : Latest(c) # NULL =>
        LET snap == Latest(c).snapshot
            cur  == CurrentPosition(data[c])
            now  == Evaluate(data[c], cur, RelationshipNow(c), NoKpi)
            closed(p) == /\ "R9" \in p.blocked_by /\ cur.casa_avg = NULL
                         /\ snap.casa_avg # NULL /\ snap.casa_avg > 0
            taken(p)  == "R4" \in p.blocked_by /\ p.product \notin snap.product_flags
        IN (\E p \in Values(now) : closed(p) \/ taken(p)) => Staleness(data[c], Latest(c)) # {}

\* Feedback is recorded only by a user the customer had been assigned to, or by a manager of
\* such a user's branch, however the lists were rewritten between the check and the insert.
FeedbackWithinScope ==
    \A i \in DOMAIN feedback :
        LET u == feedback[i].sale IN
        \/ Role(u) = "admin"
        \/ Role(u) = "employee" /\ <<feedback[i].customer, u>> \in listed
        \/ Role(u) = "manager" /\ \E s \in Users :
              <<feedback[i].customer, s>> \in listed /\ Branch(s) = Branch(u)

\* An acknowledged assignment was applied whole: every row it names was written since it
\* began, whatever an earlier attempt that failed half-way or another manager had left.
AcknowledgedListIsWhole ==
    Answered("assign") =>
        \A r \in Values(answer.said.request.rows) :
            /\ written[answer.said.request.date][r.customer] > answer.said.since
            /\ OnList(answer.said.request.date, r.customer)

\* assessment.service.ts:159 says the drift points out the criteria whose state has changed
\* since the recommendation was made.
DriftIsAChange ==
    (Answered("assessment") /\ Latest(answer.customer) # NULL) =>
        \A x \in answer.said.drift : \A p \in Values(Latest(answer.customer).verdict) :
            p.package = x.package /\ x.code \in DOMAIN p.criteria =>
                p.criteria[x.code] # x.now
=============================================================================
