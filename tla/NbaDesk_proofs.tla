--------------------------- MODULE NbaDesk_proofs ---------------------------
(***************************************************************************)
(* Proofs about NbaDesk: who may give feedback, what an acknowledged       *)
(* assignment has written, and that a rejection counts, for any users,     *)
(* customers, lists, catalogs and states of the bank's data.               *)
(***************************************************************************)
EXTENDS NbaDesk, TLAPS, SequenceTheorems, FiniteSetTheorems

ListRow == [sale : Users, created_by : Users]

(* The lists, and what is remembered of them.                              *)
ListTypes ==
  /\ callLists \in [Dates -> [Customers -> ListRow \cup {NULL}]]
  /\ written \in [Dates -> [Customers -> Nat]]
  /\ writes \in Nat

(* A row of a list was listed, and a user was in scope of a customer.      *)
Listed == \A d \in Dates, c \in Customers : OnList(d, c) => <<c, SaleOf(d, c)>> \in listed

InScopeOnce(u, c) ==
  \/ Role(u) = "admin"
  \/ Role(u) = "employee" /\ <<c, u>> \in listed
  \/ Role(u) = "manager" /\ \E s \in Users : <<c, s>> \in listed /\ Branch(s) = Branch(u)

(* What the handlers know: a feedback was checked; the rows before next of  *)
(* an assignment were written after it began, and not by it alone.         *)
WrittenSince(a, since, n) ==
  \A i \in DOMAIN a.rows : i < n =>
    /\ written[a.date][a.rows[i].customer] > since
    /\ OnList(a.date, a.rows[i].customer)

Assigning == [op : {"assign"}, step : {"rows"}, request : Assignments, next : Nat \ {0}, since : Nat]

Knows(u) ==
  /\ job[u].op = "feedback" => InScopeOnce(u, job[u].customer)
  /\ job[u].op = "assign" =>
       /\ job[u] \in Assigning /\ job[u].since <= writes
       /\ WrittenSince(job[u].request, job[u].since, job[u].next)

FeedbackKnows ==
  /\ \E S : feedback \in Seq(S)
  /\ \A i \in DOMAIN feedback : InScopeOnce(feedback[i].sale, feedback[i].customer)

AnswerKnows ==
  answer.op = "assign" =>
    /\ answer.said.request \in Assignments
    /\ WrittenSince(answer.said.request, answer.said.since, Len(answer.said.request.rows) + 1)

Inv ==
  /\ ListTypes /\ Listed /\ FeedbackKnows /\ AnswerKnows
  /\ DOMAIN job = Users /\ \A u \in Users : Knows(u)

LEMMA DateOf == ASSUME NEW a \in Assignments PROVE a.date \in Dates
  BY DEF Dates

LEMMA RowOf ==
  ASSUME NEW a \in Assignments
  PROVE  /\ Len(a.rows) \in Nat /\ DOMAIN a.rows = 1..Len(a.rows)
         /\ \A i \in DOMAIN a.rows : a.rows[i].customer \in Customers /\ a.rows[i].sale \in Users
<1>1. a.rows \in Seq([customer : Customers, sale : Users])
  BY RowsAreOfUsers
<1>2. Len(a.rows) \in Nat /\ DOMAIN a.rows = 1..Len(a.rows)
  BY <1>1, LenProperties
<1>3. \A i \in DOMAIN a.rows : a.rows[i] \in [customer : Customers, sale : Users]
  BY <1>1, <1>2, ElementOfSeq
<1>. QED
  BY <1>2, <1>3

LEMMA InitInv == Init => Inv
<1>. SUFFICES ASSUME Init
              PROVE  Inv
  OBVIOUS
<1>1. ListTypes /\ Listed
  BY DEF Init, ListTypes, Listed, OnList
<1>2. FeedbackKnows
  <2>1. feedback \in Seq({})
    BY EmptySeq DEF Init
  <2>2. feedback = <<>>
    BY DEF Init
  <2>. QED
    BY <2>1, <2>2 DEF FeedbackKnows
<1>3. AnswerKnows /\ DOMAIN job = Users /\ \A u \in Users : Knows(u)
  BY DEF Init, AnswerKnows, Idle, Knows
<1>. QED
  BY <1>1, <1>2, <1>3 DEF Inv

(* A step that leaves lists and feedback alone, and gives at most one       *)
(* request a new state in which it knows nothing.                          *)
LEMMA Elsewhere ==
  ASSUME Inv, UNCHANGED <<callLists, feedback, history>>, answer'.op # "assign",
         \/ UNCHANGED job
         \/ \E u \in Users : \E j : /\ job' = [job EXCEPT ![u] = j]
                                    /\ j.op \notin {"feedback", "assign"}
  PROVE  Inv'
<1>1. UNCHANGED <<written, writes, listed>>
  BY DEF history
<1>2. ListTypes' /\ Listed' /\ FeedbackKnows'
  BY <1>1 DEF Inv, ListTypes, Listed, FeedbackKnows, OnList, SaleOf, InScopeOnce
<1>3. ASSUME NEW u \in Users, job'[u] = job[u]
      PROVE  Knows(u)'
  BY <1>1, <1>3 DEF Inv, Knows, WrittenSince, OnList, InScopeOnce
<1>4. ASSUME NEW u \in Users, job'[u].op \notin {"feedback", "assign"}
      PROVE  Knows(u)'
  BY <1>4 DEF Knows
<1>5. DOMAIN job' = Users /\ \A u \in Users : job'[u] = job[u] \/ job'[u].op \notin {"feedback", "assign"}
  BY DEF Inv
<1>. QED
  BY <1>2, <1>3, <1>4, <1>5 DEF Inv, AnswerKnows

LEMMA Environment ==
  ASSUME Inv, DayPasses \/ \E c \in Customers : BankDataChanges(c) \/ BatchRecommends(c)
  PROVE  Inv'
<1>1. /\ UNCHANGED <<callLists, feedback, history, job>> /\ answer' = Idle
  BY DEF DayPasses, BankDataChanges, BatchRecommends, tables, Quiet
<1>. QED
  BY <1>1, Elsewhere DEF Idle

(* What only reads, or writes other tables.                                *)
LEMMA Reads ==
  ASSUME Inv, NEW u \in Users,
         \/ ListCustomers(u)
         \/ \E d \in Dates : GetCallList(u, d)
         \/ \E c \in Customers : \/ GetCustomer(u, c) \/ GetCallNotes(u, c)
                                \/ \E v \in 1..MaxVersions : AuditRecommendation(u, c, v)
         \/ \E k \in KpiInputs : SetKpi(u, k)
  PROVE  Inv'
<1>1. UNCHANGED <<callLists, feedback, history, job>>
  BY DEF ListCustomers, GetCallList, GetCustomer, GetCallNotes, AuditRecommendation, SetKpi, tables
<1>2. answer'.op # "assign"
  <2>1. CASE ListCustomers(u)
    BY <2>1 DEF ListCustomers, Answer
  <2>2. CASE \E d \in Dates : GetCallList(u, d)
    BY <2>2 DEF GetCallList, Answer
  <2>3. ASSUME NEW c \in Customers, GetCustomer(u, c)
        PROVE  answer'.op # "assign"
    BY <2>3 DEF GetCustomer, Answer
  <2>4. ASSUME NEW c \in Customers, GetCallNotes(u, c)
        PROVE  answer'.op # "assign"
    BY <2>4 DEF GetCallNotes, Answer
  <2>5. ASSUME NEW c \in Customers, NEW v \in 1..MaxVersions, AuditRecommendation(u, c, v)
        PROVE  answer'.op # "assign"
    BY <2>5 DEF AuditRecommendation, Answer
  <2>6. CASE \E k \in KpiInputs : SetKpi(u, k)
    BY <2>6 DEF SetKpi, Tell, Answer
  <2>. QED
    BY <2>1, <2>2, <2>3, <2>4, <2>5, <2>6
<1>. QED
  BY <1>1, <1>2, Elsewhere

(* Assessments, notes and failures.                                        *)
LEMMA Assesses ==
  ASSUME Inv, NEW u \in Users,
         \/ \E c \in Customers : AskAssessment(u, c) \/ AskNote(u, c)
         \/ ReadPosition(u) \/ ScorePackages(u) \/ FinishAssessment(u)
         \/ SaveCallNote(u) \/ RequestFails(u)
  PROVE  Inv'
<1>1. UNCHANGED <<callLists, feedback, history>>
  BY DEF AskAssessment, AskNote, ReadPosition, ScorePackages, FinishAssessment, SaveCallNote,
         RequestFails, tables
<1>2. answer'.op # "assign"
  <2>1. CASE answer' = Idle
    BY <2>1 DEF Idle
  <2>2. CASE FinishAssessment(u)
    BY <2>2 DEF FinishAssessment, Answer
  <2>3. CASE SaveCallNote(u)
    BY <2>3 DEF SaveCallNote, Tell, Answer
  <2>. QED
    BY <2>1, <2>2, <2>3 DEF AskAssessment, AskNote, ReadPosition, ScorePackages, RequestFails, Quiet
<1>3. \E j : job' = [job EXCEPT ![u] = j] /\ j.op \notin {"feedback", "assign"}
  <2>1. ASSUME NEW c \in Customers, AskAssessment(u, c)
        PROVE  \E j : job' = [job EXCEPT ![u] = j] /\ j.op \notin {"feedback", "assign"}
    <3>. DEFINE j == [op |-> "assessment", step |-> "allowed", customer |-> c,
                      asked |-> Len(feedback)]
    <3>1. job' = [job EXCEPT ![u] = j]
      BY <2>1 DEF AskAssessment, Start
    <3>2. j.op \notin {"feedback", "assign"}
      OBVIOUS
    <3>. HIDE DEF j
    <3>. QED
      BY <3>1, <3>2
  <2>2. ASSUME NEW c \in Customers, AskNote(u, c)
        PROVE  \E j : job' = [job EXCEPT ![u] = j] /\ j.op \notin {"feedback", "assign"}
    <3>. DEFINE j == [op |-> "note", step |-> "allowed", customer |-> c]
    <3>1. job' = [job EXCEPT ![u] = j]
      BY <2>2 DEF AskNote, Start
    <3>2. j.op \notin {"feedback", "assign"}
      OBVIOUS
    <3>. HIDE DEF j
    <3>. QED
      BY <3>1, <3>2
  <2>3. CASE ReadPosition(u)
    <3>. DEFINE c == job[u].customer
                d == data[c]
                asOf == HalfMonth(today)
                j == [op |-> "assessment", step |-> "read", customer |-> c,
                      asked |-> job[u].asked, month |-> Month(today),
                      current |-> CurrentPosition(d), relationship |-> RelationshipNow(c),
                      window_3m |-> Window(d, asOf, 3), window_6m |-> Window(d, asOf, 6),
                      trend |-> Trend(d, asOf), packages |-> NULL]
    <3>1. job' = [job EXCEPT ![u] = j]
      BY <2>3 DEF ReadPosition, Start
    <3>2. j.op = "assessment"
      OBVIOUS
    <3>. HIDE DEF j
    <3>. QED
      BY <3>1, <3>2
  <2>4. CASE ScorePackages(u)
    <3>. DEFINE j == [job[u] EXCEPT !.step = "scored",
                       !.packages = Evaluate(data[job[u].customer], job[u].current,
                                             job[u].relationship, KpiOf(job[u].month))]
    <3>1. job' = [job EXCEPT ![u] = j]
      BY <2>4 DEF ScorePackages, Start
    <3>2. j.op = job[u].op /\ job[u].op = "assessment"
      BY <2>4 DEF ScorePackages, Serving
    <3>. QED
      BY <3>1, <3>2
  <2>5. CASE FinishAssessment(u) \/ SaveCallNote(u) \/ RequestFails(u)
    <3>1. job' = [job EXCEPT ![u] = Idle] /\ Idle.op \notin {"feedback", "assign"}
      BY <2>5 DEF FinishAssessment, SaveCallNote, RequestFails, Done, Idle
    <3>. QED
      BY <3>1
  <2>. QED
    BY <2>1, <2>2, <2>3, <2>4, <2>5
<1>. QED
  BY <1>1, <1>2, <1>3, Elsewhere

(* The check of AskFeedback: whoever may access a customer is, or was, in   *)
(* scope.                                                                  *)
LEMMA AccessIsScope ==
  ASSUME Inv, NEW u \in Users, NEW c \in Customers, CanAccess(u, c)
  PROVE  InScopeOnce(u, c)
<1>1. ASSUME NEW d \in Dates, OnList(d, c)
      PROVE  SaleOf(d, c) \in Users /\ <<c, SaleOf(d, c)>> \in listed
  BY <1>1 DEF Inv, ListTypes, Listed, ListRow, OnList, SaleOf
<1>. QED
  BY <1>1 DEF CanAccess, InScopeOnce

LEMMA AsksFeedback ==
  ASSUME Inv, NEW u \in Users, NEW c \in Customers, NEW v \in 1..MaxVersions,
         NEW input \in FeedbackInputs, AskFeedback(u, c, v, input)
  PROVE  Inv'
<1>1. /\ UNCHANGED <<callLists, feedback, written, writes, listed>> /\ answer' = Idle
      /\ CanAccess(u, c)
  BY DEF AskFeedback, tables, history, Quiet
<1>. DEFINE j == [op |-> "feedback", step |-> "allowed", customer |-> c, version |-> v,
                  status |-> input.status, product |-> ProductOf(c, v, input)]
<1>2. job' = [job EXCEPT ![u] = j] /\ j.op = "feedback" /\ j.customer = c
  BY DEF AskFeedback, Start
<1>. HIDE DEF j
<1>3. ListTypes' /\ Listed' /\ FeedbackKnows' /\ AnswerKnows'
  BY <1>1 DEF Inv, ListTypes, Listed, FeedbackKnows, OnList, SaleOf, InScopeOnce, AnswerKnows, Idle
<1>4. Knows(u)'
  BY <1>1, <1>2, AccessIsScope DEF Inv, Knows, InScopeOnce
<1>5. ASSUME NEW w \in Users, w # u
      PROVE  Knows(w)'
  BY <1>1, <1>2, <1>5 DEF Inv, Knows, WrittenSince, OnList, InScopeOnce
<1>. QED
  BY <1>2, <1>3, <1>4, <1>5 DEF Inv

(* The INSERT records what was checked.                                    *)
LEMMA SubmitsFeedback ==
  ASSUME Inv, NEW u \in Users, SubmitFeedback(u)
  PROVE  Inv'
<1>. DEFINE row == [customer |-> job[u].customer, version |-> job[u].version, sale |-> u,
                    product |-> job[u].product, status |-> job[u].status, day |-> today]
<1>1. /\ UNCHANGED <<callLists, written, writes, listed>>
      /\ job' = [job EXCEPT ![u] = Idle]
      /\ feedback' = Append(feedback, row) /\ job[u].op = "feedback"
  BY DEF SubmitFeedback, history, Done, Serving
<1>2. answer'.op = "feedback"
  BY DEF SubmitFeedback, Answer
<1>3. InScopeOnce(row.sale, row.customer)
  BY <1>1 DEF Inv, Knows
<1>. HIDE DEF row
<1>4. FeedbackKnows'
  <2>1. PICK S : feedback \in Seq(S)
    BY DEF Inv, FeedbackKnows
  <2>2. feedback \in Seq(S \cup {row})
    BY <2>1, SeqMonotonic
  <2>3. /\ feedback' \in Seq(S \cup {row}) /\ Len(feedback) \in Nat
        /\ DOMAIN feedback' = 1..(Len(feedback) + 1) /\ DOMAIN feedback = 1..Len(feedback)
        /\ \A i \in 1..Len(feedback) : feedback'[i] = feedback[i]
        /\ feedback'[Len(feedback) + 1] = row
    BY <1>1, <2>2, AppendProperties, LenProperties
  <2>4. ASSUME NEW i \in DOMAIN feedback'
        PROVE  InScopeOnce(feedback'[i].sale, feedback'[i].customer)
    <3>1. CASE i \in 1..Len(feedback)
      BY <2>3, <3>1 DEF Inv, FeedbackKnows
    <3>2. CASE i = Len(feedback) + 1
      BY <1>3, <2>3, <3>2
    <3>. QED
      BY <2>3, <3>1, <3>2
  <2>. QED
    BY <1>1, <2>3, <2>4 DEF FeedbackKnows, InScopeOnce
<1>5. ListTypes' /\ Listed' /\ AnswerKnows'
  BY <1>1, <1>2 DEF Inv, ListTypes, Listed, OnList, SaleOf, AnswerKnows
<1>6. ASSUME NEW w \in Users
      PROVE  Knows(w)'
  <2>1. CASE w = u
    BY <1>1, <2>1 DEF Inv, Knows, Idle
  <2>2. CASE w # u
    BY <1>1, <2>2 DEF Inv, Knows, WrittenSince, OnList, InScopeOnce
  <2>. QED
    BY <2>1, <2>2
<1>. QED
  BY <1>1, <1>4, <1>5, <1>6 DEF Inv

(* An assignment starts: no row is written yet.                            *)
LEMMA AsksAssign ==
  ASSUME Inv, NEW u \in Users, NEW a \in Assignments, AskAssign(u, a)
  PROVE  Inv'
<1>. DEFINE j == [op |-> "assign", step |-> "rows", request |-> a, next |-> 1, since |-> writes]
<1>1. /\ UNCHANGED <<callLists, feedback, written, writes, listed>> /\ answer' = Idle
  BY DEF AskAssign, tables, history, Quiet
<1>2. /\ job' = [job EXCEPT ![u] = j] /\ j.op = "assign"
      /\ j.request = a /\ j.next = 1 /\ j.since = writes
  BY DEF AskAssign, Start
<1>3. ListTypes' /\ Listed' /\ FeedbackKnows' /\ AnswerKnows'
  BY <1>1 DEF Inv, ListTypes, Listed, FeedbackKnows, OnList, SaleOf, InScopeOnce, AnswerKnows, Idle
<1>4. Knows(u)'
  <2>1. j \in Assigning /\ writes <= writes
    BY DEF Inv, ListTypes, Assigning
  <2>2. WrittenSince(a, writes, 1)
    BY RowOf DEF WrittenSince
  <2>3. WrittenSince(a, writes, 1)'
    BY <1>1, <2>2 DEF WrittenSince, OnList
  <2>4. job'[u] = j
    BY <1>2 DEF Inv
  <2>. HIDE DEF j
  <2>. QED
    BY <1>1, <1>2, <2>1, <2>3, <2>4 DEF Knows, Assigning
<1>. HIDE DEF j
<1>5. ASSUME NEW w \in Users, w # u
      PROVE  Knows(w)'
  BY <1>1, <1>2, <1>5 DEF Inv, Knows, WrittenSince, OnList, InScopeOnce
<1>. QED
  BY <1>2, <1>3, <1>4, <1>5 DEF Inv

(* A row of a list is never older than it was, nor taken off the list.      *)
LEMMA RowIsWritten ==
  ASSUME Inv, NEW u \in Users, NEW a \in Assignments, NEW n \in DOMAIN a.rows, NEW row \in ListRow,
         NEW date \in Dates, NEW customer \in Customers, NEW j \in Assigning,
         date = a.date, customer = a.rows[n].customer,
         job[u].op = "assign", job[u].request = a, job[u].next = n,
         j.request = a, j.next = n + 1, j.since = job[u].since, job' = [job EXCEPT ![u] = j],
         callLists' = [callLists EXCEPT ![date][customer] = row],
         writes' = writes + 1,
         written' = [written EXCEPT ![date][customer] = writes + 1],
         listed' = listed \cup {<<customer, row.sale>>},
         feedback' = feedback, answer' = Idle
  PROVE  Inv'
<1>1. /\ callLists \in [Dates -> [Customers -> ListRow \cup {NULL}]]
      /\ written \in [Dates -> [Customers -> Nat]]
      /\ writes \in Nat /\ row # NULL /\ DOMAIN job = Users
  BY NullIsNoRow DEF Inv, ListTypes, ListRow
<1>2. /\ job[u].since \in Nat /\ job[u].since <= writes /\ n \in Nat /\ j.op = "assign"
      /\ WrittenSince(a, job[u].since, n)
  BY DEF Inv, Knows, Assigning
<1>3. job'[u] = j /\ DOMAIN job' = Users /\ \A w \in Users : w # u => job'[w] = job[w]
  BY <1>1
<1>4. ASSUME NEW d \in Dates, NEW c \in Customers
      PROVE  /\ callLists'[d][c] = IF d = date /\ c = customer THEN row ELSE callLists[d][c]
             /\ written'[d][c] = IF d = date /\ c = customer THEN writes + 1 ELSE written[d][c]
  <2>1. /\ DOMAIN callLists = Dates /\ DOMAIN callLists[d] = Customers
        /\ DOMAIN written = Dates /\ DOMAIN written[d] = Customers
        /\ DOMAIN callLists[date] = Customers /\ DOMAIN written[date] = Customers
    BY <1>1
  <2>2. CASE d = date
    BY <2>1, <2>2
  <2>3. CASE d # date
    BY <2>1, <2>3
  <2>. QED
    BY <2>2, <2>3
<1>5. ListTypes'
  BY <1>1 DEF ListTypes
<1>6. callLists'[date][customer] # NULL
  BY <1>1, <1>4
<1>7. ASSUME NEW d \in Dates, NEW c \in Customers, callLists[d][c] # NULL
      PROVE  callLists'[d][c] # NULL
  BY <1>1, <1>4, <1>7
<1>8. Listed'
  <2>. SUFFICES ASSUME NEW d \in Dates, NEW c \in Customers, callLists'[d][c] # NULL
                PROVE  <<c, callLists'[d][c].sale>> \in listed'
    BY DEF Listed, OnList, SaleOf
  <2>1. CASE d = date /\ c = customer
    BY <1>4, <2>1
  <2>2. CASE ~(d = date /\ c = customer)
    BY <1>4, <2>2 DEF Inv, Listed, OnList, SaleOf
  <2>. QED
    BY <2>1, <2>2
<1>9. ASSUME NEW b \in Assignments, NEW since \in Nat, since <= writes, NEW m,
             WrittenSince(b, since, m)
      PROVE  WrittenSince(b, since, m)'
  <2>. SUFFICES ASSUME NEW i \in DOMAIN b.rows, i < m
                PROVE  /\ written'[b.date][b.rows[i].customer] > since
                       /\ callLists'[b.date][b.rows[i].customer] # NULL
    BY DEF WrittenSince, OnList
  <2>. DEFINE d == b.date
              c == b.rows[i].customer
  <2>1. d \in Dates /\ c \in Customers
    BY DateOf, RowOf
  <2>2. written[d][c] > since /\ callLists[d][c] # NULL
    BY <1>9 DEF WrittenSince, OnList
  <2>. HIDE DEF d, c
  <2>3. callLists'[d][c] # NULL
    BY <1>7, <2>1, <2>2
  <2>4. written'[d][c] > since
    BY <1>1, <1>4, <1>9, <2>1, <2>2
  <2>. QED
    BY <2>3, <2>4 DEF d, c
<1>10. Knows(u)'
  <2>1. PICK since \in Nat : since = job[u].since
    BY <1>2
  <2>2. WrittenSince(a, since, n)'
    BY <1>2, <1>9, <2>1
  <2>3. WrittenSince(a, since, n + 1)'
    <3>1. written'[date][customer] > since
      BY <1>1, <1>2, <1>4, <2>1
    <3>2. Len(a.rows) \in Nat /\ DOMAIN a.rows = 1..Len(a.rows)
      BY RowOf
    <3>3. \A i \in DOMAIN a.rows : i < n + 1 => i < n \/ i = n
      BY <1>2, <3>2
    <3>. QED
      BY <1>6, <2>2, <3>1, <3>3 DEF WrittenSince, OnList
  <2>4. job'[u].request = a /\ job'[u].next = n + 1 /\ job'[u].since = since
    BY <1>3, <2>1
  <2>. QED
    BY <1>1, <1>2, <1>3, <2>1, <2>3, <2>4 DEF Knows
<1>11. ASSUME NEW w \in Users, w # u
       PROVE  Knows(w)'
  <2>1. job'[w] = job[w]
    BY <1>3, <1>11
  <2>2. CASE job[w].op = "feedback"
    BY <2>1, <2>2 DEF Inv, Knows, InScopeOnce
  <2>3. CASE job[w].op = "assign"
    <3>1. PICK b \in Assignments, since \in Nat, m \in Nat :
               b = job[w].request /\ since = job[w].since /\ m = job[w].next
      BY <2>3 DEF Inv, Knows, Assigning
    <3>2. job[w] \in Assigning /\ since <= writes /\ WrittenSince(b, since, m)
      BY <2>3, <3>1 DEF Inv, Knows
    <3>3. WrittenSince(b, since, m)'
      BY <1>9, <3>2
    <3>. QED
      BY <1>1, <2>1, <2>3, <3>1, <3>2, <3>3 DEF Knows
  <2>4. CASE job[w].op \notin {"feedback", "assign"}
    BY <2>1, <2>4 DEF Knows
  <2>. QED
    BY <2>2, <2>3, <2>4
<1>12. FeedbackKnows' /\ AnswerKnows'
  BY DEF Inv, FeedbackKnows, InScopeOnce, AnswerKnows, Idle
<1>. QED
  BY <1>3, <1>5, <1>8, <1>10, <1>11, <1>12 DEF Inv

(* One turn of the loop writes one row.                                    *)
LEMMA AssignsRow ==
  ASSUME Inv, NEW u \in Users, AssignRow(u)
  PROVE  Inv'
<1>. DEFINE a == job[u].request
            n == job[u].next
            r == a.rows[n]
            new == [sale |-> r.sale,
                    created_by |-> IF callLists[a.date][r.customer] = NULL THEN u
                                   ELSE callLists[a.date][r.customer].created_by]
            j == [job[u] EXCEPT !.next = @ + 1]
<1>1. /\ UNCHANGED feedback /\ answer' = Idle
      /\ job' = [job EXCEPT ![u] = j]
      /\ callLists' = [callLists EXCEPT ![a.date][r.customer] = new]
      /\ writes' = writes + 1
      /\ written' = [written EXCEPT ![a.date][r.customer] = writes + 1]
      /\ listed' = listed \cup {<<r.customer, r.sale>>}
      /\ ~(n > Len(a.rows))
      /\ job[u].op = "assign"
  BY DEF AssignRow, AllWritten, Start, Serving, Quiet
<1>2. /\ job[u] \in Assigning /\ job[u].since <= writes
      /\ WrittenSince(a, job[u].since, n)
      /\ a \in Assignments /\ n \in Nat \ {0} /\ job[u].since \in Nat /\ writes \in Nat
  BY <1>1 DEF Inv, Knows, Assigning, ListTypes
<1>. HIDE DEF a, n, r, new, j
<1>3. a.date \in Dates /\ Len(a.rows) \in Nat /\ DOMAIN a.rows = 1..Len(a.rows)
  BY <1>2, DateOf, RowOf
<1>4. n \in DOMAIN a.rows /\ r.customer \in Customers /\ r.sale \in Users
  <2>1. n \in DOMAIN a.rows
    BY <1>1, <1>2, <1>3
  <2>. QED
    BY <1>2, <2>1, RowOf DEF r
<1>5. new \in ListRow /\ new # NULL /\ new.sale = r.sale
  <2>1. callLists[a.date][r.customer] \in ListRow \cup {NULL}
    BY <1>3, <1>4 DEF Inv, ListTypes
  <2>2. new \in ListRow
    BY <1>4, <2>1 DEF ListRow, new
  <2>. QED
    BY <2>2, NullIsNoRow DEF ListRow, new
<1>6. /\ job[u].next = n /\ job[u].request = a
      /\ j \in Assigning /\ j.request = a /\ j.next = n + 1 /\ j.since = job[u].since
  <2>1. job[u].next = n /\ job[u].request = a /\ j = [job[u] EXCEPT !.next = n + 1]
    BY DEF n, a, j
  <2>2. /\ j \in Assigning /\ j.op = "assign" /\ j.request = a /\ j.next = n + 1
        /\ j.since = job[u].since
    BY <1>2, <2>1 DEF Assigning
  <2>. QED
    BY <2>1, <2>2
<1>. DEFINE date == a.date
            customer == r.customer
<1>7. /\ date \in Dates /\ customer \in Customers
      /\ callLists' = [callLists EXCEPT ![date][customer] = new]
      /\ written' = [written EXCEPT ![date][customer] = writes + 1]
      /\ listed' = listed \cup {<<customer, new.sale>>}
  BY <1>1, <1>3, <1>4, <1>5 DEF r
<1>8. date = a.date /\ customer = a.rows[n].customer
  BY DEF r
<1>9. /\ a \in Assignments /\ n \in DOMAIN a.rows /\ new \in ListRow
      /\ feedback' = feedback /\ answer' = Idle /\ writes' = writes + 1
      /\ job' = [job EXCEPT ![u] = j] /\ job[u].op = "assign"
  BY <1>1, <1>2, <1>4, <1>5
<1>. HIDE DEF date, customer
<1>. QED
  BY <1>6, <1>7, <1>8, <1>9, RowIsWritten

(* The assignment is acknowledged when the loop is over.                   *)
LEMMA AssignsDone ==
  ASSUME Inv, NEW u \in Users, AssignDone(u)
  PROVE  Inv'
<1>1. /\ UNCHANGED <<callLists, feedback, written, writes, listed>>
      /\ job' = [job EXCEPT ![u] = Idle] /\ job[u].op = "assign"
      /\ job[u].next > Len(job[u].request.rows)
      /\ answer'.said = [request |-> job[u].request, since |-> job[u].since]
  BY DEF AssignDone, tables, history, Done, Serving, AllWritten, Answer
<1>2. /\ job[u] \in Assigning /\ WrittenSince(job[u].request, job[u].since, job[u].next)
      /\ job[u].request \in Assignments /\ job[u].next \in Nat
  BY <1>1 DEF Inv, Knows, Assigning
<1>3. WrittenSince(job[u].request, job[u].since, Len(job[u].request.rows) + 1)
  BY <1>1, <1>2, RowOf DEF WrittenSince
<1>4. AnswerKnows'
  <2>1. answer'.said.request = job[u].request /\ answer'.said.since = job[u].since
    BY <1>1
  <2>. QED
    BY <1>1, <1>2, <1>3, <2>1 DEF AnswerKnows, WrittenSince, OnList
<1>5. ListTypes' /\ Listed' /\ FeedbackKnows'
  BY <1>1 DEF Inv, ListTypes, Listed, FeedbackKnows, OnList, SaleOf, InScopeOnce
<1>6. ASSUME NEW w \in Users
      PROVE  Knows(w)'
  BY <1>1 DEF Inv, Knows, Idle, WrittenSince, OnList, InScopeOnce
<1>. QED
  BY <1>1, <1>4, <1>5, <1>6 DEF Inv

LEMMA StepInv == Inv /\ [Next]_vars => Inv'
<1>. SUFFICES ASSUME Inv, [Next]_vars
              PROVE  Inv'
  OBVIOUS
<1>1. CASE UNCHANGED vars
  BY <1>1 DEF Inv, vars, tables, history, ListTypes, Listed, FeedbackKnows, AnswerKnows, Knows,
              WrittenSince, OnList, SaleOf, InScopeOnce
<1>2. CASE DayPasses \/ \E c \in Customers : BankDataChanges(c) \/ BatchRecommends(c)
  BY <1>2, Environment
<1>3. ASSUME NEW u \in Users, 
             \/ ReadPosition(u) \/ ScorePackages(u) \/ FinishAssessment(u)
             \/ SaveCallNote(u) \/ RequestFails(u)
             \/ \E c \in Customers : AskAssessment(u, c) \/ AskNote(u, c)
      PROVE  Inv'
  BY <1>3, Assesses
<1>4. ASSUME NEW u \in Users,
             \/ ListCustomers(u)
             \/ \E d \in Dates : GetCallList(u, d)
             \/ \E c \in Customers : \/ GetCustomer(u, c) \/ GetCallNotes(u, c)
                                    \/ \E v \in 1..MaxVersions : AuditRecommendation(u, c, v)
             \/ \E k \in KpiInputs : SetKpi(u, k)
      PROVE  Inv'
  BY <1>4, Reads
<1>5. ASSUME NEW u \in Users, SubmitFeedback(u) \/ AssignRow(u) \/ AssignDone(u)
      PROVE  Inv'
  BY <1>5, SubmitsFeedback, AssignsRow, AssignsDone
<1>6. ASSUME NEW u \in Users, NEW c \in Customers, NEW v \in 1..MaxVersions,
             NEW input \in FeedbackInputs, AskFeedback(u, c, v, input)
      PROVE  Inv'
  BY <1>6, AsksFeedback
<1>7. ASSUME NEW u \in Users, NEW a \in Assignments, AskAssign(u, a)
      PROVE  Inv'
  BY <1>7, AsksAssign
<1>. QED
  BY <1>1, <1>2, <1>3, <1>4, <1>5, <1>6, <1>7 DEF Next

(* The invariant holds of every behavior of the desk.                      *)
THEOREM Invariance == Spec => []Inv
  BY InitInv, StepInv, PTL DEF Spec

(* submitFeedback and the trigger of its INSERT: whoever has given feedback *)
(* on a customer was, at some time, assigned to the customer or manager of  *)
(* such a user's branch, or is an administrator, whatever happened to the   *)
(* lists between the check and the INSERT.                                 *)
THEOREM OnlyFeedbackInScope == Spec => []FeedbackWithinScope
<1>1. Inv => FeedbackWithinScope
  <2>. SUFFICES ASSUME Inv, NEW i \in DOMAIN feedback
                PROVE  InScopeOnce(feedback[i].sale, feedback[i].customer)
    BY DEF FeedbackWithinScope, InScopeOnce
  <2>. QED
    BY DEF Inv, FeedbackKnows
<1>. QED
  BY <1>1, Invariance, PTL

(* assignCallList: an acknowledged request has written each of its rows,    *)
(* whoever else wrote the list meanwhile and whatever a failure left of an  *)
(* earlier attempt.                                                        *)
THEOREM WholeLists == Spec => []AcknowledgedListIsWhole
<1>1. Inv => AcknowledgedListIsWhole
  <2>. SUFFICES ASSUME Inv, answer.op = "assign", NEW r \in Values(answer.said.request.rows)
                PROVE  /\ written[answer.said.request.date][r.customer] > answer.said.since
                       /\ OnList(answer.said.request.date, r.customer)
    BY DEF AcknowledgedListIsWhole, Answered
  <2>. DEFINE a == answer.said.request
  <2>1. a \in Assignments /\ WrittenSince(a, answer.said.since, Len(a.rows) + 1)
    BY DEF Inv, AnswerKnows
  <2>2. Len(a.rows) \in Nat /\ DOMAIN a.rows = 1..Len(a.rows)
    BY <2>1, RowOf
  <2>3. PICK i \in DOMAIN a.rows : r = a.rows[i]
    BY DEF Values
  <2>. QED
    BY <2>1, <2>2, <2>3 DEF WrittenSince
<1>. QED
  BY <1>1, Invariance, PTL

-----------------------------------------------------------------------------
(* Ranking.                                                                *)

StrictOrder(R, S) ==
  /\ \A i \in S : <<i, i>> \notin R
  /\ \A i, j \in S : i # j => <<i, j>> \in R \/ <<j, i>> \in R
  /\ \A i, j, k \in S : <<i, j>> \in R /\ <<j, k>> \in R => <<i, k>> \in R

Before(R, S, i) == {j \in S : <<j, i>> \in R}

(* In an ordered finite set every number of predecessors below its size    *)
(* occurs: counting them is injective, and so onto.                        *)
LEMMA EveryRankOccurs ==
  ASSUME NEW S, IsFiniteSet(S), NEW R, StrictOrder(R, S), NEW k \in 0..(Cardinality(S) - 1)
  PROVE  \E i \in S : Cardinality(Before(R, S, i)) = k
<1>. DEFINE f == [i \in S |-> Cardinality(Before(R, S, i))]
            N == 0..(Cardinality(S) - 1)
<1>1. Cardinality(S) \in Nat
  BY FS_CardinalityType
<1>2. IsFiniteSet(N) /\ Cardinality(N) = Cardinality(S)
  BY <1>1, FS_Interval
<1>3. ASSUME NEW i \in S
      PROVE  IsFiniteSet(Before(R, S, i)) /\ Cardinality(Before(R, S, i)) \in N
  <2>1. Before(R, S, i) \in SUBSET S /\ Before(R, S, i) # S
    BY DEF StrictOrder, Before
  <2>2. /\ IsFiniteSet(Before(R, S, i)) /\ Cardinality(Before(R, S, i)) <= Cardinality(S)
        /\ Cardinality(S) # Cardinality(Before(R, S, i))
    BY <2>1, FS_Subset
  <2>3. Cardinality(Before(R, S, i)) \in Nat
    BY <2>2, FS_CardinalityType
  <2>. QED
    BY <1>1, <2>2, <2>3
<1>4. ASSUME NEW i \in S, NEW j \in S, <<i, j>> \in R
      PROVE  Cardinality(Before(R, S, i)) < Cardinality(Before(R, S, j))
  <2>1. Before(R, S, i) \in SUBSET Before(R, S, j) /\ i \in Before(R, S, j) /\ i \notin Before(R, S, i)
    BY <1>4 DEF StrictOrder, Before
  <2>2. IsFiniteSet(Before(R, S, j)) /\ Before(R, S, i) # Before(R, S, j)
    BY <1>3, <2>1
  <2>3. Cardinality(Before(R, S, i)) <= Cardinality(Before(R, S, j)) /\ Cardinality(Before(R, S, i)) # Cardinality(Before(R, S, j))
    BY <2>1, <2>2, FS_Subset
  <2>. QED
    BY <1>1, <1>3, <2>3
<1>5. \A i \in S : f[i] = Cardinality(Before(R, S, i)) /\ f[i] \in Int
  BY <1>1, <1>3
<1>6. f \in [S -> N]
  BY <1>3
<1>. HIDE DEF f, N
<1>7. f \in Injection(S, N)
  <2>1. ASSUME NEW i \in S, NEW j \in S, i # j
        PROVE  f[i] # f[j]
    <3>1. <<i, j>> \in R \/ <<j, i>> \in R
      BY <2>1 DEF StrictOrder
    <3>. QED
      BY <1>4, <1>5, <3>1
  <2>. QED
    BY <1>6, <2>1 DEF Injection, IsInjective
<1>8. f \in Surjection(S, N)
  BY <1>2, <1>7, FS_Injection
<1>9. k \in N
  BY DEF N
<1>10. PICK i \in S : f[i] = k
  BY <1>8, <1>9 DEF Surjection
<1>. QED
  BY <1>5, <1>10

(* The smallest of some numbers is one of them.                            *)
LEMMA MinIsThere ==
  ASSUME NEW S, IsFiniteSet(S), S # {}, \A i \in S : i \in Int
  PROVE  Min(S) \in S /\ \A i \in S : Min(S) <= i
<1>. DEFINE R == {p \in S \X S : p[1] < p[2]}
<1>1. Cardinality(S) \in Nat /\ Cardinality(S) # 0
  BY FS_CardinalityType, FS_EmptySet
<1>2. \A i, j \in S : <<i, j>> \in R <=> i < j
  OBVIOUS
<1>. HIDE DEF R
<1>3. StrictOrder(R, S)
  BY <1>2 DEF StrictOrder
<1>4. ASSUME NEW k \in 0..(Cardinality(S) - 1)
      PROVE  \E i \in S : Cardinality(Before(R, S, i)) = k
  BY <1>3, EveryRankOccurs
<1>5. PICK i \in S : Cardinality(Before(R, S, i)) = 0
  BY <1>1, <1>4
<1>6. Before(R, S, i) = {}
  <2>1. Before(R, S, i) \in SUBSET S
    BY DEF Before
  <2>2. IsFiniteSet(Before(R, S, i))
    BY <2>1, FS_Subset
  <2>. QED
    BY <1>5, <2>2, FS_EmptySet
<1>7. ASSUME NEW j \in S
      PROVE  i <= j
  <2>1. ~(j < i)
    BY <1>2, <1>6 DEF Before
  <2>. QED
    BY <2>1
<1>. QED
  BY <1>7 DEF Min

(* Induction up to n, over a set.                                          *)
LEMMA UpTo ==
  ASSUME NEW n \in Nat, NEW P, 0 \in P, \A k \in 1..n : k - 1 \in P => k \in P
  PROVE  0..n \subseteq P
<1>. DEFINE S == (0..n) \ P
<1>1. IsFiniteSet(S)
  <2>1. IsFiniteSet(0..n) /\ S \in SUBSET (0..n)
    BY FS_Interval
  <2>. QED
    BY <2>1, FS_Subset
<1>2. \A i \in S : i \in Int
  OBVIOUS
<1>3. ASSUME S # {}
      PROVE  FALSE
  <2>1. Min(S) \in S /\ \A i \in S : Min(S) <= i
    <3>. HIDE DEF S
    <3>. QED
      BY <1>1, <1>2, <1>3, MinIsThere
  <2>2. Min(S) \in 1..n /\ Min(S) - 1 \in 0..n /\ Min(S) \notin P
    BY <2>1
  <2>3. Min(S) - 1 \in P
    BY <2>1, <2>2
  <2>. QED
    BY <2>2, <2>3
<1>. QED
  BY <1>3

(* The sums exist, and follow their equation.                              *)
Sums(n, f, g) == g = [k \in 0..n |-> IF k = 0 THEN 0 ELSE g[k - 1] + f[k]]

LEMMA SumsExist ==
  ASSUME NEW n \in Nat, NEW f
  PROVE  \E g : Sums(n, f, g)
<1>. DEFINE P == {k \in 0..n : \E g : Sums(k, f, g)}
<1>1. 0 \in P
  <2>1. Sums(0, f, [k \in 0..0 |-> 0])
    BY DEF Sums
  <2>. QED
    BY <2>1
<1>2. ASSUME NEW k \in 1..n, k - 1 \in P
      PROVE  k \in P
  <2>1. PICK g : Sums(k - 1, f, g)
    BY <1>2
  <2>. DEFINE h == [i \in 0..k |-> IF i = k THEN g[k - 1] + f[k] ELSE g[i]]
  <2>2. \A i \in 0..(k - 1) : g[i] = IF i = 0 THEN 0 ELSE g[i - 1] + f[i]
    BY <2>1 DEF Sums
  <2>3. \A i \in 0..k : h[i] = IF i = 0 THEN 0 ELSE h[i - 1] + f[i]
    BY <2>2
  <2>4. h = [i \in 0..k |-> h[i]]
    OBVIOUS
  <2>. HIDE DEF h
  <2>5. Sums(k, f, h)
    BY <2>3, <2>4 DEF Sums
  <2>. QED
    BY <2>5
<1>3. 0..n \subseteq P
  <2>. HIDE DEF P
  <2>. QED
    BY <1>1, <1>2, UpTo
<1>. QED
  BY <1>3

LEMMA TotalIsTheLast ==
  ASSUME NEW n \in Nat, NEW f
  PROVE  \E g : Sums(n, f, g) /\ Total(n, f) = g[n]
<1>. DEFINE g == CHOOSE g : g = [k \in 0..n |-> IF k = 0 THEN 0 ELSE g[k - 1] + f[k]]
<1>1. Total(n, f) = g[n]
  BY DEF Total
<1>2. Sums(n, f, g)
  <2>1. \E h : h = [k \in 0..n |-> IF k = 0 THEN 0 ELSE h[k - 1] + f[k]]
    BY SumsExist DEF Sums
  <2>. QED
    BY <2>1 DEF Sums
<1>. QED
  BY <1>1, <1>2
LEMMA SumsAreNumbers ==
  ASSUME NEW n \in Nat, NEW f, \A k \in 1..n : f[k] \in Int, NEW g, Sums(n, f, g)
  PROVE  \A k \in 0..n : g[k] \in Int
<1>. DEFINE P == {k \in 0..n : g[k] \in Int}
<1>1. \A k \in 0..n : g[k] = IF k = 0 THEN 0 ELSE g[k - 1] + f[k]
  BY DEF Sums
<1>2. 0 \in P /\ \A k \in 1..n : k - 1 \in P => k \in P
  BY <1>1
<1>3. 0..n \subseteq P
  <2>. HIDE DEF P
  <2>. QED
    BY <1>2, UpTo
<1>. QED
  BY <1>3

LEMMA TotalIsANumber ==
  ASSUME NEW n \in Nat, NEW f, \A k \in 1..n : f[k] \in Int
  PROVE  Total(n, f) \in Int
<1>1. PICK g : Sums(n, f, g) /\ Total(n, f) = g[n]
  BY TotalIsTheLast
<1>2. \A k \in 0..n : g[k] \in Int
  BY <1>1, SumsAreNumbers
<1>. QED
  BY <1>1, <1>2

(* A sum of which each term is split is the sum of the parts.              *)
LEMMA TotalOfParts ==
  ASSUME NEW n \in Nat, NEW f, NEW a, NEW b,
         \A k \in 1..n : a[k] \in Int /\ b[k] \in Int /\ f[k] = a[k] + b[k]
  PROVE  Total(n, f) = Total(n, a) + Total(n, b)
<1>1. PICK g : Sums(n, f, g) /\ Total(n, f) = g[n]
  BY TotalIsTheLast
<1>2. PICK ga : Sums(n, a, ga) /\ Total(n, a) = ga[n]
  BY TotalIsTheLast
<1>3. PICK gb : Sums(n, b, gb) /\ Total(n, b) = gb[n]
  BY TotalIsTheLast
<1>4. \A k \in 0..n : ga[k] \in Int /\ gb[k] \in Int
  BY <1>2, <1>3, SumsAreNumbers
<1>. DEFINE P == {k \in 0..n : g[k] = ga[k] + gb[k]}
<1>5. \A k \in 0..n : /\ g[k]  = IF k = 0 THEN 0 ELSE g[k - 1] + f[k]
                      /\ ga[k] = IF k = 0 THEN 0 ELSE ga[k - 1] + a[k]
                      /\ gb[k] = IF k = 0 THEN 0 ELSE gb[k - 1] + b[k]
  BY <1>1, <1>2, <1>3 DEF Sums
<1>6. 0 \in P
  BY <1>5
<1>7. ASSUME NEW k \in 1..n, k - 1 \in P
      PROVE  k \in P
  <2>1. g[k] = g[k - 1] + f[k] /\ ga[k] = ga[k - 1] + a[k] /\ gb[k] = gb[k - 1] + b[k]
    BY <1>5
  <2>2. k - 1 \in 0..n /\ g[k - 1] = ga[k - 1] + gb[k - 1] /\ f[k] = a[k] + b[k]
    BY <1>7
  <2>3. ga[k - 1] \in Int /\ gb[k - 1] \in Int /\ a[k] \in Int /\ b[k] \in Int
    BY <1>4, <2>2
  <2>. QED
    BY <2>1, <2>2, <2>3
<1>8. 0..n \subseteq P
  <2>. HIDE DEF P
  <2>. QED
    BY <1>6, <1>7, UpTo
<1>. QED
  BY <1>1, <1>2, <1>3, <1>8

(* The packages in their order are the packages.                           *)
Judged(p) == p.eligible \in BOOLEAN /\ PassCount(p) \in Nat

LEMMA RankedAreThePackages ==
  ASSUME NEW n \in Nat, NEW ps, DOMAIN ps = 1..n, \A i \in 1..n : Judged(ps[i])
  PROVE  /\ DOMAIN Ranked(ps) = 1..n
         /\ \A k \in 1..n : \E i \in 1..n : Ranked(ps)[k] = ps[i]
<1>. DEFINE S == 1..n
            R == {p \in S \X S : Precedes(ps, p[1], p[2])}
            Rank(i) == Cardinality({j \in DOMAIN ps : Precedes(ps, j, i)})
<1>1. IsFiniteSet(S) /\ Cardinality(S) = n
  BY FS_Interval
<1>2. \A i, j \in S : <<i, j>> \in R <=> Precedes(ps, i, j)
  OBVIOUS
<1>3. StrictOrder(R, S)
  <2>. HIDE DEF R
  <2>1. \A i \in S : /\ ps[i].eligible \in BOOLEAN
                     /\ PassCount(ps[i]) \in Int /\ i \in Int
    BY DEF Judged
  <2>2. \A i \in S : ~Precedes(ps, i, i)
    BY <2>1 DEF Precedes
  <2>3. \A i, j \in S : i # j => Precedes(ps, i, j) \/ Precedes(ps, j, i)
    <3>. SUFFICES ASSUME NEW i \in S, NEW j \in S, i # j
                  PROVE  Precedes(ps, i, j) \/ Precedes(ps, j, i)
      OBVIOUS
    <3>1. PassCount(ps[i]) > PassCount(ps[j]) \/ PassCount(ps[j]) > PassCount(ps[i])
             \/ (PassCount(ps[i]) = PassCount(ps[j]) /\ (i < j \/ j < i))
      BY <2>1
    <3>. QED
      BY <2>1, <3>1, Zenon DEF Precedes
  <2>4. ASSUME NEW i \in S, NEW j \in S, NEW k \in S, Precedes(ps, i, j), Precedes(ps, j, k)
        PROVE  Precedes(ps, i, k)
    BY <2>1, <2>4 DEF Precedes
  <2>. HIDE DEF S
  <2>. QED
    BY <1>2, <2>2, <2>3, <2>4 DEF StrictOrder
<1>4. ASSUME NEW k \in S
      PROVE  \E i \in S : Ranked(ps)[k] = ps[i]
  <2>1. k - 1 \in 0..(Cardinality(S) - 1)
    BY <1>1
  <2>2. PICK i \in S : Cardinality(Before(R, S, i)) = k - 1
    <3>. HIDE DEF R, S
    <3>. QED
      BY <1>1, <1>3, <2>1, EveryRankOccurs
  <2>3. Before(R, S, i) = {j \in DOMAIN ps : Precedes(ps, j, i)}
    BY <1>2 DEF Before
  <2>4. i \in DOMAIN ps /\ Rank(i) = k - 1
    BY <2>2, <2>3
  <2>5. Ranked(ps)[k] = ps[CHOOSE x \in DOMAIN ps : Rank(x) = k - 1]
    BY DEF Ranked
  <2>. HIDE DEF Rank
  <2>6. (CHOOSE x \in DOMAIN ps : Rank(x) = k - 1) \in DOMAIN ps
    BY <2>4
  <2>. QED
    BY <2>5, <2>6
<1>5. DOMAIN Ranked(ps) = 1..n
  BY DEF Ranked
<1>. QED
  BY <1>4, <1>5

-----------------------------------------------------------------------------
(* Evaluation.                                                             *)

LEMMA FewRules == IsFiniteSet(RuleCodes)
<1>1. IsFiniteSet({})
  BY FS_EmptySet
<1>2. IsFiniteSet({"R1"} \cup {"R2"} \cup {"R3"})
  BY FS_Singleton, FS_Union
<1>3. IsFiniteSet({"R4"} \cup {"R5"} \cup {"R9"})
  BY FS_Singleton, FS_Union
<1>4. IsFiniteSet({"R10"} \cup {"R11"} \cup {"R12"})
  BY FS_Singleton, FS_Union
<1>. DEFINE A == {"R1"} \cup {"R2"} \cup {"R3"}
            B == {"R4"} \cup {"R5"} \cup {"R9"}
            C == {"R10"} \cup {"R11"} \cup {"R12"}
<1>5. RuleCodes = (A \cup B) \cup C
  BY DEF RuleCodes
<1>. HIDE DEF A, B, C
<1>6. IsFiniteSet((A \cup B) \cup C)
  BY <1>2, <1>3, <1>4, FS_Union DEF A, B, C
<1>. QED
  BY <1>5, <1>6

(* R5 applies to every package, and blocks it.                             *)
LEMMA PackageIsJudged ==
  ASSUME NEW row, NEW d, NEW cur, NEW rel, NEW kpiOf,
         NEW p, p = EvaluatePackage(row, d, cur, rel, kpiOf)
  PROVE  /\ Judged(p) /\ p.product = row.product
         /\ row.product \in rel.suppressed => ~p.eligible
<1>. DEFINE applied  == {code \in RuleCodes : Applies(code, row, d, kpiOf)}
            criteria == [code \in applied |-> Passed(code, row, cur, rel, kpiOf)]
            blocked  == {code \in applied \ NonBlocking : ~criteria[code]}
<1>1. /\ p.product = row.product /\ p.eligible = (blocked = {}) /\ p.criteria = criteria
  BY DEF EvaluatePackage
<1>2. PassCount(p) \in Nat
  <2>1. DOMAIN criteria = applied /\ applied \in SUBSET RuleCodes
    OBVIOUS
  <2>. HIDE DEF applied, criteria
  <2>2. {code \in DOMAIN p.criteria : p.criteria[code]} \in SUBSET RuleCodes
    BY <1>1, <2>1
  <2>3. IsFiniteSet({code \in DOMAIN p.criteria : p.criteria[code]})
    BY <2>2, FewRules, FS_Subset
  <2>. QED
    BY <2>3, FS_CardinalityType DEF PassCount
<1>3. ASSUME row.product \in rel.suppressed
      PROVE  "R5" \in blocked
  <2>1. "R5" \in applied \ NonBlocking
    BY DEF RuleCodes, Applies, NonBlocking
  <2>2. criteria["R5"] = (row.product \notin rel.suppressed)
    BY <2>1 DEF Passed
  <2>. QED
    BY <1>3, <2>1, <2>2
<1>. HIDE DEF blocked
<1>4. p.eligible \in BOOLEAN
  BY <1>1
<1>. QED
  BY <1>1, <1>2, <1>3, <1>4 DEF Judged

(* Whatever else the rules say, no eligible package is of a product that    *)
(* is suppressed.                                                          *)
Clean(ps, suppressed) ==
  /\ DOMAIN ps = 1..Len(Catalog)
  /\ \A i \in DOMAIN ps : /\ ps[i].product \in Products
                          /\ ps[i].product \in suppressed => ~ps[i].eligible

LEMMA CleanPackages ==
  ASSUME NEW ps, NEW suppressed, Clean(ps, suppressed)
  PROVE  /\ \A p \in Values(ps) : p.product \in Products
         /\ \A k \in DOMAIN ps, x \in suppressed : ps[k].eligible => ps[k].product # x
<1>1. ASSUME NEW k \in DOMAIN ps
      PROVE  ps[k].product \in Products
  BY DEF Clean
<1>2. ASSUME NEW k \in DOMAIN ps, NEW x \in suppressed, ps[k].eligible, ps[k].product = x
      PROVE  FALSE
  BY <1>2, Zenon DEF Clean
<1>. QED
  BY <1>1, <1>2 DEF Values

LEMMA EvaluationIsClean ==
  ASSUME NEW d, NEW cur, NEW rel, NEW kpiOf
  PROVE  Clean(Evaluate(d, cur, rel, kpiOf), rel.suppressed)
<1>. DEFINE n == Len(Catalog)
            ps == [i \in DOMAIN Catalog |-> EvaluatePackage(Catalog[i], d, cur, rel, kpiOf)]
<1>1. n \in Nat /\ DOMAIN Catalog = 1..n /\ \A i \in 1..n : Catalog[i].product \in Products
  BY CatalogAssumption
<1>2. DOMAIN ps = 1..n /\ \A i \in 1..n : ps[i] = EvaluatePackage(Catalog[i], d, cur, rel, kpiOf)
  BY <1>1
<1>3. Evaluate(d, cur, rel, kpiOf) = Ranked(ps)
  BY DEF Evaluate
<1>. HIDE DEF ps, n
<1>4. \A i \in 1..n : /\ Judged(ps[i]) /\ ps[i].product \in Products
                      /\ ps[i].product \in rel.suppressed => ~ps[i].eligible
  BY <1>1, <1>2, PackageIsJudged
<1>5. /\ DOMAIN Ranked(ps) = 1..n
      /\ \A k \in 1..n : \E i \in 1..n : Ranked(ps)[k] = ps[i]
  BY <1>1, <1>2, <1>4, RankedAreThePackages
<1>. QED
  BY <1>3, <1>4, <1>5 DEF Clean, n

(* The words of the explainer are about an eligible package, if any.        *)
LEMMA WordsAreOfAnEligiblePackage ==
  ASSUME NEW n \in Nat, NEW ps, DOMAIN ps = 1..n, NEW mode, NEW evidence, NEW reply,
         Explain(mode, ps, evidence, reply).narrative # NULL
  PROVE  \E i \in DOMAIN ps : /\ ps[i].eligible
                              /\ Explain(mode, ps, evidence, reply).narrative.product = ps[i].product
<1>. DEFINE top == {i \in DOMAIN ps : ps[i].eligible}
<1>1. /\ top # {}
      /\ Explain(mode, ps, evidence, reply).narrative.product = ps[Min(top)].product
  BY DEF Explain
<1>2. \A i \in top : i \in Int
  OBVIOUS
<1>3. IsFiniteSet(top)
  <2>1. IsFiniteSet(1..n) /\ top \in SUBSET (1..n)
    BY FS_Interval
  <2>. QED
    BY <2>1, FS_Subset
<1>4. Min(top) \in top
  <2>. HIDE DEF top
  <2>. QED
    BY <1>1, <1>2, <1>3, MinIsThere
<1>. QED
  BY <1>1, <1>4

-----------------------------------------------------------------------------
(* What is assumed of a customer's rows.                                   *)
LEMMA ProfileOf ==
  ASSUME NEW d \in Profiles
  PROVE  /\ Len(d.txns) \in Nat /\ DOMAIN d.txns = 1..Len(d.txns)
         /\ \A i \in DOMAIN d.txns : d.txns[i].ts \in Int /\ d.txns[i].amount \in Int
         /\ Len(d.casa) \in Nat /\ \A i \in 1..Len(d.casa) : d.casa[i] \in Int
         /\ d.casa # <<>> => Len(d.casa) > 0
<1>1. /\ d.txns \in Seq([ts : Int, dir : {"in", "out"}, amount : Int])
      /\ d.casa \in Seq(Int)
  BY ProfileAssumption
<1>2. /\ Len(d.txns) \in Nat /\ DOMAIN d.txns = 1..Len(d.txns)
      /\ Len(d.casa) \in Nat
  BY <1>1, LenProperties
<1>3. \A i \in DOMAIN d.txns : d.txns[i] \in [ts : Int, dir : {"in", "out"}, amount : Int]
  BY <1>1, <1>2, ElementOfSeq
<1>4. \A i \in 1..Len(d.casa) : d.casa[i] \in Int
  BY <1>1, <1>2, ElementOfSeq
<1>5. d.casa # <<>> => Len(d.casa) > 0
  BY <1>1, <1>2, EmptySeq
<1>. QED
  BY <1>2, <1>3, <1>4, <1>5

(* The windows of six months, and of its two halves.                       *)
LEMMA HalvesAddUp ==
  ASSUME NEW d \in Profiles, NEW asOf \in Int
  PROVE  LET half == Window(d, asOf, 6).flow
             q1 == Flows(d, asOf, 3, 0)
             q2 == Flows(d, asOf, 3, 3)
         IN  /\ half.total_in  = q1.total_in  + q2.total_in
             /\ half.total_out = q1.total_out + q2.total_out
             /\ half.txn_count = q1.txn_count + q2.txn_count
<1>. DEFINE n == Len(d.txns)
            H  == {i \in DOMAIN d.txns : InWindow(d.txns[i], asOf, 6, 0)}
            H1 == {i \in DOMAIN d.txns : InWindow(d.txns[i], asOf, 3, 0)}
            H2 == {i \in DOMAIN d.txns : InWindow(d.txns[i], asOf, 3, 3)}
<1>1. /\ n \in Nat /\ DOMAIN d.txns = 1..n
      /\ \A i \in 1..n : d.txns[i].ts \in Int /\ d.txns[i].amount \in Int
  BY ProfileOf
<1>2. \A i \in 1..n : /\ i \in H <=> i \in H1 \/ i \in H2
                      /\ ~(i \in H1 /\ i \in H2)
  BY <1>1 DEF InWindow, Months
<1>3. H \in SUBSET (1..n) /\ H1 \in SUBSET (1..n) /\ H2 \in SUBSET (1..n)
  BY <1>1
<1>4. /\ Flows(d, asOf, 6, 0).txn_count = Cardinality(H)
      /\ Flows(d, asOf, 3, 0).txn_count = Cardinality(H1)
      /\ Flows(d, asOf, 3, 3).txn_count = Cardinality(H2)
  BY DEF Flows
<1>5. ASSUME NEW dir
      PROVE  LET sum(hit) == Total(n, [i \in DOMAIN d.txns |-> IF i \in hit /\ d.txns[i].dir = dir
                                                               THEN d.txns[i].amount ELSE 0])
             IN  sum(H) = sum(H1) + sum(H2)
  <2>. DEFINE f == [i \in DOMAIN d.txns |-> IF i \in H /\ d.txns[i].dir = dir
                                            THEN d.txns[i].amount ELSE 0]
              a == [i \in DOMAIN d.txns |-> IF i \in H1 /\ d.txns[i].dir = dir
                                            THEN d.txns[i].amount ELSE 0]
              b == [i \in DOMAIN d.txns |-> IF i \in H2 /\ d.txns[i].dir = dir
                                            THEN d.txns[i].amount ELSE 0]
  <2>1. \A k \in 1..n : a[k] \in Int /\ b[k] \in Int /\ f[k] = a[k] + b[k]
    <3>. HIDE DEF H, H1, H2
    <3>. QED
      BY <1>1, <1>2
  <2>. HIDE DEF f, a, b, n
  <2>2. Total(n, f) = Total(n, a) + Total(n, b)
    BY <1>1, <2>1, TotalOfParts
  <2>. QED
    BY <2>2 DEF f, a, b
<1>6. /\ Flows(d, asOf, 6, 0).total_in = Flows(d, asOf, 3, 0).total_in + Flows(d, asOf, 3, 3).total_in
      /\ Flows(d, asOf, 6, 0).total_out = Flows(d, asOf, 3, 0).total_out + Flows(d, asOf, 3, 3).total_out
  BY <1>5 DEF Flows
<1>7. Cardinality(H) = Cardinality(H1) + Cardinality(H2)
  <2>. HIDE DEF H, H1, H2, n
  <2>1. IsFiniteSet(H1) /\ IsFiniteSet(H2)
    <3>1. 1 \in Int /\ n \in Int
      BY <1>1
    <3>2. IsFiniteSet(1..n)
      BY <3>1, FS_Interval
    <3>. QED
      BY <1>3, <3>2, FS_Subset
  <2>2. H = H1 \cup H2 /\ H1 \cap H2 = {}
    BY <1>2, <1>3
  <2>3. /\ Cardinality(H1) \in Nat /\ Cardinality(H2) \in Nat /\ Cardinality({}) = 0
    BY <2>1, FS_CardinalityType, FS_EmptySet
  <2>4. Cardinality(H1 \cup H2) = Cardinality(H1) + Cardinality(H2) - Cardinality(H1 \cap H2)
    BY <2>1, FS_Union
  <2>5. Cardinality(H) = Cardinality(H1 \cup H2) /\ Cardinality(H1 \cap H2) = 0
    <3>1. Cardinality(H) = Cardinality(H1 \cup H2)
      BY <2>2, Zenon
    <3>2. Cardinality(H1 \cap H2) = Cardinality({})
      BY <2>2, Zenon
    <3>. QED
      BY <2>3, <3>1, <3>2
  <2>. QED
    BY <2>3, <2>4, <2>5
<1>. QED
  BY <1>4, <1>6, <1>7 DEF Window

(* What a recommendation keeps of a customer.                              *)
LEMMA SnapshotOf ==
  ASSUME NEW d \in Profiles
  PROVE  /\ CurrentPosition(d).casa_avg \in Int \cup {NULL}
         /\ {h.product : h \in {x \in d.held : x.active}} \in SUBSET Products
<1>1. d.casa = <<>> => CurrentPosition(d).casa_avg = NULL
  BY DEF CurrentPosition
<1>2. ASSUME d.casa # <<>>
      PROVE  CurrentPosition(d).casa_avg \in Int
  <2>. DEFINE n == Len(d.casa)
  <2>1. n \in Nat /\ n > 0 /\ \A i \in 1..n : d.casa[i] \in Int
    BY <1>2, ProfileOf
  <2>2. Total(n, d.casa) \in Int
    <3>. HIDE DEF n
    <3>. QED
      BY <2>1, TotalIsANumber
  <2>3. Total(n, d.casa) \div n \in Int
    BY <2>1, <2>2
  <2>4. CurrentPosition(d).casa_avg = Total(n, d.casa) \div n
    BY <1>2 DEF CurrentPosition
  <2>. QED
    BY <2>3, <2>4
<1>3. {h.product : h \in {x \in d.held : x.active}} \in SUBSET Products
  BY ProfileAssumption
<1>. QED
  BY <1>1, <1>2, <1>3

(* A package of the evaluation blocked by R4 is of a product that is held.  *)
LEMMA TakenIsHeld ==
  ASSUME NEW row, NEW d, NEW cur, NEW rel, NEW kpiOf,
         NEW p, p = EvaluatePackage(row, d, cur, rel, kpiOf), "R4" \in p.blocked_by
  PROVE  \E h \in rel.held_products : h.product = p.product
<1>. DEFINE applied  == {code \in RuleCodes : Applies(code, row, d, kpiOf)}
            criteria == [code \in applied |-> Passed(code, row, cur, rel, kpiOf)]
<1>1. /\ p.product = row.product
      /\ p.blocked_by = {code \in applied \ NonBlocking : ~criteria[code]}
  BY DEF EvaluatePackage
<1>2. "R4" \in applied /\ ~criteria["R4"]
  BY <1>1
<1>3. criteria["R4"] = Passed("R4", row, cur, rel, kpiOf)
  BY <1>2
<1>4. ~Passed("R4", row, cur, rel, kpiOf)
  BY <1>2, <1>3
<1>5. Passed("R4", row, cur, rel, kpiOf) = ~Holds(rel, row.product, row.tier)
  BY DEF Passed
<1>. QED
  BY <1>1, <1>4, <1>5 DEF Holds

LEMMA EvaluatedPackages ==
  ASSUME NEW d, NEW cur, NEW rel, NEW kpiOf, NEW p \in Values(Evaluate(d, cur, rel, kpiOf))
  PROVE  \E i \in DOMAIN Catalog : p = EvaluatePackage(Catalog[i], d, cur, rel, kpiOf)
<1>. DEFINE n == Len(Catalog)
            ps == [i \in DOMAIN Catalog |-> EvaluatePackage(Catalog[i], d, cur, rel, kpiOf)]
<1>1. n \in Nat /\ DOMAIN Catalog = 1..n
  BY CatalogAssumption
<1>2. DOMAIN ps = 1..n /\ \A i \in 1..n : ps[i] = EvaluatePackage(Catalog[i], d, cur, rel, kpiOf)
  BY <1>1
<1>3. Evaluate(d, cur, rel, kpiOf) = Ranked(ps)
  BY DEF Evaluate
<1>. HIDE DEF ps, n
<1>4. \A i \in 1..n : Judged(ps[i])
  BY <1>2, PackageIsJudged
<1>5. /\ DOMAIN Ranked(ps) = 1..n
      /\ \A k \in 1..n : \E i \in 1..n : Ranked(ps)[k] = ps[i]
  <2>1. n \in Nat /\ DOMAIN ps = 1..n
    BY <1>1, <1>2
  <2>. QED
    BY ONLY <2>1, <1>4, RankedAreThePackages
<1>6. PICK k \in 1..n : p = Ranked(ps)[k]
  BY <1>3, <1>5 DEF Values
<1>. QED
  BY <1>1, <1>2, <1>5, <1>6

-----------------------------------------------------------------------------
(* Rejections.                                                             *)

Statuses == {i.status : i \in FeedbackInputs}
RecTyped(r) ==
  /\ r.rank1 \in Products
  /\ r.snapshot.casa_avg \in Int \cup {NULL}
  /\ r.snapshot.product_flags \in SUBSET Products

RecsTyped ==
  /\ DOMAIN recs = Customers
  /\ \A c \in Customers : /\ \E S : recs[c] \in Seq(S)
                          /\ \A v \in DOMAIN recs[c] : RecTyped(recs[c][v])

JobTyped(u) ==
  /\ job[u] # Idle => job[u].op \in {"assessment", "feedback", "note", "assign"}
  /\ job[u].op \in {"assessment", "feedback", "note"} => job[u].customer \in Customers
  /\ job[u].op = "feedback" => /\ job[u].version \in 1..MaxVersions
                               /\ job[u].product \in Products
                               /\ job[u].status \in Statuses

(* The trigger: a rejection suppresses its product, for 90 days.           *)
RejectionsSuppress ==
  \A i \in DOMAIN feedback : feedback[i].status = "rejected" =>
    \E s \in suppressions : /\ s.customer = feedback[i].customer
                            /\ s.product = feedback[i].product
                            /\ s.until = feedback[i].day + SUPPRESSION_DAYS

(* What an assessment has read of the suppressions is all that was there    *)
(* when it was asked for and has not expired since.                        *)
Suppressed(customer, asked, products) ==
  \A i \in 1..asked :
    /\ feedback[i].customer = customer /\ feedback[i].status = "rejected"
    /\ feedback[i].day + SUPPRESSION_DAYS >= today
    => feedback[i].product \in products

AssessmentFields == {"op", "step", "customer", "asked", "relationship", "packages"}
AssessmentKnows(u) ==
  job[u].op = "assessment" =>
    /\ job[u].asked \in Nat /\ job[u].asked <= Len(feedback)
    /\ job[u].step # "allowed" =>
         /\ AssessmentFields \subseteq DOMAIN job[u]
         /\ Suppressed(job[u].customer, job[u].asked, job[u].relationship.suppressed)
    /\ job[u].step = "scored" =>
         Clean(job[u].packages, job[u].relationship.suppressed)

DeskInv ==
  /\ limit \in Limits /\ NbaTypeOK /\ RecsTyped /\ RejectionsSuppress
  /\ \A u \in Users : JobTyped(u) /\ AssessmentKnows(u)

(* A step that leaves feedback and suppressions alone and gives at most one *)
(* request a new state.                                                    *)
LEMMA FeedbackStays ==
  ASSUME Inv, DeskInv, Inv', UNCHANGED <<limit, feedback, suppressions>>,
         today' \in 0..limit.day, today <= today',
         data' \in [Customers -> Profiles], writes' \in 0..limit.writes, RecsTyped',
         \/ UNCHANGED job
         \/ \E u \in Users : /\ \E j : job' = [job EXCEPT ![u] = j]
                             /\ JobTyped(u)' /\ AssessmentKnows(u)'
  PROVE  DeskInv'
<1>1. today \in Int /\ today' \in Int
  BY LimitAssumption DEF DeskInv, NbaTypeOK
<1>2. ASSUME NEW i \in DOMAIN feedback
      PROVE  feedback[i].day \in Int
  BY <1>2, LimitAssumption DEF DeskInv, NbaTypeOK
<1>3. Len(feedback) \in Nat /\ DOMAIN feedback = 1..Len(feedback)
  BY LenProperties DEF Inv, FeedbackKnows
<1>4. ASSUME NEW customer, NEW asked \in Nat, asked <= Len(feedback), NEW products,
             Suppressed(customer, asked, products)
      PROVE  Suppressed(customer, asked, products)'
  <2>. SUFFICES ASSUME NEW i \in 1..asked,
                       feedback[i].customer = customer, feedback[i].status = "rejected",
                       feedback[i].day + SUPPRESSION_DAYS >= today'
                PROVE  feedback[i].product \in products
    BY DEF Suppressed
  <2>1. i \in DOMAIN feedback
    BY <1>3, <1>4
  <2>2. feedback[i].day + SUPPRESSION_DAYS >= today
    BY <1>1, <1>2, <2>1 DEF SUPPRESSION_DAYS
  <2>. QED
    BY <1>4, <2>2 DEF Suppressed
<1>5. ASSUME NEW w \in Users, job'[w] = job[w]
      PROVE  JobTyped(w)' /\ AssessmentKnows(w)'
  <2>1. JobTyped(w)'
    BY <1>5 DEF DeskInv, JobTyped, Idle
  <2>2. AssessmentKnows(w)'
    BY <1>4, <1>5 DEF DeskInv, AssessmentKnows
  <2>. QED
    BY <2>1, <2>2
<1>6. \A w \in Users : JobTyped(w)' /\ AssessmentKnows(w)'
  <2>1. CASE UNCHANGED job
    BY <1>5, <2>1
  <2>2. ASSUME NEW u \in Users, \E j : job' = [job EXCEPT ![u] = j],
               JobTyped(u)', AssessmentKnows(u)'
        PROVE  \A w \in Users : JobTyped(w)' /\ AssessmentKnows(w)'
    <3>1. \A w \in Users : w = u \/ job'[w] = job[w]
      BY <2>2
    <3>. QED
      BY <1>5, <2>2, <3>1
  <2>. QED
    BY <2>1, <2>2
<1>7. RejectionsSuppress'
  BY DEF DeskInv, RejectionsSuppress
<1>8. NbaTypeOK'
  <2>1. \A d \in Dates, c \in Customers : OnList(d, c)' => callLists'[d][c] \in [sale : Users, created_by : Users]
    BY DEF Inv, ListTypes, ListRow, OnList
  <2>2. \A u \in Users : job'[u] # Idle =>
           job'[u].op \in {"customer", "assessment", "notes", "trace", "feedback", "note", "assign"}
    BY <1>6 DEF JobTyped, Idle
  <2>. QED
    BY <2>1, <2>2 DEF DeskInv, NbaTypeOK, Idle
<1>. QED
  BY <1>6, <1>7, <1>8 DEF DeskInv

LEMMA SuppressedNow ==
  ASSUME NEW c, NEW s \in suppressions, s.customer = c, s.until >= today
  PROVE  s.product \in RelationshipNow(c).suppressed
<1>. DEFINE kept == {x \in {y \in suppressions : y.customer = c} : StillSuppressed(x, today)}
<1>1. RelationshipNow(c).suppressed = {x.product : x \in kept}
  BY DEF RelationshipNow, Relationship
<1>2. s \in kept
  BY DEF StillSuppressed
<1>. QED
  BY <1>1, <1>2

(* The five reads of an assessment.                                        *)
LEMMA ReadsSuppressions ==
  ASSUME Inv, DeskInv, NEW u \in Users, ReadPosition(u)
  PROVE  JobTyped(u)' /\ AssessmentKnows(u)'
<1>. DEFINE c == job[u].customer
            d == data[c]
            asOf == HalfMonth(today)
            j == [op |-> "assessment", step |-> "read", customer |-> c,
                  asked |-> job[u].asked, month |-> Month(today),
                  current |-> CurrentPosition(d), relationship |-> RelationshipNow(c),
                  window_3m |-> Window(d, asOf, 3), window_6m |-> Window(d, asOf, 6),
                  trend |-> Trend(d, asOf), packages |-> NULL]
<1>1. /\ job' = [job EXCEPT ![u] = j] /\ UNCHANGED <<feedback, today, suppressions>>
      /\ job[u].op = "assessment"
  BY DEF ReadPosition, Start, Serving, tables
<1>2. /\ j.op = "assessment" /\ j.step = "read" /\ j.customer = job[u].customer
      /\ j.asked = job[u].asked /\ j.relationship = RelationshipNow(job[u].customer)
      /\ AssessmentFields \subseteq DOMAIN j
  BY DEF AssessmentFields
<1>. HIDE DEF j, c, d, asOf
<1>3. job'[u] = j
  BY <1>1 DEF Inv
<1>4. job[u].asked \in Nat /\ job[u].asked <= Len(feedback) /\ job[u].customer \in Customers
  BY <1>1 DEF DeskInv, JobTyped, AssessmentKnows
<1>5. Suppressed(job[u].customer, job[u].asked, RelationshipNow(job[u].customer).suppressed)
  <2>. SUFFICES ASSUME NEW i \in 1..job[u].asked,
                       feedback[i].customer = job[u].customer, feedback[i].status = "rejected",
                       feedback[i].day + SUPPRESSION_DAYS >= today
                PROVE  feedback[i].product \in RelationshipNow(job[u].customer).suppressed
    BY DEF Suppressed
  <2>1. Len(feedback) \in Nat /\ DOMAIN feedback = 1..Len(feedback)
    BY LenProperties DEF Inv, FeedbackKnows
  <2>2. i \in DOMAIN feedback
    BY <1>4, <2>1
  <2>3. PICK s \in suppressions : /\ s.customer = feedback[i].customer
                                  /\ s.product = feedback[i].product
                                  /\ s.until = feedback[i].day + SUPPRESSION_DAYS
    BY <2>2 DEF DeskInv, RejectionsSuppress
  <2>. QED
    BY <2>3, SuppressedNow
<1>6. JobTyped(u)'
  BY <1>2, <1>3, <1>4 DEF JobTyped, Idle
<1>7. AssessmentKnows(u)'
  BY <1>1, <1>2, <1>3, <1>4, <1>5 DEF AssessmentKnows, Suppressed
<1>. QED
  BY <1>6, <1>7

(* The evaluation of what was read.                                        *)
LEMMA ScoresPackages ==
  ASSUME Inv, DeskInv, NEW u \in Users, ScorePackages(u)
  PROVE  JobTyped(u)' /\ AssessmentKnows(u)'
<1>. DEFINE ps == Evaluate(data[job[u].customer], job[u].current, job[u].relationship,
                           KpiOf(job[u].month))
            j == [job[u] EXCEPT !.step = "scored", !.packages = ps]
<1>1. /\ job' = [job EXCEPT ![u] = j] /\ UNCHANGED <<feedback, today, suppressions>>
      /\ job[u].op = "assessment" /\ job[u].step = "read"
  BY DEF ScorePackages, Start, Serving, tables
<1>2. Clean(ps, job[u].relationship.suppressed)
  BY EvaluationIsClean
<1>. HIDE DEF ps
<1>3. AssessmentFields \subseteq DOMAIN job[u]
  BY <1>1 DEF DeskInv, AssessmentKnows
<1>4. /\ j.op = job[u].op /\ j.step = "scored" /\ j.packages = ps
      /\ j.customer = job[u].customer /\ j.asked = job[u].asked
      /\ j.relationship = job[u].relationship /\ DOMAIN j = DOMAIN job[u]
  BY <1>3 DEF AssessmentFields
<1>. HIDE DEF j
<1>5. job'[u] = j
  BY <1>1 DEF Inv
<1>6. JobTyped(u)'
  BY <1>1, <1>4, <1>5 DEF DeskInv, JobTyped, Idle
<1>7. AssessmentKnows(u)'
  BY <1>1, <1>2, <1>3, <1>4, <1>5 DEF DeskInv, AssessmentKnows, Suppressed
<1>. QED
  BY <1>6, <1>7

LEMMA InitDesk == Init => DeskInv
<1>. SUFFICES ASSUME Init
              PROVE  DeskInv
  OBVIOUS
<1>1. \A s : <<>>  \in Seq(s) /\ DOMAIN <<>> = {}
  BY EmptySeq
<1>2. limit \in Limits /\ limit.day \in Nat /\ limit.writes \in Nat
  BY LimitAssumption DEF Init
<1>3. RecsTyped
  BY <1>1 DEF Init, RecsTyped
<1>4. DOMAIN feedback = {} /\ suppressions = {}
  BY <1>1 DEF Init
<1>5. NbaTypeOK
  BY <1>2, <1>4, DataAssumption DEF Init, NbaTypeOK, OnList
<1>6. \A u \in Users : JobTyped(u) /\ AssessmentKnows(u)
  BY DEF Init, JobTyped, AssessmentKnows, Idle
<1>. QED
  BY <1>2, <1>3, <1>4, <1>5, <1>6 DEF DeskInv, RejectionsSuppress

(* What a step leaves as it is.                                            *)
LEMMA Unchanged ==
  ASSUME DeskInv
  PROVE  /\ today \in 0..limit.day /\ today <= today /\ data \in [Customers -> Profiles]
         /\ writes \in 0..limit.writes /\ limit.day \in Nat /\ limit.writes \in Nat
  BY LimitAssumption DEF DeskInv, NbaTypeOK

LEMMA EnvironmentKeeps ==
  ASSUME Inv, DeskInv, Inv',
         DayPasses \/ \E c \in Customers : BankDataChanges(c) \/ BatchRecommends(c)
  PROVE  DeskInv'
<1>1. /\ today \in 0..limit.day /\ today <= today /\ data \in [Customers -> Profiles]
      /\ writes \in 0..limit.writes /\ limit.day \in Nat
  BY Unchanged
<1>2. CASE DayPasses
  <2>1. /\ today' \in 0..limit.day /\ today <= today'
        /\ UNCHANGED <<limit, feedback, suppressions, data, writes, recs, job>>
    <3>1. PICK n \in DayJumps : today + n <= limit.day /\ today' = today + n
      BY <1>2 DEF DayPasses
    <3>2. UNCHANGED <<limit, feedback, suppressions, data, writes, recs, job>>
      BY <1>2 DEF DayPasses, tables, history
    <3>. QED
      BY <1>1, <3>1, <3>2, ClockAssumption
  <2>2. RecsTyped'
    BY <2>1 DEF DeskInv, RecsTyped
  <2>. QED
    BY <1>1, <2>1, <2>2, FeedbackStays
<1>3. ASSUME NEW c \in Customers, BankDataChanges(c)
      PROVE  DeskInv'
  <2>1. /\ UNCHANGED <<limit, feedback, suppressions, today, writes, recs, job>>
        /\ data' \in [Customers -> Profiles]
    BY <1>1, <1>3 DEF BankDataChanges, history
  <2>2. RecsTyped'
    BY <2>1 DEF DeskInv, RecsTyped
  <2>. QED
    BY <1>1, <2>1, <2>2, FeedbackStays
<1>4. ASSUME NEW c \in Customers, BatchRecommends(c)
      PROVE  DeskInv'
  <2>1. UNCHANGED <<limit, feedback, suppressions, today, writes, data, job>>
    BY <1>4 DEF BatchRecommends, history
  <2>. DEFINE ps == Evaluate(data[c], CurrentPosition(data[c]), RelationshipNow(c), KpiOf(Month(today)))
  <2>. DEFINE cur == CurrentPosition(data[c])
              flags == {h.product : h \in {x \in data[c].held : x.active}}
  <2>2. PICK r : /\ \E p \in Values(ps) : r.rank1 = p.product
                 /\ r.snapshot.casa_avg = cur.casa_avg /\ r.snapshot.product_flags = flags
                 /\ recs' = [recs EXCEPT ![c] = Append(@, r)]
    <3>1. PICK p \in Values(ps) :
             recs' = [recs EXCEPT ![c] = Append(@,
                 [rank1 |-> p.product,
                  rules_applied |-> UNION {q.blocked_by : q \in Values(ps)},
                  snapshot |-> [casa_avg |-> CurrentPosition(data[c]).casa_avg,
                                total_debt |-> CurrentPosition(data[c]).total_debt,
                                product_flags |-> {h.product : h \in
                                                    {x \in data[c].held : x.active}}],
                  verdict |-> ps])]
      BY <1>4 DEF BatchRecommends
    <3>. DEFINE r == [rank1 |-> p.product,
                  rules_applied |-> UNION {q.blocked_by : q \in Values(ps)},
                  snapshot |-> [casa_avg |-> CurrentPosition(data[c]).casa_avg,
                                total_debt |-> CurrentPosition(data[c]).total_debt,
                                product_flags |-> {h.product : h \in
                                                    {x \in data[c].held : x.active}}],
                  verdict |-> ps]
    <3>2. r.rank1 = p.product /\ recs' = [recs EXCEPT ![c] = Append(@, r)]
      BY <3>1
    <3>3. r.snapshot.casa_avg = cur.casa_avg /\ r.snapshot.product_flags = flags
      OBVIOUS
    <3>. HIDE DEF r, ps, cur, flags
    <3>. QED
      BY <3>2, <3>3
  <2>3. RecTyped(r)
    <3>1. Clean(ps, RelationshipNow(c).suppressed)
      BY EvaluationIsClean
    <3>2. PICK p \in Values(ps) : r.rank1 = p.product
      BY <2>2
    <3>3. r.rank1 \in Products
      <4>. HIDE DEF ps
      <4>. QED
        BY <3>1, <3>2, CleanPackages
    <3>4. cur.casa_avg \in Int \cup {NULL} /\ flags \in SUBSET Products
      <4>1. data[c] \in Profiles
        BY <1>1
      <4>. QED
        BY <4>1, SnapshotOf
    <3>. HIDE DEF ps, cur, flags
    <3>. QED
      BY <2>2, <3>3, <3>4 DEF RecTyped
  <2>. HIDE DEF ps, cur, flags
  <2>4. RecsTyped'
    <3>1. DOMAIN recs = Customers /\ DOMAIN recs' = Customers /\ recs'[c] = Append(recs[c], r)
          /\ \A d \in Customers : d # c => recs'[d] = recs[d]
      BY <2>2 DEF DeskInv, RecsTyped
    <3>2. PICK S : recs[c] \in Seq(S)
      BY DEF DeskInv, RecsTyped
    <3>3. recs[c] \in Seq(S \cup {r})
      BY <3>2, SeqMonotonic
    <3>4. /\ recs'[c] \in Seq(S \cup {r}) /\ Len(recs[c]) \in Nat
          /\ DOMAIN recs'[c] = 1..(Len(recs[c]) + 1) /\ DOMAIN recs[c] = 1..Len(recs[c])
          /\ \A i \in 1..Len(recs[c]) : recs'[c][i] = recs[c][i]
          /\ recs'[c][Len(recs[c]) + 1] = r
      BY <3>1, <3>3, AppendProperties, LenProperties
    <3>5. ASSUME NEW v \in DOMAIN recs'[c]
          PROVE  RecTyped(recs'[c][v])
      <4>1. CASE v \in 1..Len(recs[c])
        BY <3>4, <4>1 DEF DeskInv, RecsTyped
      <4>2. CASE v = Len(recs[c]) + 1
        BY <2>3, <3>4, <4>2
      <4>. QED
        BY <3>4, <4>1, <4>2
    <3>6. \A d \in Customers : d # c =>
             /\ \E T : recs'[d] \in Seq(T)
             /\ \A v \in DOMAIN recs'[d] : RecTyped(recs'[d][v])
      BY <3>1 DEF DeskInv, RecsTyped
    <3>. QED
      BY <3>1, <3>4, <3>5, <3>6 DEF RecsTyped
  <2>. QED
    BY <1>1, <2>1, <2>4, FeedbackStays
<1>. QED
  BY <1>2, <1>3, <1>4

(* What only reads or writes lists, notes and settings, and what ends.      *)
LEMMA RequestsKeep ==
  ASSUME Inv, DeskInv, Inv', NEW u \in Users,
         \/ ListCustomers(u) \/ SaveCallNote(u) \/ FinishAssessment(u) \/ RequestFails(u)
         \/ AssignRow(u) \/ AssignDone(u) \/ ReadPosition(u) \/ ScorePackages(u)
         \/ \E d \in Dates : GetCallList(u, d)
         \/ \E c \in Customers : \/ GetCustomer(u, c) \/ GetCallNotes(u, c)
                                 \/ AskAssessment(u, c) \/ AskNote(u, c)
                                 \/ \E v \in 1..MaxVersions : AuditRecommendation(u, c, v)
         \/ \E a \in Assignments : AskAssign(u, a)
         \/ \E k \in KpiInputs : SetKpi(u, k)
  PROVE  DeskInv'
<1>1. /\ today \in 0..limit.day /\ today <= today /\ data \in [Customers -> Profiles]
      /\ writes \in 0..limit.writes /\ limit.writes \in Nat
  BY Unchanged
<1>2. UNCHANGED <<limit, feedback, suppressions, today, data, recs>>
  BY DEF ListCustomers, SaveCallNote, FinishAssessment, RequestFails, AssignRow, AssignDone,
         ReadPosition, ScorePackages, GetCallList, GetCustomer, GetCallNotes, AskAssessment,
         AskNote, AuditRecommendation, AskAssign, SetKpi, tables
<1>3. writes' \in 0..limit.writes
  <2>1. CASE AssignRow(u)
    <3>1. writes < limit.writes /\ writes' = writes + 1
      BY <2>1 DEF AssignRow
    <3>. QED
      BY <1>1, <3>1
  <2>2. CASE writes' = writes
    BY <1>1, <2>2
  <2>. QED
    BY <2>1, <2>2 DEF ListCustomers, SaveCallNote, FinishAssessment, RequestFails, AssignDone,
         ReadPosition, ScorePackages, GetCallList, GetCustomer, GetCallNotes, AskAssessment,
         AskNote, AuditRecommendation, AskAssign, SetKpi, history
<1>4. RecsTyped'
  BY <1>2 DEF DeskInv, RecsTyped
<1>5. \/ UNCHANGED job
      \/ (\E j : job' = [job EXCEPT ![u] = j]) /\ JobTyped(u)' /\ AssessmentKnows(u)'
  <2>1. CASE \/ ListCustomers(u) \/ \E d \in Dates : GetCallList(u, d)
             \/ \E c \in Customers : \/ GetCustomer(u, c) \/ GetCallNotes(u, c)
                                     \/ \E v \in 1..MaxVersions : AuditRecommendation(u, c, v)
             \/ \E k \in KpiInputs : SetKpi(u, k)
    BY <2>1 DEF ListCustomers, GetCallList, GetCustomer, GetCallNotes, AuditRecommendation, SetKpi
  <2>2. CASE SaveCallNote(u) \/ FinishAssessment(u) \/ RequestFails(u) \/ AssignDone(u)
    <3>1. job' = [job EXCEPT ![u] = Idle]
      BY <2>2 DEF SaveCallNote, FinishAssessment, RequestFails, AssignDone, Done
    <3>2. job'[u] = Idle
      BY <3>1 DEF Inv
    <3>3. JobTyped(u)' /\ AssessmentKnows(u)'
      BY <3>2 DEF JobTyped, AssessmentKnows, Idle
    <3>. QED
      BY <3>1, <3>3
  <2>3. CASE AssignRow(u)
    <3>1. /\ job' = [job EXCEPT ![u] = [job[u] EXCEPT !.next = @ + 1]] /\ job[u].op = "assign"
      BY <2>3 DEF AssignRow, Start, Serving
    <3>2. job'[u].op = "assign"
      BY <3>1 DEF Inv, Knows, Assigning
    <3>. QED
      BY <3>1, <3>2 DEF JobTyped, AssessmentKnows, Idle
  <2>4. CASE ReadPosition(u)
    BY <2>4, ReadsSuppressions DEF ReadPosition, Start
  <2>5. CASE ScorePackages(u)
    BY <2>5, ScoresPackages DEF ScorePackages, Start
  <2>6. ASSUME NEW c \in Customers, AskAssessment(u, c)
        PROVE  (\E j : job' = [job EXCEPT ![u] = j]) /\ JobTyped(u)' /\ AssessmentKnows(u)'
    <3>. DEFINE j == [op |-> "assessment", step |-> "allowed", customer |-> c,
                      asked |-> Len(feedback)]
    <3>1. job' = [job EXCEPT ![u] = j]
      BY <2>6 DEF AskAssessment, Start
    <3>2. /\ j.op = "assessment" /\ j.step = "allowed" /\ j.customer = c
          /\ j.asked = Len(feedback)
      OBVIOUS
    <3>. HIDE DEF j
    <3>3. job'[u] = j
      BY <3>1 DEF Inv
    <3>4. Len(feedback) \in Nat /\ Len(feedback) <= Len(feedback)
      BY LenProperties DEF Inv, FeedbackKnows
    <3>5. JobTyped(u)'
      BY <3>2, <3>3 DEF JobTyped, Idle
    <3>6. AssessmentKnows(u)'
      BY <1>2, <3>2, <3>3, <3>4 DEF AssessmentKnows
    <3>. QED
      BY <3>1, <3>5, <3>6
  <2>7. ASSUME NEW c \in Customers, AskNote(u, c)
        PROVE  (\E j : job' = [job EXCEPT ![u] = j]) /\ JobTyped(u)' /\ AssessmentKnows(u)'
    <3>. DEFINE j == [op |-> "note", step |-> "allowed", customer |-> c]
    <3>1. job' = [job EXCEPT ![u] = j] /\ j.op = "note" /\ j.customer = c
      BY <2>7 DEF AskNote, Start
    <3>. HIDE DEF j
    <3>2. job'[u] = j
      BY <3>1 DEF Inv
    <3>. QED
      BY <3>1, <3>2 DEF JobTyped, AssessmentKnows, Idle
  <2>8. ASSUME NEW a \in Assignments, AskAssign(u, a)
        PROVE  (\E j : job' = [job EXCEPT ![u] = j]) /\ JobTyped(u)' /\ AssessmentKnows(u)'
    <3>. DEFINE j == [op |-> "assign", step |-> "rows", request |-> a, next |-> 1, since |-> writes]
    <3>1. job' = [job EXCEPT ![u] = j] /\ j.op = "assign"
      BY <2>8 DEF AskAssign, Start
    <3>. HIDE DEF j
    <3>2. job'[u] = j
      BY <3>1 DEF Inv
    <3>. QED
      BY <3>1, <3>2 DEF JobTyped, AssessmentKnows, Idle
  <2>. QED
    BY <2>1, <2>2, <2>3, <2>4, <2>5, <2>6, <2>7, <2>8
<1>. QED
  BY <1>1, <1>2, <1>3, <1>4, <1>5, FeedbackStays

LEMMA AsksFeedbackKeeps ==
  ASSUME Inv, DeskInv, Inv', NEW u \in Users, NEW c \in Customers, NEW v \in 1..MaxVersions,
         NEW input \in FeedbackInputs, AskFeedback(u, c, v, input)
  PROVE  DeskInv'
<1>. DEFINE j == [op |-> "feedback", step |-> "allowed", customer |-> c, version |-> v,
                  status |-> input.status, product |-> ProductOf(c, v, input)]
<1>1. /\ today \in 0..limit.day /\ today <= today /\ data \in [Customers -> Profiles]
      /\ writes \in 0..limit.writes
  BY Unchanged
<1>2. /\ UNCHANGED <<limit, feedback, suppressions, today, data, recs, writes>>
      /\ v \in DOMAIN recs[c]
  BY DEF AskFeedback, tables, history
<1>3. ProductOf(c, v, input) \in Products
  BY <1>2, InputAssumption DEF ProductOf, DeskInv, RecsTyped, RecTyped
<1>4. /\ job' = [job EXCEPT ![u] = j] /\ j.op = "feedback" /\ j.customer = c /\ j.version = v
      /\ j.status = input.status /\ j.product = ProductOf(c, v, input)
  BY DEF AskFeedback, Start
<1>. HIDE DEF j
<1>5. job'[u] = j
  BY <1>4 DEF Inv
<1>6. JobTyped(u)'
  BY <1>3, <1>4, <1>5 DEF JobTyped, Statuses
<1>7. AssessmentKnows(u)'
  BY <1>4, <1>5 DEF AssessmentKnows
<1>8. RecsTyped'
  BY <1>2 DEF DeskInv, RecsTyped
<1>. QED
  BY <1>1, <1>2, <1>4, <1>6, <1>7, <1>8, FeedbackStays

(* The INSERT of a feedback and its trigger.                               *)
LEMMA SubmitsFeedbackKeeps ==
  ASSUME Inv, DeskInv, Inv', NEW u \in Users, SubmitFeedback(u)
  PROVE  DeskInv'
<1>. DEFINE j == job[u]
            row == [customer |-> j.customer, version |-> j.version, sale |-> u,
                    product |-> j.product, status |-> j.status, day |-> today]
            new == [customer |-> j.customer, product |-> j.product,
                    until |-> today + SUPPRESSION_DAYS, from |-> Len(feedback) + 1]
            n == Len(feedback)
<1>1. /\ today \in 0..limit.day /\ data \in [Customers -> Profiles]
      /\ writes \in 0..limit.writes /\ limit.day \in Nat
  BY Unchanged
<1>2. /\ UNCHANGED <<limit, today, data, recs, writes>> /\ job' = [job EXCEPT ![u] = Idle]
      /\ feedback' = Append(feedback, row) /\ job[u].op = "feedback"
  BY DEF SubmitFeedback, history, Done, Serving
<1>3. suppressions' = suppressions \cup IF j.status = "rejected" THEN {new} ELSE {}
  BY DEF SubmitFeedback
<1>4. /\ j.customer \in Customers /\ j.version \in 1..MaxVersions /\ j.product \in Products
      /\ j.status \in Statuses
  BY <1>2 DEF DeskInv, JobTyped
<1>5. /\ row.customer = j.customer /\ row.product = j.product /\ row.status = j.status
      /\ row.day = today
      /\ row \in [customer : Customers, version : 1..MaxVersions, sale : Users,
                  product : Products, status : Statuses, day : 0..limit.day]
  BY <1>1, <1>4
<1>6. /\ new.customer = j.customer /\ new.product = j.product
      /\ new.until = today + SUPPRESSION_DAYS
  OBVIOUS
<1>. HIDE DEF row, new, j
<1>7. /\ n \in Nat /\ DOMAIN feedback = 1..n /\ DOMAIN feedback' = 1..(n + 1)
      /\ Len(feedback') = n + 1
      /\ \A i \in 1..n : feedback'[i] = feedback[i]
      /\ feedback'[n + 1] = row
  <2>1. PICK S : feedback \in Seq(S)
    BY DEF Inv, FeedbackKnows
  <2>2. feedback \in Seq(S \cup {row})
    BY <2>1, SeqMonotonic
  <2>. QED
    BY <1>2, <2>2, AppendProperties, LenProperties
<1>. HIDE DEF n
<1>8. \A i \in DOMAIN feedback' : i \in 1..n \/ i = n + 1
  BY <1>7
<1>9. RejectionsSuppress'
  <2>. SUFFICES ASSUME NEW i \in DOMAIN feedback', feedback'[i].status = "rejected"
                PROVE  \E s \in suppressions' : /\ s.customer = feedback'[i].customer
                                                /\ s.product = feedback'[i].product
                                                /\ s.until = feedback'[i].day + SUPPRESSION_DAYS
    BY DEF RejectionsSuppress
  <2>1. CASE i \in 1..n
    BY <1>3, <1>7, <2>1 DEF DeskInv, RejectionsSuppress
  <2>2. CASE i = n + 1
    BY <1>3, <1>5, <1>6, <1>7, <2>2
  <2>. QED
    BY <1>8, <2>1, <2>2
<1>10. NbaTypeOK'
  <2>1. \A i \in DOMAIN feedback' :
          feedback'[i] \in [customer : Customers, version : 1..MaxVersions, sale : Users,
                            product : Products, status : {i2.status : i2 \in FeedbackInputs},
                            day : 0..limit.day]
    <3>1. ASSUME NEW i \in 1..n
          PROVE  feedback[i] \in [customer : Customers, version : 1..MaxVersions, sale : Users,
                            product : Products, status : {i2.status : i2 \in FeedbackInputs},
                            day : 0..limit.day]
      BY <1>7 DEF DeskInv, NbaTypeOK
    <3>. QED
      BY <1>5, <1>7, <1>8, <3>1 DEF Statuses
  <2>2. \A s \in suppressions' : s.customer \in Customers /\ s.product \in Products
    BY <1>3, <1>4, <1>6 DEF DeskInv, NbaTypeOK
  <2>3. \A d \in Dates, c \in Customers :
           OnList(d, c)' => callLists'[d][c] \in [sale : Users, created_by : Users]
    BY DEF Inv, ListTypes, ListRow, OnList
  <2>4. \A w \in Users : job'[w] # Idle => job'[w] = job[w]
    BY <1>2 DEF Inv
  <2>5. \A w \in Users : job'[w] # Idle =>
           job'[w].op \in {"customer", "assessment", "notes", "trace", "feedback", "note", "assign"}
    BY <2>4 DEF DeskInv, NbaTypeOK
  <2>. QED
    BY <1>1, <1>2, <2>1, <2>2, <2>3, <2>5 DEF NbaTypeOK, Idle
<1>11. RecsTyped'
  BY <1>2 DEF DeskInv, RecsTyped
<1>12. ASSUME NEW w \in Users
       PROVE  JobTyped(w)' /\ AssessmentKnows(w)'
  <2>1. CASE w = u
    <3>1. job'[w] = Idle
      BY <1>2, <2>1 DEF Inv
    <3>. QED
      BY <3>1 DEF JobTyped, AssessmentKnows, Idle
  <2>2. CASE w # u
    <3>1. job'[w] = job[w]
      BY <1>2, <2>2 DEF Inv
    <3>2. JobTyped(w)'
      BY <3>1 DEF DeskInv, JobTyped, Idle
    <3>3. ASSUME NEW customer, NEW asked \in Nat, asked <= n, NEW products,
                 Suppressed(customer, asked, products)
          PROVE  Suppressed(customer, asked, products)'
      BY <1>2, <1>7, <3>3 DEF Suppressed
    <3>4. AssessmentKnows(w)'
      BY <1>7, <3>1, <3>3 DEF DeskInv, AssessmentKnows, n
    <3>. QED
      BY <3>2, <3>4
  <2>. QED
    BY <2>1, <2>2
<1>. QED
  BY <1>2, <1>9, <1>10, <1>11, <1>12 DEF DeskInv

LEMMA StepDesk == Inv /\ Inv' /\ DeskInv /\ [Next]_vars => DeskInv'
<1>. SUFFICES ASSUME Inv, Inv', DeskInv, [Next]_vars
              PROVE  DeskInv'
  OBVIOUS
<1>1. CASE UNCHANGED vars
  <2>1. UNCHANGED <<limit, today, data, recs, feedback, suppressions, callLists, job, writes>>
    BY <1>1 DEF vars, tables, history
  <2>2. RecsTyped'
    BY <2>1 DEF DeskInv, RecsTyped
  <2>. QED
    BY <2>1, <2>2, Unchanged, FeedbackStays
<1>2. CASE DayPasses \/ \E c \in Customers : BankDataChanges(c) \/ BatchRecommends(c)
  BY <1>2, EnvironmentKeeps
<1>3. ASSUME NEW u \in Users,
         \/ ListCustomers(u) \/ SaveCallNote(u) \/ FinishAssessment(u) \/ RequestFails(u)
         \/ AssignRow(u) \/ AssignDone(u) \/ ReadPosition(u) \/ ScorePackages(u)
         \/ \E d \in Dates : GetCallList(u, d)
         \/ \E c \in Customers : \/ GetCustomer(u, c) \/ GetCallNotes(u, c)
                                 \/ AskAssessment(u, c) \/ AskNote(u, c)
                                 \/ \E v \in 1..MaxVersions : AuditRecommendation(u, c, v)
         \/ \E a \in Assignments : AskAssign(u, a)
         \/ \E k \in KpiInputs : SetKpi(u, k)
      PROVE  DeskInv'
  BY <1>3, RequestsKeep
<1>4. ASSUME NEW u \in Users, SubmitFeedback(u)
      PROVE  DeskInv'
  BY <1>4, SubmitsFeedbackKeeps
<1>5. ASSUME NEW u \in Users, NEW c \in Customers, NEW v \in 1..MaxVersions,
             NEW input \in FeedbackInputs, AskFeedback(u, c, v, input)
      PROVE  DeskInv'
  BY <1>5, AsksFeedbackKeeps
<1>. QED
  BY <1>1, <1>2, <1>3, <1>4, <1>5 DEF Next

(* The answer of an assessment is made of what the request knows.           *)
LEMMA AnswerIsClean ==
  ASSUME Inv, DeskInv, RejectedIsNotOffered, [Next]_vars
  PROVE  RejectedIsNotOffered'
<1>1. CASE UNCHANGED vars
  BY <1>1 DEF vars, tables, RejectedIsNotOffered, Answered
<1>2. ASSUME NEW u \in Users, FinishAssessment(u)
      PROVE  RejectedIsNotOffered'
  <2>. DEFINE j == job[u]
              ps == j.packages
  <2>. DEFINE evidence == Evidence(j.current, j.window_3m, j.window_6m, j.trend,
                                   j.relationship, ps)
  <2>1. PICK reply \in Replies :
          /\ answer'.op = "assessment" /\ answer'.customer = j.customer
          /\ answer'.said.asked = j.asked /\ answer'.said.packages = ps
          /\ answer'.said.explanation = Explain(Mode, ps, evidence, reply)
    <3>1. PICK reply \in Replies :
            Answer("assessment", j.customer,
                   [asked |-> j.asked, packages |-> ps,
                    held_back |-> CustomerBlocked(j.relationship),
                    drift |-> DetectDrift(ps, Latest(j.customer)),
                    explanation |-> Explain(Mode, ps, evidence, reply)])
      BY <1>2 DEF FinishAssessment
    <3>2. /\ answer'.op = "assessment" /\ answer'.customer = j.customer
          /\ answer'.said.asked = j.asked /\ answer'.said.packages = ps
          /\ answer'.said.explanation = Explain(Mode, ps, evidence, reply)
      BY <3>1 DEF Answer
    <3>. HIDE DEF evidence, j
    <3>. QED
      BY <3>2
  <2>2. UNCHANGED <<feedback, today>> /\ j.op = "assessment" /\ j.step = "scored"
    BY <1>2 DEF FinishAssessment, tables, Serving
  <2>3. /\ Suppressed(j.customer, j.asked, j.relationship.suppressed)
        /\ Clean(ps, j.relationship.suppressed)
    BY <2>2 DEF DeskInv, AssessmentKnows
  <2>. HIDE DEF j, ps, evidence
  <2>. SUFFICES ASSUME NEW i \in 1..j.asked,
                       feedback[i].customer = j.customer, feedback[i].status = "rejected",
                       feedback[i].day + SUPPRESSION_DAYS >= today
                PROVE  /\ \A p \in Values(ps) : p.product = feedback[i].product => ~p.eligible
                       /\ answer'.said.explanation.narrative # NULL =>
                             answer'.said.explanation.narrative.product # feedback[i].product
    BY <2>1, <2>2 DEF RejectedIsNotOffered
  <2>4. feedback[i].product \in j.relationship.suppressed
    BY <2>3 DEF Suppressed
  <2>5. \A k \in DOMAIN ps : ps[k].eligible => ps[k].product # feedback[i].product
    BY <2>3, <2>4, CleanPackages
  <2>6. \A p \in Values(ps) : p.product = feedback[i].product => ~p.eligible
    BY <2>5 DEF Values
  <2>7. ASSUME answer'.said.explanation.narrative # NULL
        PROVE  answer'.said.explanation.narrative.product # feedback[i].product
    <3>1. Len(Catalog) \in Nat /\ DOMAIN ps = 1..Len(Catalog)
      BY <2>3, CatalogAssumption DEF Clean
    <3>2. PICK k \in DOMAIN ps : /\ ps[k].eligible
                                 /\ answer'.said.explanation.narrative.product = ps[k].product
      BY <2>1, <2>7, <3>1, WordsAreOfAnEligiblePackage
    <3>. QED
      BY <2>5, <3>2
  <2>. QED
    BY <2>6, <2>7
<1>3. ASSUME answer'.op # "assessment"
      PROVE  RejectedIsNotOffered'
  BY <1>3 DEF RejectedIsNotOffered, Answered
<1>4. CASE DayPasses \/ \E c \in Customers : BankDataChanges(c) \/ BatchRecommends(c)
  <2>1. answer' = Idle
    BY <1>4 DEF DayPasses, BankDataChanges, BatchRecommends, Quiet
  <2>. QED
    BY <1>3, <2>1 DEF Idle
<1>5. ASSUME NEW u \in Users,
         \/ ReadPosition(u) \/ ScorePackages(u) \/ RequestFails(u) \/ AssignRow(u)
         \/ \E c \in Customers : \/ AskAssessment(u, c) \/ AskNote(u, c)
                                 \/ \E v \in 1..MaxVersions : \E i \in FeedbackInputs :
                                      AskFeedback(u, c, v, i)
         \/ \E a \in Assignments : AskAssign(u, a)
      PROVE  RejectedIsNotOffered'
  <2>1. answer' = Idle
    BY <1>5 DEF ReadPosition, ScorePackages, RequestFails, AssignRow, AskAssessment, AskNote,
                AskFeedback, AskAssign, Quiet
  <2>. QED
    BY <1>3, <2>1 DEF Idle
<1>6. ASSUME NEW u \in Users,
         \/ ListCustomers(u) \/ SubmitFeedback(u) \/ SaveCallNote(u) \/ AssignDone(u)
         \/ \E d \in Dates : GetCallList(u, d)
         \/ \E c \in Customers : \/ GetCustomer(u, c) \/ GetCallNotes(u, c)
                                 \/ \E v \in 1..MaxVersions : AuditRecommendation(u, c, v)
         \/ \E k \in KpiInputs : SetKpi(u, k)
      PROVE  RejectedIsNotOffered'
  <2>1. CASE ListCustomers(u)
    BY <1>3, <2>1 DEF ListCustomers, Answer
  <2>2. CASE SubmitFeedback(u)
    BY <1>3, <2>2 DEF SubmitFeedback, Answer
  <2>3. CASE SaveCallNote(u)
    BY <1>3, <2>3 DEF SaveCallNote, Tell, Answer
  <2>4. CASE AssignDone(u)
    BY <1>3, <2>4 DEF AssignDone, Answer
  <2>5. ASSUME NEW d \in Dates, GetCallList(u, d)
        PROVE  RejectedIsNotOffered'
    BY <1>3, <2>5 DEF GetCallList, Answer
  <2>6. ASSUME NEW c \in Customers, GetCustomer(u, c)
        PROVE  RejectedIsNotOffered'
    BY <1>3, <2>6 DEF GetCustomer, Answer
  <2>7. ASSUME NEW c \in Customers, GetCallNotes(u, c)
        PROVE  RejectedIsNotOffered'
    BY <1>3, <2>7 DEF GetCallNotes, Answer
  <2>8. ASSUME NEW c \in Customers, NEW v \in 1..MaxVersions, AuditRecommendation(u, c, v)
        PROVE  RejectedIsNotOffered'
    BY <1>3, <2>8 DEF AuditRecommendation, Answer
  <2>9. ASSUME NEW k \in KpiInputs, SetKpi(u, k)
        PROVE  RejectedIsNotOffered'
    BY <1>3, <2>9 DEF SetKpi, Tell, Answer
  <2>. QED
    BY <1>6, <2>1, <2>2, <2>3, <2>4, <2>5, <2>6, <2>7, <2>8, <2>9
<1>. QED
  BY <1>1, <1>2, <1>4, <1>5, <1>6 DEF Next

LEMMA DeskInvariance == Spec => [](DeskInv /\ RejectedIsNotOffered)
<1>1. Init => DeskInv /\ RejectedIsNotOffered
  BY InitDesk DEF Init, Idle, RejectedIsNotOffered, Answered
<1>2. Inv /\ Inv' /\ DeskInv /\ RejectedIsNotOffered /\ [Next]_vars => (DeskInv /\ RejectedIsNotOffered)'
  BY StepDesk, AnswerIsClean
<1>. QED
  BY <1>1, <1>2, Invariance, PTL DEF Spec

-----------------------------------------------------------------------------
(* The windows, and the staleness of a recommendation.                     *)

(* getFlows: for any transactions, and any day, the two quarters that the   *)
(* trend compares add up to the window of six months.                      *)
THEOREM QuartersAddUpCorrect == Spec => []QuartersAddUp
<1>1. DeskInv => QuartersAddUp
  <2>. SUFFICES ASSUME DeskInv, NEW c \in Customers
                PROVE  LET asOf == HalfMonth(today)
                           half == Window(data[c], asOf, 6).flow
                           q1 == Flows(data[c], asOf, 3, 0)
                           q2 == Flows(data[c], asOf, 3, 3)
                       IN  /\ half.total_in  = q1.total_in  + q2.total_in
                           /\ half.total_out = q1.total_out + q2.total_out
                           /\ half.txn_count = q1.txn_count + q2.txn_count
    BY DEF QuartersAddUp
  <2>1. data[c] \in Profiles /\ HalfMonth(today) \in Int
    BY Unchanged DEF HalfMonth
  <2>. QED
    BY <2>1, HalvesAddUp
<1>. QED
  BY <1>1, DeskInvariance, PTL

LEMMA GateIsFlagged ==
  ASSUME DeskInv, NEW c \in Customers, Latest(c) # NULL,
         NEW p \in Values(Evaluate(data[c], CurrentPosition(data[c]), RelationshipNow(c), NoKpi)),
         \/ /\ CurrentPosition(data[c]).casa_avg = NULL
            /\ Latest(c).snapshot.casa_avg # NULL /\ Latest(c).snapshot.casa_avg > 0
         \/ "R4" \in p.blocked_by /\ p.product \notin Latest(c).snapshot.product_flags
  PROVE  Staleness(data[c], Latest(c)) # {}
<1>. DEFINE snap == Latest(c).snapshot
            cur  == CurrentPosition(data[c])
            flags == {h.product : h \in {x \in data[c].held : x.active}}
<1>1. RecTyped(Latest(c))
  <2>1. recs[c] # <<>> /\ Latest(c) = recs[c][Len(recs[c])]
    BY DEF Latest
  <2>2. PICK S : recs[c] \in Seq(S)
    BY DEF DeskInv, RecsTyped
  <2>3. Len(recs[c]) \in Nat /\ Len(recs[c]) # 0 /\ DOMAIN recs[c] = 1..Len(recs[c])
    BY <2>1, <2>2, LenProperties, EmptySeq
  <2>4. Len(recs[c]) \in DOMAIN recs[c]
    BY <2>3
  <2>. QED
    BY <2>1, <2>4 DEF DeskInv, RecsTyped
<1>2. CASE cur.casa_avg = NULL /\ snap.casa_avg # NULL /\ snap.casa_avg > 0
  <2>1. snap.casa_avg \in Int
    BY <1>1, <1>2 DEF RecTyped
  <2>2. CasaMoved(snap.casa_avg, cur.casa_avg)
    <3>. HIDE DEF snap, cur
    <3>. QED
      BY <1>2, <2>1 DEF CasaMoved, Abs
  <2>3. "casa_avg" \in Staleness(data[c], Latest(c))
    BY <2>2 DEF Staleness
  <2>. QED
    BY <2>3
<1>3. CASE "R4" \in p.blocked_by /\ p.product \notin snap.product_flags
  <2>1. PICK i \in DOMAIN Catalog :
           p = EvaluatePackage(Catalog[i], data[c], cur, RelationshipNow(c), NoKpi)
    BY EvaluatedPackages
  <2>2. PICK h \in RelationshipNow(c).held_products : h.product = p.product
    BY <1>3, <2>1, TakenIsHeld
  <2>3. RelationshipNow(c).held_products = {x \in data[c].held : x.active}
    BY DEF RelationshipNow, Relationship
  <2>4. p.product \in flags
    BY <2>2, <2>3
  <2>5. snap.product_flags # flags /\ snap.product_flags # NULL
    BY <1>1, <1>3, <2>4, NullIsNoSet DEF RecTyped
  <2>6. "product_flags" \in Staleness(data[c], Latest(c))
    BY <2>5 DEF Staleness
  <2>. QED
    BY <2>6
<1>. QED
  BY <1>2, <1>3

(* WindowsService against NbaService: what blocks a package since it was    *)
(* recommended, an account closed or a product taken, is called stale.     *)
THEOREM NewGatesAreFlagged == Spec => []NewGateIsFlagged
<1>1. DeskInv => NewGateIsFlagged
  BY GateIsFlagged DEF NewGateIsFlagged
<1>. QED
  BY <1>1, DeskInvariance, PTL

(* The tables and the requests in progress keep their shape.               *)
THEOREM NbaTypeCorrect == Spec => []NbaTypeOK
<1>1. DeskInv => NbaTypeOK
  BY DEF DeskInv
<1>. QED
  BY <1>1, DeskInvariance, PTL

(* assess, with the trigger of the feedback: no assessment offers, as an    *)
(* eligible package or in the words of the explainer, a product that the   *)
(* customer had rejected within 90 days when it was asked for.             *)
THEOREM RejectionsCount == Spec => []RejectedIsNotOffered
  BY DeskInvariance, PTL

=============================================================================
