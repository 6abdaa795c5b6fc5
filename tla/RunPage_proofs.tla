---------------------------- MODULE RunPage_proofs ----------------------------
(***************************************************************************)
(* Proofs about RunPage, for any number of pages, any log that ends after  *)
(* the request for approval, and any order of the answers of REST. The     *)
(* timeline's part of the invariant comes from EventStream_proofs.         *)
(***************************************************************************)
EXTENDS RunPage, EventStream_proofs

-----------------------------------------------------------------------------
(* Facts about the data.                                                   *)

Stopped == {"idle", "aborted", "ended"}
Row == [status: RunStatus, approvalState: ApprovalState, version: Nat]
Ended(events) == \E n \in events : EndsRun(story[n])

(* Taking an answer off the list leaves answers that were there.           *)
LEMMA RemoveAtType ==
  ASSUME NEW S, NEW s \in Seq(S), NEW i \in 1..Len(s)
  PROVE  /\ RemoveAt(s, i) \in Seq(S)
         /\ \A j \in 1..Len(RemoveAt(s, i)) : \E m \in 1..Len(s) : RemoveAt(s, i)[j] = s[m]
<1>. DEFINE a == SubSeq(s, 1, i - 1)
            b == SubSeq(s, i + 1, Len(s))
<1>1. /\ a \in Seq(S) /\ Len(a) = i - 1 /\ \A j \in 1..Len(a) : a[j] = s[j]
      /\ Len(s) \in Nat /\ i \in Nat
  OBVIOUS
<1>2. b \in Seq(S) /\ Len(b) = Len(s) - i /\ \A j \in 1..Len(b) : b[j] = s[j + i]
  OBVIOUS
<1>3. RemoveAt(s, i) = a \o b
  BY DEF RemoveAt
<1>. HIDE DEF a, b
<1>4. /\ a \o b \in Seq(S) /\ Len(a \o b) = Len(a) + Len(b)
      /\ Len(a) \in Nat /\ Len(b) \in Nat
  <2>1. a \in Seq(S) /\ b \in Seq(S)
    BY <1>1, <1>2
  <2>. QED
    BY <2>1
<1>5. ASSUME NEW j \in 1..Len(a \o b)
      PROVE  \E m \in 1..Len(s) : (a \o b)[j] = s[m]
  <2>1. CASE j \in 1..Len(a)
    <3>1. (a \o b)[j] = a[j]
      BY <1>1, <1>2, <2>1
    <3>. QED
      BY <1>1, <2>1, <3>1
  <2>2. CASE j \notin 1..Len(a)
    <3>1. j - Len(a) \in 1..Len(b) /\ j \in Len(a) + 1 .. Len(a) + Len(b)
      BY <1>4, <2>2
    <3>2. (a \o b)[j] = b[j - Len(a)]
      BY <1>1, <1>2, <3>1
    <3>3. b[j - Len(a)] = s[(j - Len(a)) + i] /\ (j - Len(a)) + i \in 1..Len(s)
      BY <1>1, <1>2, <3>1
    <3>. QED
      BY <3>2, <3>3
  <2>. QED
    BY <2>1, <2>2
<1>. QED
  BY <1>3, <1>4, <1>5

(* What the answers are made of.                                           *)
LEMMA PageTypes ==
  ASSUME PageTypeOK
  PROVE  /\ page \in [Clients -> Loading]
         /\ row.version \in Nat
         /\ Current \in Snapshot
         /\ \A posted \in BOOLEAN : Said(posted) \in Answers
         /\ NoRun.version = -1
<1>1. committed \in Nat
  BY LogTypes DEF PageTypeOK
<1>2. Current \in Snapshot
  BY <1>1 DEF Current, Snapshot, PageTypeOK
<1>. QED
  BY <1>2 DEF PageTypeOK, Said, Answers, NoRun

(* An answer that is applied is shown unless an equal or later version is, *)
(* and its events are merged into the timeline.                            *)
LEMMA AppliedEffect ==
  ASSUME PageTypeOK, NEW p \in Loading, NEW s \in Snapshot, s.at <= committed
  PROVE  /\ Applied(p, s) \in Loading
         /\ Applied(p, s).run = (IF Older(s, p.run) THEN p.run ELSE s)
         /\ Applied(p, s).events = p.events \cup 1..s.at
         /\ Applied(p, s).state = p.state /\ Applied(p, s).answers = p.answers
         /\ Applied(p, s).requests = p.requests /\ Applied(p, s).posted = p.posted
         /\ Applied(p, s).retried = p.retried
         /\ Applied(p, s).run.version \in Int /\ p.run.version \in Int
         /\ p.run.version <= Applied(p, s).run.version
<1>1. 1..s.at \subseteq Numbers
  BY LogTypes DEF PageTypeOK, Snapshot
<1>2. p.run \in Snapshot \cup {NoRun} /\ p.run.version \in Int /\ s.version \in Int
  BY DEF Loading, Snapshot, NoRun
<1>3. /\ Applied(p, s).run = (IF Older(s, p.run) THEN p.run ELSE s)
      /\ Applied(p, s).events = p.events \cup 1..s.at
      /\ Applied(p, s).state = p.state /\ Applied(p, s).answers = p.answers
      /\ Applied(p, s).requests = p.requests /\ Applied(p, s).posted = p.posted
      /\ Applied(p, s).retried = p.retried
      /\ Applied(p, s) \in Loading
  BY <1>1, <1>2 DEF Applied, Loading
<1>. QED
  BY <1>2, <1>3 DEF Older

-----------------------------------------------------------------------------
(* The stream does not know of the page.                                   *)

(* A step of the page is a step of the stream, or at most a fault.         *)
LEMMA PageStepIsStreamStep ==
  ASSUME PageInv, [Next]_vars
  PROVE  StreamInv'
<1>0. StreamInv /\ StreamTypeOK
  BY DEF PageInv, StreamInv
<1>1. CASE [StreamNext]_streamVars
  BY <1>0, <1>1, StreamNextInv
<1>2. CASE /\ UNCHANGED <<backend, channel, conn, loop>>
           /\ faults' = faults + 1 /\ faults < MaxFaults
  <2>1. StreamTypeOK'
    BY <1>0, <1>2, StreamFaultsAssumption DEF StreamTypeOK, backend, Numbers
  <2>. QED
    BY <1>0, <1>2, <2>1 DEF StreamInv, backend, FollowerInv, ClientInv, ConnectionInv,
                            HandoverInv, Excusable
<1>3. CASE RecordEvent
  BY <1>1, <1>3 DEF RecordEvent, StreamNext
<1>4. CASE DecideElsewhere
  BY <1>1, <1>4 DEF DecideElsewhere
<1>5. CASE StreamStep
  BY <1>1, <1>5 DEF StreamStep, StreamNext
<1>6. ASSUME NEW c \in Clients, User(c)
      PROVE  StreamInv'
  BY <1>1, <1>6 DEF User, Load, UserReloads, Submit
<1>7. ASSUME NEW c \in Clients, LoadFails(c) \/ ReloadFails(c)
      PROVE  StreamInv'
  BY <1>2, <1>7 DEF LoadFails, ReloadFails
<1>8. ASSUME NEW c \in Clients, ReadSnapshot(c) \/ ShowEvent(c)
      PROVE  StreamInv'
  BY <1>1, <1>8 DEF ReadSnapshot, ShowEvent, StreamNext
<1>9. ASSUME NEW c \in Clients, ApplyReload(c)
      PROVE  StreamInv'
  BY <1>1, <1>9 DEF ApplyReload, StreamAfter, StreamNext, Stop, streamVars, backend
<1>10. ASSUME NEW c \in Clients, ApplyLoad(c)
       PROVE  StreamInv'
  <2>1. /\ Len(page[c].answers) = 1 /\ page[c].answers \in Seq(Answers)
        /\ SnapshotInv(page[c].answers[1].snapshot)
    BY <1>10, PageTypes DEF PageInv, ShownInv, ApplyLoad, Loading
  <2>2. /\ Head(page[c].answers) = page[c].answers[1]
        /\ page[c].answers[1] \in Answers
    BY <2>1
  <2>3. Head(page[c].answers).snapshot.at \in 0..committed
    BY <1>0, <2>1, <2>2, LogTypes DEF SnapshotInv, Answers, Snapshot
  <2>4. CASE UNCHANGED loop
    BY <1>1, <1>10, <2>4 DEF ApplyLoad, streamVars, backend
  <2>5. CASE Open(c, Head(page[c].answers).snapshot.at)
    BY <1>1, <1>10, <2>3, <2>5 DEF ApplyLoad, StreamNext, Start
  <2>. QED
    BY <1>10, <2>4, <2>5 DEF ApplyLoad
<1>. QED
  BY <1>1, <1>3, <1>4, <1>5, <1>6, <1>7, <1>8, <1>9, <1>10
     DEF Next, Answer, vars, streamVars

-----------------------------------------------------------------------------
(* The run in the database.                                                *)

(* It changes by a callback or by a decision, never by a page that reads.  *)
LEMMA RunChanges ==
  ASSUME PageInv, [Next]_vars
  PROVE  \/ RecordEvent
         \/ Decide(row.version) /\ UNCHANGED <<story, committed>>
         \/ UNCHANGED <<story, committed, row>>
<1>1. CASE DecideElsewhere
  BY <1>1 DEF DecideElsewhere, streamVars
<1>2. CASE StreamStep
  BY <1>2 DEF StreamStep, Publisher, Publish, LosePublication, Restart, Server, QueryHistory,
              SendHistory, Connect, Refuse, Break, backend
<1>3. ASSUME NEW c \in Clients, User(c)
      PROVE  \/ Decide(row.version) /\ UNCHANGED <<story, committed>>
             \/ UNCHANGED <<story, committed, row>>
  BY <1>3 DEF User, Load, UserReloads, Submit, streamVars
<1>4. ASSUME NEW c \in Clients, Answer(c)
      PROVE  UNCHANGED <<story, committed, row>>
  BY <1>4 DEF Answer, ApplyLoad, ShowEvent, Receive, ReadSnapshot, ApplyReload, streamVars,
              backend
<1>5. ASSUME NEW c \in Clients, LoadFails(c) \/ ReloadFails(c)
      PROVE  UNCHANGED <<story, committed, row>>
  BY <1>5 DEF LoadFails, ReloadFails, backend
<1>. QED
  BY <1>1, <1>2, <1>3, <1>4, <1>5 DEF Next, vars, streamVars

(* A callback that follows the request for approval ends the run.          *)
LEMMA RequestIsFollowedByTheEnd ==
  ASSUME StreamTypeOK, committed < Len(story),
         \E n \in 1..committed : story[n].type = "approval.required"
  PROVE  EndsRun(story[committed + 1])
<1>1. PICK n \in 1..committed : story[n].type = "approval.required"
  OBVIOUS
<1>2. story \in Stories /\ committed \in Nat /\ Len(story) \in Nat
  BY LogTypes DEF StreamTypeOK
<1>3. n \in 1..Len(story) /\ committed + 1 \in 1..Len(story) /\ n < committed + 1
  BY <1>2
<1>. QED
  BY <1>1, <1>2, <1>3, RequestAssumption

(* What the database says of a decided run stays true of it, whatever is   *)
(* recorded later.                                                         *)
LEMMA RowKept ==
  ASSUME PageInv, [Next]_vars
  PROVE  RowInv' /\ row' \in Row
<1>1. /\ StreamTypeOK /\ row \in Row /\ committed \in Nat /\ Len(story) \in Nat
      /\ RowInv /\ row.version \in Nat
  BY LogTypes DEF PageInv, PageTypeOK, Row
<1>2. CASE RecordEvent
  <2>. DEFINE e == story[committed + 1]
              status == StatusAfter(e, row.status, row.approvalState)
              approval == ApprovalStateAfter(e, row.approvalState)
  <2>1. /\ committed' = committed + 1 /\ story' = story /\ committed < Len(story)
        /\ row' = [row EXCEPT !.status = status, !.approvalState = approval]
    BY <1>2 DEF RecordEvent, Commit
  <2>2. status \in RunStatus /\ approval \in ApprovalState
    BY <1>1 DEF StatusAfter, ApprovalStateAfter, Row, RunStatus, ApprovalState
  <2>3. row' = [status |-> status, approvalState |-> approval, version |-> row.version]
    BY <1>1, <2>1 DEF Row
  <2>4. row.version > 0 => EndsRun(e) /\ row.approvalState # "PENDING"
    BY <1>1, <2>1, RequestIsFollowedByTheEnd DEF RowInv
  <2>5. EndsRun(e) /\ row.approvalState # "PENDING" =>
          status \in TerminalStatus /\ approval # "PENDING"
    BY DEF EndsRun, StatusAfter, ApprovalStateAfter, TerminalStatus
  <2>6. status \in TerminalStatus => EndsRun(e) \/ row.status = status
    BY DEF EndsRun, StatusAfter, TerminalStatus
  <2>7. approval = "PENDING" => e.type = "approval.required" \/ row.approvalState = "PENDING"
    BY DEF ApprovalStateAfter
  <2>8. 1..committed' = 1..committed \cup {committed + 1} /\ story'[committed + 1] = e
    BY <1>1, <2>1
  <2>. HIDE DEF e, status, approval
  <2>9. SnapshotInv(Current)'
    BY <1>1, <2>1, <2>3, <2>4, <2>5, <2>6, <2>8
       DEF SnapshotInv, Current, Terminal, RowInv
  <2>10. RowInv'
    BY <1>1, <2>1, <2>3, <2>4, <2>5, <2>7, <2>8, <2>9 DEF RowInv
  <2>. QED
    BY <1>1, <2>2, <2>3, <2>10 DEF Row
<1>3. CASE Decide(row.version) /\ UNCHANGED <<story, committed>>
  <2>1. /\ row' = [status |-> "COMPLETED", approvalState |-> "APPROVED",
                   version |-> row.version + 1]
        /\ row.approvalState = "PENDING" /\ row.version + 1 > 0 /\ row.version + 1 \in Nat
    BY <1>1, <1>3 DEF Decide
  <2>. QED
    BY <1>1, <1>3, <2>1 DEF RowInv, SnapshotInv, Current, Terminal, TerminalStatus, Row, RunStatus,
                            ApprovalState
<1>4. CASE UNCHANGED <<story, committed, row>>
  BY <1>1, <1>4 DEF RowInv, SnapshotInv, Current
<1>. QED
  BY <1>2, <1>3, <1>4, RunChanges

(* An answer stays true while it is on its way.                            *)
LEMMA AnswersStay ==
  ASSUME PageInv, [Next]_vars
  PROVE  /\ story' = story
         /\ \A s \in Snapshot : SnapshotInv(s) => SnapshotInv(s)'
         /\ SnapshotInv(Current)
<1>1. committed \in Nat /\ SnapshotInv(Current)
  BY LogTypes DEF PageInv, PageTypeOK, RowInv
<1>2. story' = story /\ (committed' = committed \/ committed' = committed + 1)
  BY RunChanges DEF RecordEvent, Commit
<1>3. \A s \in Snapshot : s.at <= committed => s.at <= committed'
  BY <1>1, <1>2 DEF Snapshot
<1>. QED
  BY <1>1, <1>2, <1>3 DEF SnapshotInv, Terminal

-----------------------------------------------------------------------------
(* The pages.                                                              *)

(* What a step does to one page: it never goes back to an older version.   *)
PageKept(c) ==
  /\ page'[c] \in Loading /\ ShownInv(c)'
  /\ page[c].run.version <= page'[c].run.version

(* What is known of a page and of the answers on their way to it.          *)
LEMMA PageFacts ==
  ASSUME PageInv, NEW c \in Clients
  PROVE  /\ page[c] \in Loading /\ ShownInv(c)
         /\ page[c].answers \in Seq(Answers) /\ Len(page[c].answers) \in Nat
         /\ \A i \in 1..Len(page[c].answers) :
              /\ page[c].answers[i] \in Answers
              /\ page[c].answers[i].snapshot \in Snapshot
              /\ SnapshotInv(page[c].answers[i].snapshot)
         /\ page[c].run \in Snapshot \cup {NoRun} /\ page[c].run.version \in Int
<1>. DEFINE answers == page[c].answers
<1>1. page[c] \in Loading /\ ShownInv(c) /\ answers \in Seq(Answers)
  BY PageTypes DEF PageInv, Loading
<1>2. /\ \A i \in 1..Len(answers) : SnapshotInv(answers[i].snapshot)
      /\ page[c].run \in Snapshot \cup {NoRun} /\ page[c].run.version \in Int
  BY <1>1, PageTypes DEF ShownInv, Loading, Snapshot, NoRun
<1>. HIDE DEF answers
<1>3. Len(answers) \in Nat /\ \A i \in 1..Len(answers) : answers[i] \in Answers
  BY <1>1
<1>4. \A i \in 1..Len(answers) : answers[i].snapshot \in Snapshot
  BY <1>3 DEF Answers
<1>. QED
  BY <1>1, <1>2, <1>3, <1>4 DEF answers

(* A step that does not touch the page, and stops no stream, leaves what   *)
(* is known of it.                                                         *)
LEMMA ShownStays ==
  ASSUME PageInv, [Next]_vars, NEW c \in Clients, page'[c] = page[c],
         loop'[c].seen = loop[c].seen,
         loop'[c].state \in Stopped => loop'[c].state = loop[c].state,
         loop[c].state = "idle" => loop'[c].state = "idle"
  PROVE  PageKept(c)
<1>1. \A i \in 1..Len(page[c].answers) : SnapshotInv(page[c].answers[i].snapshot)'
  BY PageFacts, AnswersStay DEF SnapshotInv, Terminal
<1>. QED
  BY <1>1, PageFacts, AnswersStay DEF ShownInv, PageKept, Stopped, Terminal

(* Answers that are true now are true after the step.                      *)
LEMMA AnswersKept ==
  ASSUME PageInv, [Next]_vars, NEW c \in Clients,
         \A i \in 1..Len(page'[c].answers) :
           /\ page'[c].answers[i].snapshot \in Snapshot
           /\ SnapshotInv(page'[c].answers[i].snapshot)
  PROVE  \A i \in 1..Len(page'[c].answers) : SnapshotInv(page[c].answers[i].snapshot)'
BY AnswersStay DEF SnapshotInv, Terminal

(* The records that the requests of a page make of it.                     *)
LEMMA PageUpdates ==
  ASSUME NEW p \in Loading
  PROVE  /\ \A a \in Seq(Answers) :
              /\ [p EXCEPT !.state = "loading", !.answers = a] \in Loading
              /\ [p EXCEPT !.state = "failed", !.answers = a, !.error = TRUE] \in Loading
         /\ \A n, m \in Nat : /\ [p EXCEPT !.requests = n, !.asked = m] \in Loading
                              /\ [p EXCEPT !.posted = n, !.asked = m] \in Loading
         /\ \A n \in Nat :
              /\ [p EXCEPT !.requests = n, !.lost = TRUE, !.error = TRUE] \in Loading
              /\ [p EXCEPT !.posted = n, !.lost = TRUE] \in Loading
         /\ \A n \in Nat, a \in Seq(Answers) :
              /\ [p EXCEPT !.requests = n, !.answers = a] \in Loading
              /\ [p EXCEPT !.posted = n, !.answers = a] \in Loading
<1>1. ASSUME NEW a \in Seq(Answers)
      PROVE  /\ [p EXCEPT !.state = "loading", !.answers = a] \in Loading
             /\ [p EXCEPT !.state = "failed", !.answers = a, !.error = TRUE] \in Loading
  BY DEF Loading
<1>2. ASSUME NEW n \in Nat, NEW m \in Nat
      PROVE  /\ [p EXCEPT !.requests = n, !.asked = m] \in Loading
             /\ [p EXCEPT !.posted = n, !.asked = m] \in Loading
  BY DEF Loading
<1>3. ASSUME NEW n \in Nat
      PROVE  /\ [p EXCEPT !.requests = n, !.lost = TRUE, !.error = TRUE] \in Loading
             /\ [p EXCEPT !.posted = n, !.lost = TRUE] \in Loading
  BY DEF Loading
<1>4. ASSUME NEW n \in Nat, NEW a \in Seq(Answers)
      PROVE  /\ [p EXCEPT !.requests = n, !.answers = a] \in Loading
             /\ [p EXCEPT !.posted = n, !.answers = a] \in Loading
  BY DEF Loading
<1>. QED
  BY <1>1, <1>2, <1>3, <1>4

(* The page requests the run.                                              *)
LEMMA LoadKept ==
  ASSUME PageInv, [Next]_vars, NEW c \in Clients, Load(c)
  PROVE  PageKept(c)
<1>. DEFINE p == page[c]
            q == page'[c]
            said == Said(FALSE)
            answers == <<said>>
<1>1. /\ p \in Loading /\ ShownInv(c) /\ loop' = loop
      /\ p.state = "new" /\ page \in [Clients -> Loading]
  BY PageFacts, PageTypes DEF Load, PageInv, streamVars
<1>2. said \in Answers /\ said.snapshot \in Snapshot /\ SnapshotInv(said.snapshot)
  BY PageTypes, AnswersStay DEF PageInv, Said
<1>3. q = [p EXCEPT !.state = "loading", !.answers = answers]
  BY <1>1 DEF Load
<1>. HIDE DEF p, q, said
<1>4. /\ answers \in Seq(Answers) /\ Len(answers) = 1
      /\ \A i \in 1..Len(answers) : answers[i] = said
  BY <1>2
<1>. HIDE DEF answers
<1>5. q \in Loading
  BY <1>1, <1>3, <1>4, PageUpdates
<1>6. /\ q.answers = answers /\ q.state = "loading" /\ q.run = p.run /\ q.events = p.events
      /\ q.requests = p.requests /\ q.posted = p.posted
  BY <1>1, <1>3 DEF Loading
<1>7. \A i \in 1..Len(page'[c].answers) : SnapshotInv(page[c].answers[i].snapshot)'
  BY <1>2, <1>4, <1>6, AnswersKept DEF q
<1>. QED
  BY <1>1, <1>4, <1>5, <1>6, <1>7, AnswersStay, PageFacts DEF ShownInv, PageKept, NoRun, p, q

(* A page that asks, or whose request fails, shows what it has shown.      *)
LEMMA AsksKept ==
  ASSUME PageInv, [Next]_vars, NEW c \in Clients, UserReloads(c) \/ Submit(c) \/ ReloadFails(c)
  PROVE  PageKept(c)
<1>1. /\ page[c] \in Loading /\ ShownInv(c) /\ loop' = loop /\ page \in [Clients -> Loading]
  BY PageFacts, PageTypes DEF UserReloads, Submit, ReloadFails, PageInv, streamVars
<1>. DEFINE p == page[c]
            q == page'[c]
<1>2. ASSUME q \in Loading, q.answers = p.answers, q.state = p.state, q.run = p.run,
             q.events = p.events, q.retried = p.retried, p.state \notin {"new", "loading"}
      PROVE  PageKept(c)
  <2>1. \A i \in 1..Len(page'[c].answers) : SnapshotInv(page[c].answers[i].snapshot)'
    BY <1>2, PageFacts, AnswersKept
  <2>. QED
    BY <1>1, <1>2, <2>1, AnswersStay, PageFacts DEF ShownInv, PageKept, Terminal
<1>3. p \in Loading /\ p.requests \in Nat /\ p.posted \in Nat /\ p.asked \in Nat
  BY <1>1 DEF Loading
<1>4. CASE UserReloads(c)
  <2>1. p.state \notin {"new", "loading"}
    BY <1>4 DEF UserReloads, Opened
  <2>2. q = [p EXCEPT !.asked = p.asked + 1, !.requests = p.requests + 1]
    <3>. DEFINE r == [p EXCEPT !.asked = p.asked + 1]
    <3>1. page' = [page EXCEPT ![c] = Reload(r)]
      BY <1>4 DEF UserReloads
    <3>. HIDE DEF r
    <3>2. q = Reload(r)
      BY <1>1, <3>1
    <3>. HIDE DEF p, q
    <3>. QED
      BY <1>3, <3>2 DEF Reload, r, Loading
  <2>. HIDE DEF p, q
  <2>3. p.requests + 1 \in Nat /\ p.asked + 1 \in Nat
    BY <1>3
  <2>4. q = [p EXCEPT !.requests = p.requests + 1, !.asked = p.asked + 1]
    BY <1>3, <2>2 DEF Loading
  <2>5. q \in Loading
    BY <1>3, <2>3, <2>4, PageUpdates
  <2>. QED
    BY <1>2, <1>3, <2>1, <2>4, <2>5 DEF Loading
<1>5. CASE Submit(c)
  <2>1. p.state \notin {"new", "loading"}
    BY <1>5 DEF Submit
  <2>2. q = [p EXCEPT !.posted = @ + 1, !.asked = @ + 1]
    BY <1>1, <1>5 DEF Submit
  <2>. HIDE DEF p, q
  <2>3. p.posted + 1 \in Nat /\ p.asked + 1 \in Nat
    BY <1>3
  <2>4. q \in Loading
    BY <1>3, <2>2, <2>3, PageUpdates
  <2>. QED
    BY <1>2, <1>3, <2>1, <2>2, <2>4 DEF Loading
<1>6. CASE ReloadFails(c)
  <2>1. p.state \notin {"new", "loading"}
    BY <1>6 DEF ReloadFails, Opened
  <2>2. \/ p.requests > 0 /\ q = [p EXCEPT !.requests = @ - 1, !.lost = TRUE, !.error = TRUE]
        \/ p.posted > 0 /\ q = [p EXCEPT !.posted = @ - 1, !.lost = TRUE]
    BY <1>1, <1>6 DEF ReloadFails
  <2>. HIDE DEF p, q
  <2>3. /\ p.requests > 0 => p.requests - 1 \in Nat
        /\ p.posted > 0 => p.posted - 1 \in Nat
    BY <1>3
  <2>4. q \in Loading
    BY <1>3, <2>2, <2>3, PageUpdates
  <2>. QED
    BY <1>2, <1>3, <2>1, <2>2, <2>4 DEF Loading
<1>. QED
  BY <1>4, <1>5, <1>6

(* A page whose first request fails shows nothing and follows nothing.     *)
LEMMA LoadFailsKept ==
  ASSUME PageInv, [Next]_vars, NEW c \in Clients, LoadFails(c)
  PROVE  PageKept(c)
<1>. DEFINE p == page[c]
            q == page'[c]
            answers == <<>>
<1>1. /\ p \in Loading /\ ShownInv(c) /\ loop' = loop /\ page \in [Clients -> Loading]
      /\ p.state = "loading"
  BY PageFacts, PageTypes DEF LoadFails, PageInv
<1>2. q = [p EXCEPT !.state = "failed", !.answers = answers, !.error = TRUE]
  BY <1>1 DEF LoadFails
<1>3. answers \in Seq(Answers) /\ Len(answers) = 0
  OBVIOUS
<1>. HIDE DEF p, q, answers
<1>4. q \in Loading
  BY <1>1, <1>2, <1>3, PageUpdates
<1>5. q.answers = answers /\ q.state = "failed" /\ q.run = p.run /\ q.events = p.events
  BY <1>1, <1>2 DEF Loading
<1>. QED
  BY <1>1, <1>3, <1>4, <1>5, AnswersStay, PageFacts DEF ShownInv, PageKept, NoRun, p, q

(* A request is executed: its answer is true.                              *)
LEMMA ReadKept ==
  ASSUME PageInv, [Next]_vars, NEW c \in Clients, ReadSnapshot(c)
  PROVE  PageKept(c)
<1>1. /\ page[c] \in Loading /\ ShownInv(c) /\ loop' = loop /\ page \in [Clients -> Loading]
      /\ page[c].answers \in Seq(Answers)
      /\ \A i \in 1..Len(page[c].answers) :
           /\ page[c].answers[i].snapshot \in Snapshot
           /\ SnapshotInv(page[c].answers[i].snapshot)
  BY PageFacts, PageTypes DEF ReadSnapshot, PageInv, streamVars
<1>. DEFINE p == page[c]
            q == page'[c]
<1>2. PICK posted \in BOOLEAN :
        \/ p.requests > 0 /\ q = [p EXCEPT !.requests = @ - 1, !.answers = Append(@, Said(posted))]
        \/ p.posted > 0 /\ q = [p EXCEPT !.posted = @ - 1, !.answers = Append(@, Said(posted))]
  BY <1>1 DEF ReadSnapshot
<1>3. /\ Said(posted) \in Answers /\ Said(posted).snapshot = Current /\ Current \in Snapshot
      /\ SnapshotInv(Current)
  BY PageTypes, AnswersStay DEF PageInv, Said
<1>4. p \in Loading /\ p.requests \in Nat /\ p.posted \in Nat
  BY <1>1 DEF Loading
<1>. DEFINE answers == p.answers
            answer == Said(posted)
            said == Append(answers, answer)
<1>. HIDE DEF p, q, answers, answer
<1>5. /\ said \in Seq(Answers) /\ Len(said) = Len(answers) + 1
      /\ said[Len(said)] = answer /\ \A i \in 1..Len(answers) : said[i] = answers[i]
      /\ Len(answers) \in Nat
  BY <1>1, <1>3 DEF answers, answer, p
<1>6. /\ p.requests > 0 => p.requests - 1 \in Nat
      /\ p.posted > 0 => p.posted - 1 \in Nat
  BY <1>4
<1>7. \/ p.requests > 0 /\ q = [p EXCEPT !.requests = @ - 1, !.answers = said]
      \/ p.posted > 0 /\ q = [p EXCEPT !.posted = @ - 1, !.answers = said]
  BY <1>2 DEF answers, answer
<1>. HIDE DEF said
<1>8. \A i \in 1..Len(said) : i \in 1..Len(answers) \/ i = Len(said)
  BY <1>5
<1>9. \A i \in 1..Len(said) :
        said[i].snapshot \in Snapshot /\ SnapshotInv(said[i].snapshot)
  BY <1>1, <1>3, <1>5, <1>8 DEF answers, answer, p
<1>10. q \in Loading
  <2>1. CASE p.requests > 0 /\ q = [p EXCEPT !.requests = @ - 1, !.answers = said]
    BY <1>4, <1>5, <1>6, <2>1, PageUpdates
  <2>2. CASE p.posted > 0 /\ q = [p EXCEPT !.posted = @ - 1, !.answers = said]
    BY <1>4, <1>5, <1>6, <2>2, PageUpdates
  <2>. QED
    BY <1>7, <2>1, <2>2
<1>11. /\ q.answers = said /\ q.state = p.state /\ q.run = p.run /\ q.events = p.events
       /\ q.retried = p.retried
  BY <1>4, <1>7 DEF Loading
<1>12. p.state \notin {"new", "loading"}
  BY <1>1, <1>2 DEF ShownInv, p
<1>13. \A i \in 1..Len(page'[c].answers) : SnapshotInv(page[c].answers[i].snapshot)'
  BY <1>9, <1>11, AnswersKept DEF q
<1>. QED
  BY <1>1, <1>10, <1>11, <1>12, <1>13, AnswersStay, PageFacts DEF ShownInv, PageKept, Terminal, p, q

(* An event of the stream is on the timeline before the stream has it, and *)
(* the stream ends at the end of the run.                                  *)
LEMMA ShowKept ==
  ASSUME PageInv, [Next]_vars, NEW c \in Clients, ShowEvent(c)
  PROVE  PageKept(c)
<1>. DEFINE p == page[c]
            q == page'[c]
            l == loop[c]
            wire == conn[c].wire
            n == Head(wire)
            events == p.events \cup {n}
            shown == [p EXCEPT !.events = events]
<1>1. /\ p \in Loading /\ ShownInv(c) /\ page \in [Clients -> Loading]
      /\ l.state = "live" /\ wire # <<>>
      /\ wire \in Seq(Numbers) /\ loop \in [Clients -> Loop]
      /\ q = (IF ~New(l, n) THEN p
              ELSE IF story[n].type \in ReloadEvents THEN Reload(shown) ELSE shown)
  BY PageFacts, PageTypes DEF ShowEvent, Receive, PageInv, PageTypeOK, StreamTypeOK, Loop
<1>2. /\ loop'[c].state = (IF EndsRun(story[n]) THEN "ended" ELSE "live")
      /\ loop'[c].seen = l.seen \cup {n}
  BY <1>1 DEF ShowEvent, Receive
<1>. HIDE DEF wire
<1>3. n \in Numbers
  BY <1>1
<1>. HIDE DEF p, q, n, l
<1>4. events \in SUBSET Numbers
  BY <1>1, <1>3 DEF Loading
<1>. HIDE DEF events
<1>5. /\ shown \in Loading /\ shown.events = events
      /\ shown.requests \in Nat /\ shown.requests + 1 \in Nat
      /\ shown.answers = p.answers /\ shown.state = p.state /\ shown.run = p.run
      /\ shown.retried = p.retried
  <2>1. shown \in Loading
    BY <1>1, <1>4 DEF Loading
  <2>2. /\ shown.events = events /\ shown.answers = p.answers /\ shown.state = p.state
        /\ shown.run = p.run /\ shown.retried = p.retried
    BY <1>1 DEF Loading
  <2>. HIDE DEF shown
  <2>3. shown.requests \in Nat
    BY <2>1 DEF Loading
  <2>. QED
    BY <2>1, <2>2, <2>3
<1>. HIDE DEF shown
<1>6. /\ Reload(shown) \in Loading /\ Reload(shown).events = shown.events
      /\ Reload(shown).answers = shown.answers /\ Reload(shown).state = shown.state
      /\ Reload(shown).run = shown.run /\ Reload(shown).retried = shown.retried
  BY <1>5 DEF Loading, Reload
<1>7. /\ q \in Loading /\ q.answers = p.answers /\ q.state = p.state /\ q.run = p.run
      /\ q.retried = p.retried /\ p.events \subseteq q.events
      /\ New(l, n) => n \in q.events
  BY <1>1, <1>5, <1>6 DEF events
<1>8. p.state = "shown" /\ l.seen \subseteq p.events
  BY <1>1 DEF ShownInv, p, l
<1>9. n \in q.events
  BY <1>7, <1>8 DEF New
<1>10. \A i \in 1..Len(page'[c].answers) : SnapshotInv(page[c].answers[i].snapshot)'
  BY <1>7, PageFacts, AnswersKept DEF p, q
<1>. QED
  BY <1>1, <1>2, <1>7, <1>8, <1>9, <1>10, AnswersStay, PageFacts
     DEF ShownInv, PageKept, Terminal, p, q, l

(* The first answer is shown, and followed unless the run is over.         *)
LEMMA ApplyLoadKept ==
  ASSUME PageInv, [Next]_vars, NEW c \in Clients, ApplyLoad(c)
  PROVE  PageKept(c)
<1>. DEFINE p == page[c]
            q == page'[c]
            answers == p.answers
            s == Head(answers).snapshot
            nothing == <<>>
            settled == [p EXCEPT !.state = "shown", !.answers = nothing]
<1>1. /\ p \in Loading /\ ShownInv(c) /\ page \in [Clients -> Loading] /\ PageTypeOK
      /\ p.state = "loading" /\ loop \in [Clients -> Loop]
      /\ q = Applied(settled, s)
      /\ IF Terminal(s) THEN UNCHANGED loop ELSE Open(c, s.at)
  BY PageFacts, PageTypes DEF ApplyLoad, PageInv, PageTypeOK, StreamTypeOK, Loop
<1>2. /\ answers \in Seq(Answers) /\ Len(answers) = 1 /\ p.run = NoRun /\ loop[c].state = "idle"
      /\ answers[1].snapshot \in Snapshot /\ SnapshotInv(answers[1].snapshot)
      /\ loop[c].seen \subseteq p.events
  <2>1. /\ Len(answers) = 1 /\ p.run = NoRun /\ loop[c].state = "idle"
        /\ loop[c].seen \subseteq p.events
    BY <1>1 DEF ShownInv
  <2>. QED
    BY <2>1, PageFacts
<1>. HIDE DEF answers
<1>3. /\ s \in Snapshot /\ SnapshotInv(s)
  BY <1>2
<1>. HIDE DEF s, p, q
<1>4. nothing \in Seq(Answers) /\ Len(nothing) = 0
  OBVIOUS
<1>. HIDE DEF nothing
<1>5. /\ settled \in Loading /\ settled.state = "shown" /\ settled.answers = nothing
      /\ settled.run = p.run /\ settled.events = p.events
  BY <1>1, <1>4 DEF Loading
<1>. HIDE DEF settled
<1>6. s.at <= committed /\ s.version \in Nat /\ ~Older(s, NoRun)
  BY <1>3 DEF SnapshotInv, Snapshot, Older, NoRun
<1>7. /\ q \in Loading /\ q.run = s /\ q.events = p.events \cup 1..s.at
      /\ q.state = "shown" /\ q.answers = nothing
  BY <1>1, <1>2, <1>3, <1>5, <1>6, AppliedEffect
<1>8. \/ Terminal(s) /\ loop'[c] = loop[c]
      \/ loop'[c].state = "connecting" /\ loop'[c].seen = 1..s.at
  BY <1>1 DEF Open, NotStarted
<1>9. Terminal(s) => s.version > 0 \/ \E n \in q.events : EndsRun(story[n])
  BY <1>3, <1>7 DEF SnapshotInv
<1>10. s.version > 0 => Terminal(s)
  BY <1>3 DEF SnapshotInv
<1>11. \A i \in 1..Len(page'[c].answers) : SnapshotInv(page[c].answers[i].snapshot)'
  BY <1>4, <1>7 DEF q
<1>12. loop'[c].seen \subseteq q.events
  BY <1>2, <1>7, <1>8
<1>13. loop'[c].state \in {"idle", "aborted", "ended"} =>
         q.run.version > 0 \/ \E n \in q.events : EndsRun(story[n])
  BY <1>7, <1>8, <1>9
<1>. QED
  BY <1>2, <1>6, <1>7, <1>10, <1>11, <1>12, <1>13, AnswersStay
     DEF ShownInv, PageKept, Terminal, NoRun, p, q

(* A later answer is shown unless it is older; if it says that the run is  *)
(* over, the stream is aborted.                                            *)
LEMMA ApplyReloadKept ==
  ASSUME PageInv, [Next]_vars, NEW c \in Clients, ApplyReload(c)
  PROVE  PageKept(c)
<1>. DEFINE p == page[c]
            q == page'[c]
            answers == p.answers
<1>1. /\ p \in Loading /\ ShownInv(c) /\ page \in [Clients -> Loading] /\ PageTypeOK
      /\ loop \in [Clients -> Loop] /\ answers \in Seq(Answers) /\ Opened(c)
      /\ Len(answers) \in Nat
      /\ \A j \in 1..Len(answers) :
           /\ answers[j] \in Answers /\ answers[j].snapshot \in Snapshot
           /\ SnapshotInv(answers[j].snapshot)
  BY PageFacts, PageTypes DEF ApplyReload, PageInv, PageTypeOK, StreamTypeOK, Loop
<1>2. PICK i \in 1..Len(answers) :
        /\ q = Applied([p EXCEPT !.state   = "shown",
                                 !.answers = RemoveAt(@, i),
                                 !.error   = @ /\ answers[i].posted,
                                 !.retried = @ \/ p.state = "failed"],
                       answers[i].snapshot)
        /\ StreamAfter(c, answers[i].snapshot)
  BY <1>1 DEF ApplyReload
<1>. DEFINE s == answers[i].snapshot
            left == RemoveAt(answers, i)
            error == p.error /\ answers[i].posted
            retried == p.retried \/ p.state = "failed"
            settled == [p EXCEPT !.state = "shown", !.answers = left, !.error = error,
                                 !.retried = retried]
<1>3. q = Applied(settled, s) /\ s \in Snapshot /\ SnapshotInv(s) /\ StreamAfter(c, s)
  BY <1>1, <1>2
<1>4. error \in BOOLEAN /\ retried \in BOOLEAN
  OBVIOUS
<1>5. p.state \in {"shown", "failed"}
  BY <1>1 DEF Opened
<1>. HIDE DEF answers, s, error, retried
<1>6. /\ left \in Seq(Answers)
      /\ \A j \in 1..Len(left) : left[j].snapshot \in Snapshot /\ SnapshotInv(left[j].snapshot)
  BY <1>1, RemoveAtType
<1>. HIDE DEF left, p, q
<1>7. /\ settled \in Loading /\ settled.state = "shown" /\ settled.answers = left
      /\ settled.run = p.run /\ settled.events = p.events /\ settled.retried = retried
  BY <1>1, <1>4, <1>6 DEF Loading
<1>. HIDE DEF settled
<1>8. s.at <= committed
  BY <1>3 DEF SnapshotInv
<1>9. /\ q \in Loading /\ q.run = (IF Older(s, p.run) THEN p.run ELSE s)
      /\ q.events = p.events \cup 1..s.at
      /\ q.state = "shown" /\ q.answers = left /\ q.retried = retried
      /\ q.run.version \in Int /\ p.run.version \in Int /\ p.run.version <= q.run.version
  BY <1>1, <1>3, <1>7, <1>8, AppliedEffect
<1>10. \A j \in 1..Len(page'[c].answers) : SnapshotInv(page[c].answers[j].snapshot)'
  BY <1>6, <1>9, AnswersKept DEF q
<1>11. /\ s.version > 0 => Terminal(s)
       /\ Terminal(s) => s.version > 0 \/ \E n \in q.events : EndsRun(story[n])
  BY <1>3, <1>9 DEF SnapshotInv
<1>12. /\ loop[c].seen \subseteq p.events
       /\ p.run.version > 0 => Terminal(p.run)
       /\ p.state = "failed" => loop[c].state = "idle"
       /\ p.state = "shown" /\ ~p.retried /\ loop[c].state \in {"idle", "aborted", "ended"} =>
            p.run.version > 0 \/ \E n \in p.events : EndsRun(story[n])
  BY <1>1, <1>5 DEF ShownInv, p
<1>13. \/ loop'[c] = loop[c]
       \/ /\ Terminal(s) /\ ~Older(s, p.run)
          /\ loop'[c].seen = loop[c].seen /\ loop'[c].state = "aborted"
  BY <1>1, <1>3 DEF StreamAfter, Abort, Loop, p
<1>14. q.run.version > 0 => Terminal(q.run)
  BY <1>9, <1>11, <1>12
<1>15. loop'[c].seen \subseteq q.events
  BY <1>9, <1>12, <1>13
<1>16. ~q.retried /\ loop'[c].state \in {"idle", "aborted", "ended"} =>
         q.run.version > 0 \/ \E n \in q.events : EndsRun(story[n])
  <2>1. CASE loop'[c] = loop[c]
    <3>1. ~q.retried => ~p.retried /\ p.state = "shown"
      BY <1>5, <1>9 DEF retried
    <3>2. p.run.version > 0 => q.run.version > 0
      BY <1>9
    <3>3. p.events \subseteq q.events
      BY <1>9
    <3>. QED
      BY <1>12, <2>1, <3>1, <3>2, <3>3
  <2>2. CASE Terminal(s) /\ ~Older(s, p.run)
    BY <1>9, <1>11, <2>2
  <2>. QED
    BY <1>13, <2>1, <2>2
<1>. QED
  BY <1>9, <1>10, <1>14, <1>15, <1>16, AnswersStay
     DEF ShownInv, PageKept, Terminal, p, q

(* A step of one page leaves the others alone.                             *)
LEMMA OnePageMoves ==
  ASSUME PageInv, NEW c \in Clients, User(c) \/ Answer(c) \/ LoadFails(c) \/ ReloadFails(c)
  PROVE  /\ page' = [d \in Clients |-> page'[d]]
         /\ \A d \in Clients \ {c} : page'[d] = page[d] /\ loop'[d] = loop[d]
<1>1. page \in [Clients -> Loading] /\ loop \in [Clients -> Loop]
  BY DEF PageInv, PageTypeOK, StreamTypeOK, Loop
<1>2. CASE User(c) \/ LoadFails(c) \/ ReloadFails(c) \/ ReadSnapshot(c)
  BY <1>1, <1>2 DEF User, Load, UserReloads, Submit, LoadFails, ReloadFails, ReadSnapshot, streamVars
<1>3. CASE ApplyLoad(c)
  BY <1>1, <1>3 DEF ApplyLoad, Open
<1>4. CASE ShowEvent(c)
  BY <1>1, <1>4 DEF ShowEvent, Receive
<1>5. CASE ApplyReload(c)
  BY <1>1, <1>5 DEF ApplyReload, StreamAfter, Abort
<1>. QED
  BY <1>2, <1>3, <1>4, <1>5 DEF Answer

(* Every step keeps every page's invariant.                                *)
LEMMA PagesKept ==
  ASSUME PageInv, [Next]_vars
  PROVE  page' = [d \in Clients |-> page'[d]] /\ \A d \in Clients : PageKept(d)
<1>1. page \in [Clients -> Loading] /\ loop \in [Clients -> Loop]
  BY DEF PageInv, PageTypeOK, StreamTypeOK, Loop
<1>2. CASE page' = page /\ loop' = loop
  BY <1>1, <1>2, ShownStays
<1>3. CASE StreamStep
  <2>1. ASSUME NEW d \in Clients
        PROVE  /\ page'[d] = page[d] /\ loop'[d].seen = loop[d].seen
               /\ loop'[d].state \in Stopped => loop'[d].state = loop[d].state
               /\ loop[d].state = "idle" => loop'[d].state = "idle"
    <3>1. CASE Publisher \/ \E n \in unpublished : LosePublication(n)
      BY <1>3, <3>1 DEF StreamStep, Publisher, Publish, LosePublication
    <3>2. CASE Restart
      BY <1>1, <1>3, <3>2 DEF StreamStep, Restart, Disconnected, Loop, Stopped
    <3>3. ASSUME NEW c \in Clients, Server(c) \/ Connect(c) \/ Refuse(c) \/ Break(c)
          PROVE  /\ loop'[d].seen = loop[d].seen
                 /\ loop'[d].state \in Stopped => loop'[d].state = loop[d].state
                 /\ loop[d].state = "idle" => loop'[d].state = "idle"
      <4>1. CASE Server(c)
        BY <4>1 DEF Server, QueryHistory, SendHistory
      <4>2. CASE Connect(c)
        BY <1>1, <4>2 DEF Connect, Loop, Stopped
      <4>3. CASE Refuse(c) \/ Break(c)
        <5>1. PICK state \in {"fatal", "connecting"} :
                loop' = [loop EXCEPT ![c].state = state]
          BY <4>3 DEF Refuse, Break
        <5>2. loop[c].state \in {"connecting", "live"}
          BY <4>3 DEF Refuse, Break
        <5>. QED
          BY <1>1, <5>1, <5>2 DEF Loop, Stopped
      <4>. QED
        BY <3>3, <4>1, <4>2, <4>3
    <3>. QED
      BY <1>3, <3>1, <3>2, <3>3 DEF StreamStep
  <2>. QED
    BY <1>1, <1>3, <2>1, ShownStays DEF StreamStep
<1>4. CASE RecordEvent \/ DecideElsewhere
  BY <1>2, <1>4 DEF RecordEvent, Commit, DecideElsewhere, streamVars
<1>5. ASSUME NEW c \in Clients, User(c) \/ Answer(c) \/ LoadFails(c) \/ ReloadFails(c)
      PROVE  page' = [d \in Clients |-> page'[d]] /\ \A d \in Clients : PageKept(d)
  <2>1. PageKept(c)
    BY <1>5, LoadKept, AsksKept, LoadFailsKept, ReadKept, ShowKept, ApplyLoadKept,
       ApplyReloadKept DEF User, Answer
  <2>2. ASSUME NEW d \in Clients \ {c}
        PROVE  PageKept(d)
    <3>1. page'[d] = page[d] /\ loop'[d] = loop[d]
      BY <1>5, OnePageMoves
    <3>. QED
      BY <3>1, ShownStays
  <2>. QED
    BY <1>5, <2>1, <2>2, OnePageMoves
<1>. QED
  BY <1>2, <1>3, <1>4, <1>5 DEF Next, vars, streamVars

-----------------------------------------------------------------------------
(* The theorems.                                                           *)

(* Before a page is loaded it shows nothing.                               *)
LEMMA PageInitInv == Init => PageInv
<1>. SUFFICES ASSUME Init PROVE PageInv
  OBVIOUS
<1>1. StreamInv /\ StreamTypeOK
  BY StreamInitInv DEF Init, StreamInv
<1>2. NewPage \in Loading /\ NewPage.answers = <<>> /\ Len(NewPage.answers) = 0
  BY DEF NewPage, Loading
<1>3. /\ page = [c \in Clients |-> NewPage] /\ loop = [c \in Clients |-> NotStarted]
      /\ committed = 0
      /\ row = [status |-> "PENDING", approvalState |-> "NONE", version |-> 0]
  BY DEF Init, StreamInit
<1>4. PageTypeOK
  BY <1>1, <1>2, <1>3 DEF PageTypeOK, RunStatus, ApprovalState
<1>5. RowInv
  BY <1>3 DEF RowInv, SnapshotInv, Current, Terminal, TerminalStatus
<1>6. ASSUME NEW c \in Clients
      PROVE  ShownInv(c)
  <2>1. page[c] = NewPage /\ loop[c] = NotStarted
    BY <1>3
  <2>. QED
    BY <1>2, <2>1 DEF ShownInv, NewPage, NotStarted, NoRun
<1>. QED
  BY <1>1, <1>4, <1>5, <1>6 DEF PageInv

(* Every step keeps the invariant.                                         *)
LEMMA PageNextInv == PageInv /\ [Next]_vars => PageInv'
<1>. SUFFICES ASSUME PageInv, [Next]_vars PROVE PageInv'
  OBVIOUS
<1>1. StreamInv' /\ StreamTypeOK'
  BY PageStepIsStreamStep DEF StreamInv
<1>2. RowInv' /\ row' \in Row
  BY RowKept
<1>3. page' \in [Clients -> Loading] /\ \A c \in Clients : ShownInv(c)'
  BY PagesKept DEF PageKept
<1>4. Loading' = Loading
  BY AnswersStay DEF Loading, Numbers
<1>. QED
  BY <1>1, <1>2, <1>3, <1>4 DEF PageInv, PageTypeOK, Row

(* The inductive invariant holds in every reachable state.                 *)
THEOREM PageInvariance == Spec => []PageInv
<1>. QED
  BY PageInitInv, PageNextInv, PTL DEF Spec

(* The run, the timeline and the pages keep their types.                   *)
THEOREM PageTypeCorrect == Spec => []PageTypeOK
<1>1. PageInv => PageTypeOK
  BY DEF PageInv
<1>. QED
  BY <1>1, PageInvariance, PTL

(* RunFacade stops following a run only at its end: whatever the order of  *)
(* its answers, a page that has opened a stream shows the run as over, or  *)
(* has the end on its timeline, before the stream stops.                   *)
THEOREM StopsOnlyAtTheEndCorrect == Spec => []StopsOnlyAtTheEnd
<1>1. PageInv => StopsOnlyAtTheEnd
  BY DEF PageInv, ShownInv, StopsOnlyAtTheEnd, Terminal
<1>. QED
  BY <1>1, PageInvariance, PTL

(* applySnapshot never goes back to an older version of the run, whichever *)
(* of two answers arrives last.                                            *)
THEOREM VersionNeverRevertsCorrect == Spec => VersionNeverReverts
<1>1. ASSUME PageInv, [Next]_vars, NEW c \in Clients
      PROVE  page'[c].run.version >= page[c].run.version
  <2>1. PageKept(c) /\ page[c].run.version \in Int
    BY <1>1, PagesKept, PageFacts
  <2>2. page'[c].run.version \in Int
    BY <2>1 DEF PageKept, Loading, Snapshot, NoRun
  <2>. QED
    BY <2>1, <2>2 DEF PageKept
<1>2. PageInv /\ [Next]_vars => [\A c \in Clients : page'[c].run.version >= page[c].run.version]_vars
  BY <1>1
<1>. QED
  BY <1>2, PageInvariance, PTL DEF Spec, VersionNeverReverts

=============================================================================
