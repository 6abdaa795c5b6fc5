----------------------------- MODULE EventStream -----------------------------
(***************************************************************************)
(* The live timeline of one run: EventStreamService replays the persisted  *)
(* events and forwards new ones over server-sent events, and the browser's *)
(* RunEventStreamService reads them, reconnects with Last-Event-ID and     *)
(* drops duplicates.                                                       *)
(*                                                                         *)
(* An event is committed to the database first and published to the        *)
(* in-memory channel of the run afterwards; in between the process may     *)
(* lose the answer of the database, or die. A connection subscribes to the *)
(* channel first and loads the persisted events afterwards.                *)
(***************************************************************************)
EXTENDS RunEvents, Integers, FiniteSets, Sequences

CONSTANTS
  Clients,   \* browsers that follow the run
  Stories,   \* the event logs considered, sequences of events
  MaxFaults, \* bound: broken connections, restarts, refusals, lost publications
  MayMiss    \* whether a committed event may be published late or never

EventRecord == [type: EventTypes, ok: BOOLEAN]

ASSUME StoriesAssumption   == Stories \subseteq Seq(EventRecord)
ASSUME StreamFaultsAssumption == MaxFaults \in Nat
ASSUME MissAssumption      == MayMiss \in BOOLEAN

VARIABLES
  story,       \* the log the run will have
  committed,   \* how many of its events are in run_events
  unpublished, \* committed events whose record call has not published them yet
  irregular,   \* history: events never published, or published after a later one
  channel,     \* clients subscribed to the Subject now in `channels`
  conn,        \* the server's end of each client's connection
  loop,        \* RunEventStreamService.stream of each client
  faults       \* faults so far

backend == <<story, committed, unpublished, irregular>>
streamVars == <<story, committed, unpublished, irregular, channel, conn, loop, faults>>

Numbers == 1..Len(story)

(* `history` is what the query has read, <<>> before; `wire` holds the     *)
(* messages sent and not yet read by the browser.                          *)
NoConn == [open |-> FALSE, watermark |-> 0, read |-> FALSE, loaded |-> FALSE,
           history |-> 0, pending |-> {}, wire |-> <<>>]

ConnectedFromNow(after) == \* mutant: resumes at the latest event
  [NoConn EXCEPT !.open = TRUE, !.watermark = committed]

Connected(after) == [NoConn EXCEPT !.open = TRUE, !.watermark = after]

(* `seen` is seenIds and seenSequences, `given` what onEvent was called on.*)
NotStarted == [state |-> "idle", lastId |-> 0, seen |-> {}, given |-> <<>>]

(* The elements of a sequence, and the sequences (there is one) that hold  *)
(* the numbers of a set in ascending order.                                *)
Elements(s)  == {s[i] : i \in DOMAIN s}
Rising(s)    == \A i, j \in DOMAIN s : i < j => s[i] < s[j]
Ascending(S) == {s \in [1..Cardinality(S) -> S] : Rising(s) /\ Elements(s) = S}

-----------------------------------------------------------------------------
(* EventsService.record and EventStreamService.publish.                    *)

(* A callback is answered after its event has been published, so the next  *)
(* one follows a publication, unless the answer of the database came so    *)
(* late that a retry was told 409 (see RunLifecycle).                      *)
Commit ==
  /\ committed < Len(story)
  /\ unpublished # {} => MayMiss
  /\ committed' = committed + 1
  /\ unpublished' = unpublished \cup {committed'}
  /\ UNCHANGED <<story, irregular, channel, conn, loop, faults>>

ForwardUnordered(k, n) == \* mutant: forwards without looking at the watermark
  IF ~k.loaded THEN [k EXCEPT !.pending = @ \cup {n}]
  ELSE [k EXCEPT !.watermark = n, !.wire = Append(@, n)]

(* The subscription's handler: pending until the history has been loaded.  *)
Forward(k, n) ==
  IF ~k.loaded THEN [k EXCEPT !.pending = @ \cup {n}]
  ELSE IF n > k.watermark THEN [k EXCEPT !.watermark = n, !.wire = Append(@, n)]
  ELSE k

(* A terminal event completes the Subject and removes it: its subscribers  *)
(* stay connected but hear nothing more.                                   *)
Publish(n) ==
  /\ n \in unpublished
  /\ unpublished' = unpublished \ {n}
  /\ irregular' = irregular \cup {m \in unpublished : m < n}
  /\ conn' = [c \in Clients |-> IF c \in channel THEN Forward(conn[c], n) ELSE conn[c]]
  /\ channel' = IF EndsRun(story[n]) THEN {} ELSE channel
  /\ UNCHANGED <<story, committed, loop, faults>>

(* The transaction committed, but record saw an error and does not publish.*)
LosePublication(n) ==
  /\ MayMiss /\ faults < MaxFaults
  /\ n \in unpublished
  /\ unpublished' = unpublished \ {n}
  /\ irregular' = irregular \cup {n}
  /\ faults' = faults + 1
  /\ UNCHANGED <<story, committed, channel, conn, loop>>

(* The backend restarts: channels and connections are in its memory.       *)
DisconnectedSilently(l) == l \* mutant: the client does not notice

Disconnected(l) == IF l.state = "live" THEN [l EXCEPT !.state = "connecting"] ELSE l

Restart ==
  /\ faults < MaxFaults
  /\ faults' = faults + 1
  /\ unpublished' = {}
  /\ channel' = {}
  /\ conn' = [c \in Clients |-> NoConn]
  /\ loop' = [c \in Clients |-> Disconnected(loop[c])]
  /\ UNCHANGED <<story, committed, irregular>>

-----------------------------------------------------------------------------
(* EventStreamService.stream, per connection.                              *)

(* findMany runs some time after the subscription.                         *)
QueryHistory(c) ==
  /\ conn[c].open /\ ~conn[c].read
  /\ conn' = [conn EXCEPT ![c].read = TRUE, ![c].history = committed]
  /\ UNCHANGED <<backend, channel, loop, faults>>

ReplayedHistoryOnly(k) == \* mutant: forgets what arrived during the query
  {n \in Numbers : n > k.watermark /\ n <= k.history}

(* Its continuation sends the history, then what arrived meanwhile.        *)
Replayed(k) ==
  {n \in Numbers : n > k.watermark /\ (n <= k.history \/ n \in k.pending)}

SendHistory(c) ==
  /\ conn[c].read /\ ~conn[c].loaded
  /\ \E sent \in Ascending(Replayed(conn[c])) :
       LET top == IF sent = <<>> THEN conn[c].watermark ELSE sent[Len(sent)]
       IN  conn' = [conn EXCEPT ![c].loaded = TRUE, ![c].pending = {},
                                ![c].wire = @ \o sent, ![c].watermark = top]
  /\ UNCHANGED <<backend, channel, loop, faults>>

-----------------------------------------------------------------------------
(* RunEventStreamService.stream, per client.                               *)

(* Called with the persisted events 1..k.                                  *)
Open(c, k) ==
  /\ loop[c].state = "idle"
  /\ loop' = [loop EXCEPT ![c] = [NotStarted EXCEPT !.state = "connecting", !.lastId = k,
                                                    !.seen = 1..k]]

Hangup(c) ==
  /\ conn' = [conn EXCEPT ![c] = NoConn]
  /\ channel' = channel \ {c}

(* A request with Last-Event-ID is answered 200: the server subscribes the *)
(* connection to the channel, created on demand.                           *)
Connect(c) ==
  /\ loop[c].state = "connecting"
  /\ loop' = [loop EXCEPT ![c].state = "live"]
  /\ conn' = [conn EXCEPT ![c] = Connected(loop[c].lastId)]
  /\ channel' = channel \cup {c}
  /\ UNCHANGED <<backend, faults>>

(* No token, 401, 403 or another 4xx: the error is not retryable.          *)
Refuse(c) ==
  /\ loop[c].state = "connecting"
  /\ faults < MaxFaults
  /\ faults' = faults + 1
  /\ loop' = [loop EXCEPT ![c].state = "fatal"]
  /\ UNCHANGED <<backend, channel, conn>>

(* The connection breaks, or the history query fails: after a delay the    *)
(* client connects again.                                                  *)
Break(c) ==
  /\ loop[c].state = "live"
  /\ faults < MaxFaults
  /\ faults' = faults + 1
  /\ Hangup(c)
  /\ loop' = [loop EXCEPT ![c].state = "connecting"]
  /\ UNCHANGED backend

New(l, n) == n \notin l.seen

(* A frame: remembered as Last-Event-ID, given to onEvent unless it is a   *)
(* duplicate; a terminal event ends the stream even if it is one.          *)
Receive(c) ==
  LET l == loop[c]
      n == Head(conn[c].wire)
  IN  /\ l.state = "live" /\ conn[c].wire # <<>>
      /\ loop' = [loop EXCEPT ![c] =
           [state  |-> IF EndsRun(story[n]) THEN "ended" ELSE "live",
            lastId |-> n,
            seen   |-> l.seen \cup {n},
            given  |-> IF New(l, n) THEN Append(l.given, n) ELSE l.given]]
      /\ IF EndsRun(story[n])
         THEN Hangup(c)
         ELSE conn' = [conn EXCEPT ![c].wire = Tail(@)] /\ UNCHANGED channel
      /\ UNCHANGED <<backend, faults>>

Abort(c) ==
  /\ loop[c].state \in {"connecting", "live"}
  /\ loop' = [loop EXCEPT ![c].state = "aborted"]
  /\ Hangup(c)

-----------------------------------------------------------------------------
StreamInit ==
  /\ story \in Stories
  /\ committed = 0
  /\ unpublished = {}
  /\ irregular = {}
  /\ channel = {}
  /\ conn = [c \in Clients |-> NoConn]
  /\ loop = [c \in Clients |-> NotStarted]
  /\ faults = 0

Publisher == \E n \in unpublished : Publish(n)
Server(c) == QueryHistory(c) \/ SendHistory(c)

(* On its own: a client starts with any prefix of the log it has loaded,   *)
(* and may stop at any time.                                               *)
Start(c) ==
  /\ \E k \in 0..committed : Open(c, k)
  /\ UNCHANGED <<backend, channel, conn, faults>>
Stop(c) == Abort(c) /\ UNCHANGED <<backend, faults>>

StreamNext ==
  \/ Commit
  \/ Publisher
  \/ \E n \in unpublished : LosePublication(n)
  \/ Restart
  \/ \E c \in Clients : \/ Server(c)
                        \/ Start(c) \/ Connect(c) \/ Receive(c) \/ Stop(c)
                        \/ Refuse(c) \/ Break(c)

(* The backend and browsers that are alive keep working.                   *)
StreamFairness ==
  /\ WF_streamVars(Publisher)
  /\ \A c \in Clients : WF_streamVars(Server(c)) /\ WF_streamVars(Connect(c))
                        /\ WF_streamVars(Receive(c))

StreamSpec == StreamInit /\ [][StreamNext]_streamVars /\ StreamFairness

-----------------------------------------------------------------------------
(* Properties.                                                             *)

(* The variables keep their types.                                         *)
StreamTypeOK ==
  /\ story \in Stories
  /\ committed \in 0..Len(story)
  /\ unpublished \subseteq 1..committed
  /\ irregular \subseteq 1..committed
  /\ channel \subseteq Clients
  /\ conn \in [Clients -> [open: BOOLEAN, watermark: Nat, read: BOOLEAN, loaded: BOOLEAN,
                           history: Nat, pending: SUBSET Numbers, wire: Seq(Numbers)]]
  /\ loop \in [Clients -> [state: {"idle", "connecting", "live", "ended", "aborted", "fatal"},
                           lastId: Nat, seen: SUBSET Numbers, given: Seq(Numbers)]]
  /\ faults \in 0..MaxFaults

(* The timeline is given to the page in order and without duplicates, over *)
(* any number of reconnections, restarts, late and missing publications,   *)
(* and never repeats what was already persisted when the stream started.   *)
GivenInOrder ==
  \A c \in Clients :
    LET g == loop[c].given
        persisted == loop[c].seen \ {g[i] : i \in 1..Len(g)}
    IN  /\ \A i, j \in 1..Len(g) : i < j => g[i] < g[j]
        /\ \A n \in persisted, i \in 1..Len(g) : n < g[i]

(* The handover from history to live events, and every resumption, skips   *)
(* nothing: what a client has not seen below its Last-Event-ID was never   *)
(* published, or was published after a later event.                        *)
NothingSkipped ==
  \A c \in Clients : \A n \in 1..loop[c].lastId : n \in loop[c].seen \cup irregular

(* A stream that has not ended eventually shows everything that has been   *)
(* committed, unless a publication went wrong or the log has a second end, *)
(* published after the first one has closed the channel.                   *)
TwoEnds == \E m, n \in 1..committed : m # n /\ EndsRun(story[m]) /\ EndsRun(story[n])

StreamCatchesUp ==
  \A c \in Clients :
    <>[](loop[c].state \in {"connecting", "live"} =>
           1..committed \subseteq loop[c].seen \/ irregular # {} \/ TwoEnds)

(* What LiveTimeline promises a page: the events appear in order, one at a  *)
(* time, with no gap but for publications that went wrong, and a page that *)
(* has stopped shows nothing more, over reconnections and restarts.        *)
Following(l) == l.state \in {"connecting", "live"}
PageOf(l) == [state |-> IF l.state = "idle" THEN "idle"
                        ELSE IF Following(l) THEN "following" ELSE "stopped",
              shown |-> l.seen]

Timeline == INSTANCE LiveTimeline WITH
  recorded <- committed,
  excused  <- irregular,
  page     <- [c \in Clients |-> PageOf(loop[c])]

ImplementsTimeline == Timeline!Spec

-----------------------------------------------------------------------------
(* Why the properties are inductive.                                       *)

(* What a client has seen ends at its Last-Event-ID, nothing below that is *)
(* missing but what was published late or never, and what it gave to the   *)
(* page rises up to there, above what it had when it started.              *)
ClientInv(c) ==
  LET l == loop[c]
      given == Elements(l.given)
  IN  /\ l.lastId <= committed
      /\ l.seen \subseteq 1..l.lastId
      /\ \A n \in 1..l.lastId : n \in l.seen \cup irregular
      /\ given \subseteq l.seen
      /\ Rising(l.given)
      /\ \A m \in l.seen \ given, n \in given : m < n

(* The server holds a connection as long as the client is live; what is on *)
(* the wire rises from the client's Last-Event-ID to the watermark.        *)
ConnectionInv(c) ==
  LET k == conn[c]
      l == loop[c]
  IN  /\ IF l.state = "live" THEN k.open ELSE k = NoConn /\ c \notin channel
      /\ k.loaded => k.read
      /\ ~k.loaded => k.wire = <<>> /\ (k.open => k.watermark = l.lastId)
      /\ k.history <= committed
      /\ k.pending \subseteq 1..committed
      /\ k.open => l.lastId <= k.watermark /\ k.watermark <= committed
      /\ Rising(k.wire)
      /\ \A n \in Elements(k.wire) : l.lastId < n /\ n <= k.watermark

(* What the connection has not got, or has passed over: between the query  *)
(* and its answer, and from then on.                                       *)
Excusable == unpublished \cup irregular
HandoverInv(c) ==
  LET k == conn[c]
      l == loop[c]
  IN  /\ k.read /\ ~k.loaded =>
           /\ c \in channel => \A n \in 1..committed :
                n > k.history => n \in Excusable \cup k.pending
           /\ \A p \in k.pending, n \in 1..committed :
                n < p /\ n > k.history => n \in irregular \cup k.pending
      /\ k.loaded =>
           /\ c \in channel => \A n \in 1..committed : n > k.watermark => n \in Excusable
           /\ \A n \in 1..k.watermark :
                n > l.lastId => n \in Elements(k.wire) \cup irregular

FollowerInv(c) == ClientInv(c) /\ ConnectionInv(c) /\ HandoverInv(c)
StreamInv == StreamTypeOK /\ \A c \in Clients : FollowerInv(c)

=============================================================================
