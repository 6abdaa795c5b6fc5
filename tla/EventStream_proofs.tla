-------------------------- MODULE EventStream_proofs --------------------------
(***************************************************************************)
(* Proofs about EventStream, for any number of browsers, any log and any   *)
(* number of broken connections, restarts, late and lost publications.     *)
(***************************************************************************)
EXTENDS EventStream, FiniteSetTheorems, TLAPS

-----------------------------------------------------------------------------
(* Rising sequences.                                                       *)

(* Reading the first element of a rising sequence leaves the later ones.   *)
LEMMA RisingTail ==
  ASSUME NEW S \in SUBSET Nat, NEW s \in Seq(S), s # <<>>, Rising(s)
  PROVE  /\ Tail(s) \in Seq(S) /\ Rising(Tail(s))
         /\ Head(s) \in Elements(s) /\ Head(s) \in S
         /\ Elements(s) = {Head(s)} \cup Elements(Tail(s))
         /\ \A n \in Elements(Tail(s)) : Head(s) < n
<1>1. /\ Len(s) \in Nat \ {0} /\ DOMAIN s = 1..Len(s) /\ Head(s) = s[1]
      /\ Tail(s) \in Seq(S) /\ DOMAIN Tail(s) = 1..(Len(s) - 1)
      /\ \A i \in 1..(Len(s) - 1) : Tail(s)[i] = s[i + 1]
  OBVIOUS
<1>2. Head(s) \in Elements(s) /\ Head(s) \in S
  BY <1>1 DEF Elements
<1>3. \A i \in DOMAIN Tail(s) : i + 1 \in DOMAIN s /\ 1 \in DOMAIN s /\ Tail(s)[i] = s[i + 1]
  BY <1>1
<1>4. Rising(Tail(s))
  <2>1. ASSUME NEW i \in DOMAIN Tail(s), NEW j \in DOMAIN Tail(s), i < j
        PROVE  s[i + 1] < s[j + 1]
    BY <1>1, <1>3, <2>1 DEF Rising
  <2>. QED
    BY <1>3, <2>1 DEF Rising
<1>5. \A n \in Elements(Tail(s)) : Head(s) < n /\ n \in Elements(s)
  <2>1. ASSUME NEW i \in DOMAIN Tail(s)
        PROVE  s[1] < s[i + 1]
    BY <1>1, <1>3 DEF Rising
  <2>. QED
    BY <1>1, <1>3, <2>1 DEF Elements
<1>6. ASSUME NEW n \in Elements(s)
      PROVE  n = Head(s) \/ n \in Elements(Tail(s))
  <2>1. PICK i \in DOMAIN s : n = s[i]
    BY DEF Elements
  <2>2. CASE i = 1
    BY <1>1, <2>1, <2>2
  <2>3. CASE i # 1
    <3>1. i - 1 \in DOMAIN Tail(s) /\ Tail(s)[i - 1] = s[i]
      BY <1>1, <2>3
    <3>. QED
      BY <2>1, <3>1 DEF Elements
  <2>. QED
    BY <2>2, <2>3
<1>. QED
  BY <1>1, <1>2, <1>4, <1>5, <1>6

(* Appending a later element keeps a sequence rising.                      *)
LEMMA RisingAppend ==
  ASSUME NEW S \in SUBSET Nat, NEW s \in Seq(S), NEW n \in S, Rising(s),
         \A m \in Elements(s) : m < n
  PROVE  /\ Append(s, n) \in Seq(S) /\ Rising(Append(s, n))
         /\ Elements(Append(s, n)) = Elements(s) \cup {n}
<1>. DEFINE t == Append(s, n)
<1>1. /\ t \in Seq(S) /\ Len(s) \in Nat /\ DOMAIN s = 1..Len(s)
      /\ DOMAIN t = 1..(Len(s) + 1)
      /\ t[Len(s) + 1] = n /\ \A i \in DOMAIN s : t[i] = s[i]
  OBVIOUS
<1>2. ASSUME NEW i \in DOMAIN t
      PROVE  i \in DOMAIN s \/ i = Len(s) + 1
  BY <1>1
<1>3. Rising(t)
  <2>1. ASSUME NEW i \in DOMAIN t, NEW j \in DOMAIN t, i < j
        PROVE  t[i] < t[j]
    <3>1. i \in DOMAIN s
      BY <1>1, <2>1
    <3>2. CASE j \in DOMAIN s
      BY <1>1, <2>1, <3>1, <3>2 DEF Rising
    <3>3. CASE j = Len(s) + 1
      BY <1>1, <3>1, <3>3 DEF Elements
    <3>. QED
      BY <1>2, <3>2, <3>3
  <2>. QED
    BY <2>1 DEF Rising
<1>4. Elements(t) = Elements(s) \cup {n}
  BY <1>1, <1>2 DEF Elements
<1>. QED
  BY <1>1, <1>3, <1>4

(* What Ascending promises: the numbers of the set, and the last is the    *)
(* largest.                                                                *)
LEMMA AscendingType ==
  ASSUME NEW m \in Nat, NEW S \in SUBSET (1..m), NEW s \in Ascending(S)
  PROVE  /\ s \in Seq(1..m) /\ Rising(s) /\ Elements(s) = S
         /\ s = <<>> => S = {}
         /\ s # <<>> => s[Len(s)] \in S /\ \A n \in S : n <= s[Len(s)]
<1>1. Cardinality(S) \in Nat
  <2>1. IsFiniteSet(1..m)
    BY FS_Interval
  <2>. QED
    BY <2>1, FS_Subset, FS_CardinalityType
<1>2. /\ s \in [1..Cardinality(S) -> S] /\ Rising(s) /\ Elements(s) = S
  BY DEF Ascending
<1>3. s \in Seq(1..m) /\ Len(s) = Cardinality(S) /\ DOMAIN s = 1..Len(s)
  <2>. DEFINE k == Cardinality(S)
  <2>. HIDE DEF k
  <2>1. k \in Nat /\ s \in [1..k -> 1..m]
    BY <1>1, <1>2 DEF k
  <2>2. s \in Seq(1..m) /\ Len(s) = k /\ DOMAIN s = 1..k
    BY <2>1
  <2>. QED
    BY <2>2 DEF k
<1>4. s = <<>> => S = {}
  BY <1>2, <1>3 DEF Elements
<1>5. ASSUME s # <<>>
      PROVE  s[Len(s)] \in S /\ \A n \in S : n <= s[Len(s)]
  <2>1. Len(s) \in DOMAIN s
    BY <1>3, <1>5
  <2>2. ASSUME NEW n \in S
        PROVE  n <= s[Len(s)]
    <3>1. PICK i \in DOMAIN s : s[i] = n
      BY <1>2 DEF Elements
    <3>2. i = Len(s) \/ i < Len(s)
      BY <1>3
    <3>3. s[Len(s)] \in Nat /\ n \in Nat
      BY <1>3, <2>1
    <3>. QED
      BY <1>2, <2>1, <3>1, <3>2, <3>3 DEF Rising
  <2>. QED
    BY <1>2, <2>1, <2>2
<1>. QED
  BY <1>2, <1>3, <1>4, <1>5

-----------------------------------------------------------------------------
(* The types.                                                              *)

Connection == [open: BOOLEAN, watermark: Nat, read: BOOLEAN, loaded: BOOLEAN,
               history: Nat, pending: SUBSET Numbers, wire: Seq(Numbers)]
Loop == [state: {"idle", "connecting", "live", "ended", "aborted", "fatal"},
         lastId: Nat, seen: SUBSET Numbers, given: Seq(Numbers)]

(* The log has a length, and what is committed is a part of it.            *)
LEMMA LogTypes ==
  ASSUME StreamTypeOK
  PROVE  /\ Len(story) \in Nat /\ Numbers = 1..Len(story) /\ Numbers \in SUBSET Nat
         /\ committed \in Nat /\ committed <= Len(story)
         /\ 1..committed \subseteq Numbers
         /\ \A n \in 1..committed : n \in Nat /\ 1 <= n /\ n <= committed
<1>1. story \in Seq(EventRecord)
  BY StoriesAssumption DEF StreamTypeOK
<1>2. Len(story) \in Nat
  BY <1>1
<1>. QED
  BY <1>2 DEF StreamTypeOK, Numbers

LEMMA ConnectionTypes ==
  ASSUME StreamTypeOK, NEW c \in Clients
  PROVE  /\ conn[c] \in Connection /\ loop[c] \in Loop
         /\ NoConn \in Connection
         /\ \A after \in Nat : Connected(after) \in Connection
<1>1. NoConn \in Connection
  BY DEF NoConn, Connection
<1>2. \A after \in Nat : Connected(after) \in Connection
  BY <1>1 DEF Connected, Connection
<1>. QED
  BY <1>1, <1>2 DEF StreamTypeOK, Connection, Loop

(* A connection gets a published event unless it has passed it.            *)
LEMMA ForwardTypes ==
  ASSUME StreamTypeOK, NEW k \in Connection, NEW n \in Numbers
  PROVE  Forward(k, n) \in Connection
<1>1. n \in Nat
  BY LogTypes
<1>2. Append(k.wire, n) \in Seq(Numbers)
  BY DEF Connection
<1>. QED
  BY <1>1, <1>2 DEF Forward, Connection

(* What is replayed rises, and ends with its largest number.               *)
Top(k, sent) == IF sent = <<>> THEN k.watermark ELSE sent[Len(sent)]

LEMMA ReplayTypes ==
  ASSUME StreamTypeOK, NEW k \in Connection, NEW sent \in Ascending(Replayed(k))
  PROVE  /\ sent \in Seq(Numbers) /\ Rising(sent) /\ Elements(sent) = Replayed(k)
         /\ Top(k, sent) \in Nat /\ k.watermark <= Top(k, sent)
         /\ Top(k, sent) = k.watermark \/ Top(k, sent) \in Replayed(k)
         /\ \A n \in Replayed(k) : n <= Top(k, sent)
<1>1. Replayed(k) \in SUBSET (1..Len(story)) /\ Len(story) \in Nat
  BY LogTypes DEF Replayed
<1>2. /\ sent \in Seq(1..Len(story)) /\ Rising(sent) /\ Elements(sent) = Replayed(k)
      /\ sent = <<>> => Replayed(k) = {}
      /\ sent # <<>> => /\ sent[Len(sent)] \in Replayed(k)
                        /\ \A n \in Replayed(k) : n <= sent[Len(sent)]
  BY <1>1, AscendingType
<1>3. sent \in Seq(Numbers)
  BY <1>2 DEF Numbers
<1>4. k.watermark \in Nat
  BY DEF Connection
<1>5. \A n \in Replayed(k) : n > k.watermark /\ n \in Nat
  BY LogTypes DEF Replayed
<1>. QED
  BY <1>2, <1>3, <1>4, <1>5 DEF Top

(* Every step keeps the types.                                             *)
LEMMA StreamTypesKept ==
  ASSUME StreamInv, StreamNext
  PROVE  StreamTypeOK'
<1>. DEFINE Connections == [Clients -> Connection]
            Loops       == [Clients -> Loop]
<1>0. /\ StreamTypeOK /\ conn \in Connections /\ loop \in Loops
      /\ NoConn \in Connection
      /\ faults < MaxFaults => faults + 1 \in 0..MaxFaults
  BY ConnectionTypes, StreamFaultsAssumption
     DEF StreamInv, StreamTypeOK, Connection, Loop, NoConn
<1>1. SUFFICES /\ story' = story
               /\ committed' \in 0..Len(story)
               /\ unpublished' \subseteq 1..committed'
               /\ irregular' \subseteq 1..committed'
               /\ channel' \subseteq Clients
               /\ conn' \in Connections /\ loop' \in Loops
               /\ faults' \in 0..MaxFaults
  BY <1>0 DEF StreamTypeOK, Connection, Loop, Numbers
<1>. USE LogTypes DEF backend
<1>2. CASE Commit
  BY <1>0, <1>2 DEF Commit, StreamTypeOK
<1>3. ASSUME NEW n \in unpublished, Publish(n)
      PROVE  /\ UNCHANGED <<story, committed, loop, faults>>
             /\ unpublished' \subseteq unpublished
             /\ irregular' \subseteq irregular \cup unpublished
             /\ channel' \subseteq channel
             /\ conn' \in Connections
  <2>1. n \in Numbers
    BY <1>0 DEF StreamTypeOK
  <2>2. \A c \in Clients : Forward(conn[c], n) \in Connection
    BY <1>0, <2>1, ForwardTypes, ConnectionTypes
  <2>. QED
    BY <1>0, <1>3, <2>2 DEF Publish
<1>4. ASSUME NEW n \in unpublished, LosePublication(n)
      PROVE  /\ UNCHANGED <<story, committed, loop, conn, channel>>
             /\ unpublished' \subseteq unpublished
             /\ irregular' \subseteq irregular \cup unpublished
             /\ faults' \in 0..MaxFaults
  BY <1>0, <1>4 DEF LosePublication
<1>5. CASE Restart
  <2>1. \A c \in Clients : Disconnected(loop[c]) \in Loop
    BY <1>0 DEF Disconnected, Loop
  <2>. QED
    BY <1>0, <1>5, <2>1 DEF Restart, StreamTypeOK
<1>6. ASSUME NEW c \in Clients, QueryHistory(c)
      PROVE  UNCHANGED <<backend, channel, loop, faults>> /\ conn' \in Connections
  BY <1>0, <1>6 DEF QueryHistory, Connection
<1>7. ASSUME NEW c \in Clients, SendHistory(c)
      PROVE  UNCHANGED <<backend, channel, loop, faults>> /\ conn' \in Connections
  <2>1. PICK sent \in Ascending(Replayed(conn[c])) :
          conn' = [conn EXCEPT ![c].loaded = TRUE, ![c].pending = {},
                               ![c].wire = @ \o sent, ![c].watermark = Top(conn[c], sent)]
    BY <1>7 DEF SendHistory, Top
  <2>2. conn[c] \in Connection
    BY <1>0
  <2>3. Top(conn[c], sent) \in Nat /\ sent \in Seq(Numbers)
    BY <1>0, <2>2, ReplayTypes
  <2>4. conn[c].wire \o sent \in Seq(Numbers)
    BY <2>2, <2>3 DEF Connection
  <2>5. conn' \in Connections
    <3>. DEFINE w == conn[c].wire \o sent
                t == Top(conn[c], sent)
                k == [conn[c] EXCEPT !.loaded = TRUE, !.pending = {}, !.wire = w, !.watermark = t]
    <3>1. conn' = [conn EXCEPT ![c] = k]
      BY <2>1
    <3>2. w \in Seq(Numbers) /\ t \in Nat
      BY <2>3, <2>4
    <3>. HIDE DEF w, t
    <3>3. k \in Connection
      BY <2>2, <3>2 DEF Connection
    <3>. HIDE DEF k
    <3>. QED
      BY <1>0, <3>1, <3>3
  <2>. QED
    BY <1>7, <2>5 DEF SendHistory
<1>8. ASSUME NEW c \in Clients, NEW k \in 0..committed, Open(c, k)
      PROVE  loop' \in Loops
  <2>1. [NotStarted EXCEPT !.state = "connecting", !.lastId = k, !.seen = 1..k] \in Loop
    <3>1. NotStarted \in Loop
      BY DEF NotStarted, Loop
    <3>2. k \in Nat /\ 1..k \subseteq Numbers
      BY <1>0
    <3>. QED
      BY <3>1, <3>2 DEF Loop
  <2>. QED
    BY <1>0, <1>8, <2>1 DEF Open
<1>9. ASSUME NEW c \in Clients, Connect(c)
      PROVE  /\ UNCHANGED <<backend, faults>>
             /\ channel' \subseteq channel \cup {c}
             /\ conn' \in Connections /\ loop' \in Loops
  <2>1. Connected(loop[c].lastId) \in Connection
    BY <1>0, ConnectionTypes DEF Loop
  <2>. QED
    BY <1>0, <1>9, <2>1 DEF Connect, Loop
<1>10. ASSUME NEW c \in Clients, Refuse(c)
       PROVE  /\ UNCHANGED <<backend, channel, conn>>
              /\ loop' \in Loops /\ faults' \in 0..MaxFaults
  BY <1>0, <1>10 DEF Refuse, Loop
<1>11. ASSUME NEW c \in Clients, Hangup(c)
       PROVE  conn' \in Connections /\ channel' \subseteq channel
  BY <1>0, <1>11 DEF Hangup
<1>12. ASSUME NEW c \in Clients, Break(c)
       PROVE  /\ UNCHANGED backend /\ conn' \in Connections /\ channel' \subseteq channel
              /\ loop' \in Loops /\ faults' \in 0..MaxFaults
  BY <1>0, <1>11, <1>12 DEF Break, Loop
<1>13. ASSUME NEW c \in Clients, Abort(c)
       PROVE  conn' \in Connections /\ channel' \subseteq channel /\ loop' \in Loops
  BY <1>0, <1>11, <1>13 DEF Abort, Loop
<1>14. ASSUME NEW c \in Clients, Receive(c)
       PROVE  /\ UNCHANGED <<backend, faults>>
              /\ conn' \in Connections /\ channel' \subseteq channel /\ loop' \in Loops
  <2>. DEFINE n == Head(conn[c].wire)
              l == loop[c]
              l2 == [state  |-> IF EndsRun(story[n]) THEN "ended" ELSE "live",
                     lastId |-> n,
                     seen   |-> l.seen \cup {n},
                     given  |-> IF New(l, n) THEN Append(l.given, n) ELSE l.given]
  <2>1. conn[c].wire \in Seq(Numbers) /\ conn[c].wire # <<>>
    BY <1>0, <1>14 DEF Receive, Connection
  <2>2. n \in Numbers /\ n \in Nat /\ Tail(conn[c].wire) \in Seq(Numbers)
    BY <1>0, <2>1
  <2>3. l.given \in Seq(Numbers) /\ l.seen \subseteq Numbers
    BY <1>0 DEF Loop
  <2>4. l2 \in Loop /\ loop' = [loop EXCEPT ![c] = l2]
    <3>1. l2.given \in Seq(Numbers)
      BY <2>2, <2>3
    <3>. QED
      BY <1>14, <2>2, <2>3, <3>1 DEF Receive, Loop
  <2>5. loop' \in Loops
    BY <1>0, <2>4
  <2>6. CASE EndsRun(story[n])
    BY <1>11, <1>14, <2>5, <2>6 DEF Receive
  <2>7. CASE ~EndsRun(story[n])
    <3>1. conn' = [conn EXCEPT ![c].wire = Tail(@)] /\ UNCHANGED channel
      BY <1>14, <2>7 DEF Receive
    <3>2. conn' \in Connections
      BY <1>0, <2>2, <3>1 DEF Connection
    <3>. QED
      BY <1>14, <2>5, <3>1, <3>2 DEF Receive
  <2>. QED
    BY <2>6, <2>7
<1>. HIDE DEF Connections, Loops
<1>15. CASE Publisher
  BY <1>0, <1>3, <1>15 DEF Publisher, StreamTypeOK
<1>16. CASE \E n \in unpublished : LosePublication(n)
  BY <1>0, <1>4, <1>16 DEF StreamTypeOK
<1>17. ASSUME NEW c \in Clients, Server(c) \/ Start(c) \/ Connect(c) \/ Receive(c) \/ Stop(c)
                                 \/ Refuse(c) \/ Break(c)
       PROVE  /\ UNCHANGED backend
              /\ channel' \subseteq Clients
              /\ conn' \in Connections /\ loop' \in Loops
              /\ faults' \in 0..MaxFaults
  BY <1>0, <1>6, <1>7, <1>8, <1>9, <1>10, <1>12, <1>13, <1>14, <1>17
     DEF Server, Start, Stop, StreamTypeOK
<1>. QED
  BY <1>0, <1>2, <1>5, <1>15, <1>16, <1>17 DEF StreamNext, StreamTypeOK

-----------------------------------------------------------------------------
(* The clients.                                                            *)

(* A client that is left alone follows the run as before: what is          *)
(* committed meanwhile is still to be published.                           *)
LEMMA Untouched ==
  ASSUME StreamTypeOK, StreamTypeOK', NEW c \in Clients, FollowerInv(c),
         conn'[c] = conn[c], loop'[c] = loop[c],
         irregular \subseteq irregular', committed <= committed',
         c \in channel' =>
           /\ c \in channel /\ Excusable \subseteq Excusable'
           /\ \A n \in 1..committed' : n > committed => n \in Excusable',
         c \in channel => c \in channel' \/ loop[c].state = "live"
  PROVE  FollowerInv(c)'
<1>. DEFINE k == conn[c]
            l == loop[c]
<1>0. /\ k \in Connection /\ l \in Loop /\ committed \in Nat /\ committed' \in Nat
  <2>1. story' \in Seq(EventRecord) /\ committed' \in 0..Len(story')
    BY StoriesAssumption DEF StreamTypeOK
  <2>2. Len(story') \in Nat
    BY <2>1
  <2>. QED
    BY <2>1, <2>2, ConnectionTypes, LogTypes
<1>1. ClientInv(c)'
  BY <1>0 DEF FollowerInv, ClientInv, Loop
<1>2. ConnectionInv(c)'
  <2>1. k.history <= committed' /\ k.pending \subseteq 1..committed'
        /\ (k.open => k.watermark <= committed')
    BY <1>0 DEF FollowerInv, ConnectionInv, Connection
  <2>. QED
    BY <2>1 DEF FollowerInv, ConnectionInv
<1>3. ASSUME k.read, ~k.loaded
      PROVE  /\ c \in channel' => \A n \in 1..committed' :
                  n > k.history => n \in Excusable' \cup k.pending
             /\ \A p \in k.pending, n \in 1..committed' :
                  n < p /\ n > k.history => n \in irregular' \cup k.pending
  <2>1. ASSUME c \in channel', NEW n \in 1..committed', n > k.history
        PROVE  n \in Excusable' \cup k.pending
    <3>1. CASE n > committed
      BY <2>1, <3>1
    <3>2. CASE n \in 1..committed
      BY <1>3, <2>1, <3>2 DEF FollowerInv, HandoverInv
    <3>. QED
      BY <1>0, <3>1, <3>2
  <2>2. ASSUME NEW p \in k.pending, NEW n \in 1..committed', n < p, n > k.history
        PROVE  n \in irregular' \cup k.pending
    <3>1. p \in 1..committed
      BY DEF FollowerInv, ConnectionInv
    <3>2. n \in 1..committed
      BY <1>0, <2>2, <3>1
    <3>. QED
      BY <1>3, <2>2, <3>2 DEF FollowerInv, HandoverInv
  <2>. QED
    BY <2>1, <2>2
<1>4. ASSUME k.loaded
      PROVE  /\ c \in channel' => \A n \in 1..committed' : n > k.watermark => n \in Excusable'
             /\ \A n \in 1..k.watermark :
                  n > l.lastId => n \in Elements(k.wire) \cup irregular'
  <2>1. ASSUME c \in channel', NEW n \in 1..committed', n > k.watermark
        PROVE  n \in Excusable'
    <3>1. CASE n > committed
      BY <2>1, <3>1
    <3>2. CASE n \in 1..committed
      BY <1>4, <2>1, <3>2 DEF FollowerInv, HandoverInv
    <3>. QED
      BY <1>0, <3>1, <3>2
  <2>. QED
    BY <1>4, <2>1 DEF FollowerInv, HandoverInv
<1>5. HandoverInv(c)'
  BY <1>3, <1>4 DEF HandoverInv
<1>. QED
  BY <1>1, <1>2, <1>5 DEF FollowerInv

(* A client whose connection is gone keeps what it has seen.               *)
LEMMA Gone ==
  ASSUME StreamTypeOK, StreamTypeOK', NEW c \in Clients, FollowerInv(c),
         conn'[c] = NoConn, c \notin channel', loop'[c].state # "live",
         loop'[c].lastId = loop[c].lastId, loop'[c].seen = loop[c].seen,
         loop'[c].given = loop[c].given,
         irregular \subseteq irregular', committed' = committed
  PROVE  FollowerInv(c)'
<1>0. committed \in Nat
  BY LogTypes
<1>1. ClientInv(c)'
  BY DEF FollowerInv, ClientInv
<1>2. NoConn.wire = <<>> /\ Rising(<<>>) /\ Elements(<<>>) = {}
  BY DEF NoConn, Rising, Elements
<1>3. ConnectionInv(c)'
  BY <1>0, <1>2 DEF ConnectionInv, NoConn
<1>4. HandoverInv(c)'
  BY DEF HandoverInv, NoConn
<1>. QED
  BY <1>1, <1>3, <1>4 DEF FollowerInv

(* A published event reaches its subscribers; what it overtakes is counted *)
(* as irregular.                                                           *)
LEMMA PublishKept ==
  ASSUME StreamInv, StreamTypeOK', NEW n \in unpublished, Publish(n), NEW c \in Clients
  PROVE  FollowerInv(c)'
<1>. DEFINE k == conn[c]
            l == loop[c]
            k2 == conn'[c]
<1>0. /\ StreamTypeOK /\ FollowerInv(c) /\ k \in Connection /\ l \in Loop
      /\ n \in Numbers /\ n \in Nat /\ 1 <= n /\ n <= committed /\ committed \in Nat
  BY LogTypes, ConnectionTypes DEF StreamInv, StreamTypeOK
<1>1. /\ UNCHANGED <<story, committed, loop>>
      /\ unpublished' = unpublished \ {n}
      /\ irregular' = irregular \cup {m \in unpublished : m < n}
      /\ channel' \subseteq channel
  BY DEF Publish
<1>2. CASE c \notin channel
  <2>1. conn'[c] = conn[c]
    BY <1>2 DEF Publish
  <2>. QED
    BY <1>0, <1>1, <1>2, <2>1, Untouched
<1>3. CASE c \in channel
  <2>1. k2 = Forward(k, n) /\ l.state = "live" /\ k.open
    BY <1>0, <1>3 DEF Publish, FollowerInv, ConnectionInv
  <2>2. ClientInv(c)'
    BY <1>0, <1>1 DEF FollowerInv, ClientInv
  <2>3. CASE ~k.loaded
    <3>1. /\ k2.pending = k.pending \cup {n}
          /\ k2.open = k.open /\ k2.read = k.read /\ k2.loaded = k.loaded
          /\ k2.history = k.history /\ k2.wire = k.wire /\ k2.watermark = k.watermark
      BY <1>0, <2>1, <2>3 DEF Forward, Connection
    <3>2. ConnectionInv(c)'
      BY <1>0, <1>1, <2>1, <3>1 DEF FollowerInv, ConnectionInv
    <3>3. ASSUME k.read
          PROVE  /\ \A m \in 1..committed : m > k.history => m \in Excusable' \cup k2.pending
                 /\ \A p \in k2.pending, m \in 1..committed :
                      m < p /\ m > k.history => m \in irregular' \cup k2.pending
      <4>1. \A m \in 1..committed : m > k.history => m \in Excusable \cup k.pending
        BY <1>0, <1>3, <2>3, <3>3 DEF FollowerInv, HandoverInv
      <4>2. \A m \in Excusable : m = n \/ m \in Excusable'
        BY <1>1 DEF Excusable
      <4>3. ASSUME NEW m \in 1..committed, m < n, m > k.history
            PROVE  m \in irregular' \cup k2.pending
        BY <1>1, <3>1, <4>1, <4>3 DEF Excusable
      <4>4. ASSUME NEW p \in k.pending, NEW m \in 1..committed, m < p, m > k.history
            PROVE  m \in irregular' \cup k2.pending
        BY <1>0, <1>1, <2>3, <3>1, <3>3, <4>4 DEF FollowerInv, HandoverInv
      <4>. QED
        BY <3>1, <4>1, <4>2, <4>3, <4>4
    <3>4. HandoverInv(c)'
      BY <1>1, <2>3, <3>1, <3>3 DEF HandoverInv
    <3>. QED
      BY <2>2, <3>2, <3>4 DEF FollowerInv
  <2>4. CASE k.loaded /\ n > k.watermark
    <3>1. /\ k2.watermark = n /\ k2.wire = Append(k.wire, n)
          /\ k2.open = k.open /\ k2.read = k.read /\ k2.loaded = k.loaded
          /\ k2.history = k.history /\ k2.pending = k.pending
      BY <1>0, <2>1, <2>4 DEF Forward, Connection
    <3>2. /\ k.wire \in Seq(Numbers) /\ Rising(k.wire)
          /\ l.lastId <= k.watermark
          /\ \A m \in Elements(k.wire) : l.lastId < m /\ m <= k.watermark /\ m \in Nat
      <4>1. k.wire \in Seq(Numbers) /\ Elements(k.wire) \subseteq Numbers
        BY <1>0 DEF Connection, Elements
      <4>. QED
        BY <1>0, <2>1, <4>1, LogTypes DEF FollowerInv, ConnectionInv
    <3>3. k.watermark \in Nat /\ l.lastId \in Nat
      BY <1>0 DEF Connection, Loop
    <3>4. Rising(k2.wire) /\ Elements(k2.wire) = Elements(k.wire) \cup {n}
      <4>1. \A m \in Elements(k.wire) : m < n
        BY <1>0, <2>4, <3>2, <3>3
      <4>2. Numbers \in SUBSET Nat
        BY <1>0, LogTypes
      <4>. QED
        BY <1>0, <3>1, <3>2, <4>1, <4>2, RisingAppend
    <3>5. ConnectionInv(c)'
      <4>1. \A m \in Elements(k2.wire) : l.lastId < m /\ m <= n
        BY <1>0, <2>4, <3>2, <3>3, <3>4
      <4>2. l.lastId <= n
        BY <1>0, <2>4, <3>2, <3>3
      <4>. QED
        BY <1>0, <1>1, <2>1, <2>4, <3>1, <3>4, <4>1, <4>2 DEF FollowerInv, ConnectionInv
    <3>6. \A m \in 1..committed : m > k.watermark => m \in Excusable
      BY <1>0, <1>3, <2>4 DEF FollowerInv, HandoverInv
    <3>7. ASSUME NEW m \in 1..committed, m > n
          PROVE  m \in Excusable'
      <4>1. m > k.watermark /\ m # n
        BY <1>0, <2>4, <3>3, <3>7
      <4>. QED
        BY <1>1, <3>6, <4>1 DEF Excusable
    <3>8. ASSUME NEW m \in 1..n, m > l.lastId
          PROVE  m \in Elements(k2.wire) \cup irregular'
      <4>1. CASE m \in 1..k.watermark
        BY <1>0, <1>1, <2>4, <3>4, <3>8, <4>1 DEF FollowerInv, HandoverInv
      <4>2. CASE m > k.watermark /\ m < n
        <5>1. m \in Excusable
          BY <1>0, <3>6, <4>2
        <5>. QED
          BY <1>1, <4>2, <5>1 DEF Excusable
      <4>3. CASE m = n
        BY <3>4, <4>3
      <4>. QED
        BY <1>0, <3>3, <4>1, <4>2, <4>3
    <3>9. HandoverInv(c)'
      BY <1>1, <2>4, <3>1, <3>7, <3>8 DEF HandoverInv
    <3>. QED
      BY <2>2, <3>5, <3>9 DEF FollowerInv
  <2>5. CASE k.loaded /\ ~(n > k.watermark)
    <3>1. k2 = k
      BY <2>1, <2>5 DEF Forward
    <3>2. ConnectionInv(c)'
      BY <1>0, <1>1, <2>1, <3>1 DEF FollowerInv, ConnectionInv
    <3>3. k.watermark \in Nat
      BY <1>0 DEF Connection
    <3>4. ASSUME NEW m \in 1..committed, m > k.watermark
          PROVE  m \in Excusable'
      <4>1. m \in Excusable /\ m # n
        BY <1>0, <1>3, <2>5, <3>3, <3>4 DEF FollowerInv, HandoverInv
      <4>. QED
        BY <1>1, <4>1 DEF Excusable
    <3>5. \A m \in 1..k.watermark : m > l.lastId => m \in Elements(k.wire) \cup irregular'
      BY <1>0, <1>1, <2>5 DEF FollowerInv, HandoverInv
    <3>6. HandoverInv(c)'
      BY <1>1, <2>5, <3>1, <3>4, <3>5 DEF HandoverInv
    <3>. QED
      BY <2>2, <3>2, <3>6 DEF FollowerInv
  <2>. QED
    BY <2>3, <2>4, <2>5
<1>. QED
  BY <1>2, <1>3

(* The query reads every committed event.                                  *)
LEMMA QueryKept ==
  ASSUME StreamInv, NEW c \in Clients, QueryHistory(c)
  PROVE  FollowerInv(c)'
<1>. DEFINE k == conn[c]
            k2 == conn'[c]
<1>0. FollowerInv(c) /\ k \in Connection /\ committed \in Nat
  BY LogTypes, ConnectionTypes DEF StreamInv
<1>1. /\ UNCHANGED <<story, committed, unpublished, irregular, channel, loop>>
      /\ ~k.read
  BY DEF QueryHistory, backend
<1>2. /\ k2.read = TRUE /\ k2.history = committed
      /\ k2.open = k.open /\ k2.loaded = k.loaded /\ k2.watermark = k.watermark
      /\ k2.pending = k.pending /\ k2.wire = k.wire
  BY <1>0 DEF QueryHistory, Connection, StreamInv, StreamTypeOK
<1>3. ClientInv(c)'
  BY <1>0, <1>1 DEF FollowerInv, ClientInv
<1>4. ~k.loaded /\ loop[c].state = "live"
  BY <1>0, <1>1 DEF FollowerInv, ConnectionInv, QueryHistory, NoConn
<1>5. ConnectionInv(c)'
  BY <1>0, <1>1, <1>2, <1>4 DEF FollowerInv, ConnectionInv
<1>6. \A p \in k.pending : p \in 1..committed
  BY <1>0 DEF FollowerInv, ConnectionInv
<1>7. HandoverInv(c)'
  BY <1>0, <1>1, <1>2, <1>4, <1>6 DEF HandoverInv
<1>. QED
  BY <1>3, <1>5, <1>7 DEF FollowerInv

(* The replay sends the history and what arrived during the query: beyond  *)
(* the last number it sends, everything is still to come.                  *)
LEMMA ReplayKept ==
  ASSUME StreamInv, NEW c \in Clients, SendHistory(c)
  PROVE  FollowerInv(c)'
<1>. DEFINE k == conn[c]
            l == loop[c]
            k2 == conn'[c]
<1>0. /\ StreamTypeOK /\ FollowerInv(c) /\ k \in Connection /\ l \in Loop
      /\ committed \in Nat /\ 1..committed \subseteq Numbers
  BY LogTypes, ConnectionTypes DEF StreamInv
<1>1. /\ UNCHANGED <<story, committed, unpublished, irregular, channel, loop>>
      /\ k.read /\ ~k.loaded
  BY DEF SendHistory, backend
<1>2. /\ l.state = "live" /\ k.open /\ k.wire = <<>> /\ k.watermark = l.lastId
      /\ k.history <= committed /\ k.pending \subseteq 1..committed
      /\ l.lastId \in Nat /\ l.lastId <= committed /\ k.history \in Nat
  BY <1>0, <1>1 DEF FollowerInv, ConnectionInv, NoConn, Connection, Loop
<1>3. PICK sent \in Ascending(Replayed(k)) :
        conn' = [conn EXCEPT ![c].loaded = TRUE, ![c].pending = {},
                             ![c].wire = @ \o sent, ![c].watermark = Top(k, sent)]
  BY DEF SendHistory, Top
<1>. DEFINE top == Top(k, sent)
<1>4. /\ sent \in Seq(Numbers) /\ Rising(sent) /\ Elements(sent) = Replayed(k)
      /\ top \in Nat /\ k.watermark <= top
      /\ top = k.watermark \/ top \in Replayed(k)
      /\ \A n \in Replayed(k) : n <= top
  BY <1>0, ReplayTypes
<1>5. <<>> \o sent = sent
  BY <1>4
<1>. HIDE DEF top
<1>6. /\ k2.loaded = TRUE /\ k2.pending = {} /\ k2.wire = sent /\ k2.watermark = top
      /\ k2.open = k.open /\ k2.read = k.read /\ k2.history = k.history
  BY <1>0, <1>2, <1>3, <1>5 DEF Connection, StreamTypeOK, top
<1>7. \A n \in Replayed(k) : n > l.lastId /\ n \in 1..committed
  BY <1>0, <1>2, LogTypes DEF Replayed
<1>8. ClientInv(c)'
  BY <1>0, <1>1 DEF FollowerInv, ClientInv
<1>9. ConnectionInv(c)'
  <2>1. top <= committed
    BY <1>2, <1>4, <1>7
  <2>2. \A n \in Elements(sent) : l.lastId < n /\ n <= top
    BY <1>4, <1>7
  <2>. QED
    BY <1>0, <1>1, <1>2, <1>4, <1>6, <2>1, <2>2 DEF FollowerInv, ConnectionInv
<1>10. ASSUME c \in channel, NEW n \in 1..committed, n > top
       PROVE  n \in Excusable
  <2>1. n \notin Replayed(k) /\ n \in Numbers /\ n > k.watermark
    BY <1>0, <1>2, <1>4, <1>10
  <2>2. ~(n <= k.history) /\ n \notin k.pending
    BY <2>1 DEF Replayed
  <2>3. n > k.history
    BY <1>2, <2>2
  <2>. QED
    BY <1>0, <1>1, <1>10, <2>2, <2>3 DEF FollowerInv, HandoverInv
<1>11. ASSUME NEW n \in 1..top, n > l.lastId
       PROVE  n \in Elements(sent) \cup irregular
  <2>1. top \in Replayed(k) /\ top \in 1..committed
    BY <1>2, <1>4, <1>7, <1>11
  <2>2. n \in 1..committed /\ n \in Numbers
    BY <1>0, <1>4, <2>1
  <2>3. CASE n \in Replayed(k)
    BY <1>4, <2>3
  <2>4. CASE n \notin Replayed(k)
    <3>1. n > k.history /\ n \notin k.pending
      BY <1>2, <1>11, <2>2, <2>4 DEF Replayed
    <3>2. top \in k.pending /\ n < top
      BY <1>2, <1>4, <2>1, <2>4, <3>1 DEF Replayed
    <3>. QED
      BY <1>0, <1>1, <2>2, <3>1, <3>2 DEF FollowerInv, HandoverInv
  <2>. QED
    BY <2>3, <2>4
<1>12. HandoverInv(c)'
  BY <1>1, <1>4, <1>6, <1>10, <1>11 DEF HandoverInv, Excusable
<1>. QED
  BY <1>8, <1>9, <1>12 DEF FollowerInv

(* A new connection starts where the client has stopped.                   *)
LEMMA ConnectKept ==
  ASSUME StreamInv, NEW c \in Clients, Connect(c)
  PROVE  FollowerInv(c)'
<1>. DEFINE l == loop[c]
            k2 == conn'[c]
<1>0. FollowerInv(c) /\ l \in Loop /\ committed \in Nat
  BY LogTypes, ConnectionTypes DEF StreamInv
<1>1. /\ UNCHANGED <<story, committed, unpublished, irregular>>
      /\ loop'[c].state = "live" /\ loop'[c].lastId = l.lastId
      /\ loop'[c].seen = l.seen /\ loop'[c].given = l.given
      /\ k2 = Connected(l.lastId)
  BY <1>0 DEF Connect, backend, Loop, StreamInv, StreamTypeOK
<1>2. /\ k2.open = TRUE /\ k2.watermark = l.lastId /\ k2.read = FALSE /\ k2.loaded = FALSE
      /\ k2.history = 0 /\ k2.pending = {} /\ k2.wire = <<>>
  BY <1>1 DEF Connected, NoConn
<1>3. Rising(<<>>) /\ Elements(<<>>) = {}
  BY DEF Rising, Elements
<1>4. l.lastId \in Nat /\ l.lastId <= committed
  BY <1>0 DEF FollowerInv, ClientInv, Loop
<1>5. ClientInv(c)'
  BY <1>0, <1>1 DEF FollowerInv, ClientInv
<1>6. ConnectionInv(c)'
  BY <1>0, <1>1, <1>2, <1>3, <1>4 DEF ConnectionInv
<1>7. HandoverInv(c)'
  BY <1>2 DEF HandoverInv
<1>. QED
  BY <1>5, <1>6, <1>7 DEF FollowerInv

(* A stream starts after the events that were persisted.                   *)
LEMMA OpenKept ==
  ASSUME StreamInv, NEW c \in Clients, NEW n \in 0..committed, Open(c, n),
         UNCHANGED <<backend, channel, conn>>
  PROVE  FollowerInv(c)'
<1>0. FollowerInv(c) /\ committed \in Nat
  BY LogTypes DEF StreamInv
<1>1. /\ UNCHANGED <<story, committed, unpublished, irregular>>
      /\ loop'[c].state = "connecting" /\ loop'[c].lastId = n
      /\ loop'[c].seen = 1..n /\ loop'[c].given = <<>>
      /\ conn[c] = NoConn /\ c \notin channel
  BY <1>0 DEF Open, backend, NotStarted, StreamInv, StreamTypeOK, FollowerInv, ConnectionInv
<1>2. Rising(<<>>) /\ Elements(<<>>) = {}
  BY DEF Rising, Elements
<1>3. ClientInv(c)'
  BY <1>0, <1>1, <1>2 DEF ClientInv
<1>4. ConnectionInv(c)' /\ HandoverInv(c)'
  BY <1>0, <1>1, <1>2 DEF ConnectionInv, HandoverInv, NoConn
<1>. QED
  BY <1>3, <1>4 DEF FollowerInv

(* A frame is the next number above the Last-Event-ID that was not passed  *)
(* over.                                                                   *)
LEMMA ReceiveKept ==
  ASSUME StreamInv, NEW c \in Clients, Receive(c)
  PROVE  FollowerInv(c)'
<1>. DEFINE k == conn[c]
            l == loop[c]
            k2 == conn'[c]
            l2 == loop'[c]
            n == Head(k.wire)
<1>0. /\ StreamTypeOK /\ FollowerInv(c) /\ k \in Connection /\ l \in Loop
      /\ committed \in Nat /\ Numbers \in SUBSET Nat
  BY LogTypes, ConnectionTypes DEF StreamInv
<1>1. /\ UNCHANGED <<story, committed, unpublished, irregular>>
      /\ l.state = "live" /\ k.wire # <<>>
  BY DEF Receive, backend
<1>2. /\ k.open /\ k.loaded /\ k.read /\ Rising(k.wire) /\ k.wire \in Seq(Numbers)
      /\ k.watermark <= committed
      /\ \A m \in Elements(k.wire) : l.lastId < m /\ m <= k.watermark
      /\ l.lastId \in Nat /\ k.watermark \in Nat
  BY <1>0, <1>1 DEF FollowerInv, ConnectionInv, Connection, Loop
<1>3. /\ n \in Elements(k.wire) /\ n \in Numbers /\ Rising(Tail(k.wire))
      /\ Elements(k.wire) = {n} \cup Elements(Tail(k.wire))
      /\ \A m \in Elements(Tail(k.wire)) : n < m
  BY <1>0, <1>1, <1>2, RisingTail
<1>4. n \in Nat /\ l.lastId < n /\ n <= k.watermark /\ n <= committed
  <2>. HIDE DEF n
  <2>1. n \in Nat
    BY <1>0, <1>3
  <2>. QED
    BY <1>0, <1>2, <1>3, <2>1
<1>5. /\ l.lastId <= committed /\ l.seen \subseteq 1..l.lastId
      /\ Elements(l.given) \subseteq l.seen /\ Rising(l.given)
      /\ l.given \in Seq(Numbers)
      /\ \A m \in 1..l.lastId : m \in l.seen \cup irregular
      /\ \A m \in l.seen \ Elements(l.given), g \in Elements(l.given) : m < g
  BY <1>0 DEF FollowerInv, ClientInv, Loop
<1>6. New(l, n)
  BY <1>2, <1>4, <1>5 DEF New
<1>7. /\ l2.state = (IF EndsRun(story[n]) THEN "ended" ELSE "live")
      /\ l2.lastId = n /\ l2.seen = l.seen \cup {n} /\ l2.given = Append(l.given, n)
  <2>1. loop' = [loop EXCEPT ![c] = [state  |-> IF EndsRun(story[n]) THEN "ended" ELSE "live",
                                     lastId |-> n, seen |-> l.seen \cup {n},
                                     given  |-> Append(l.given, n)]]
    BY <1>6 DEF Receive
  <2>2. loop \in [Clients -> Loop]
    BY <1>0 DEF StreamTypeOK, Loop
  <2>. HIDE DEF n
  <2>3. l2 = [state  |-> IF EndsRun(story[n]) THEN "ended" ELSE "live",
              lastId |-> n, seen |-> l.seen \cup {n}, given  |-> Append(l.given, n)]
    BY <2>1, <2>2
  <2>. QED
    BY <2>3
<1>. HIDE DEF l2, n
<1>8. Rising(l2.given) /\ Elements(l2.given) = Elements(l.given) \cup {n}
  <2>1. \A m \in Elements(l.given) : m < n
    BY <1>2, <1>4, <1>5
  <2>. QED
    <3>1. /\ Rising(Append(l.given, n))
          /\ Elements(Append(l.given, n)) = Elements(l.given) \cup {n}
      BY <1>0, <1>3, <1>5, <2>1, RisingAppend
    <3>. QED
      BY <1>7, <3>1
<1>9. ClientInv(c)'
  <2>1. \A m \in l.seen : m < n /\ m \in 1..n
    BY <1>2, <1>4, <1>5
  <2>2. ASSUME NEW m \in 1..n
        PROVE  m \in l2.seen \cup irregular
    <3>1. CASE m \in 1..l.lastId
      BY <1>5, <1>7, <3>1
    <3>2. CASE m = n
      BY <1>7, <3>2
    <3>3. CASE m > l.lastId /\ m < n
      <4>1. m \in Elements(k.wire) \cup irregular
        BY <1>0, <1>2, <1>4, <3>3 DEF FollowerInv, HandoverInv
      <4>2. m \notin Elements(k.wire)
        BY <1>3, <1>4, <3>3
      <4>. QED
        BY <4>1, <4>2
    <3>. QED
      BY <1>2, <1>4, <3>1, <3>2, <3>3
  <2>3. l2.seen \subseteq 1..n /\ Elements(l2.given) \subseteq l2.seen
    <3>1. n \in 1..n
      BY <1>2, <1>4
    <3>. QED
      BY <1>5, <1>7, <1>8, <2>1, <3>1
  <2>4. ASSUME NEW m \in l2.seen \ Elements(l2.given), NEW g \in Elements(l2.given)
        PROVE  m < g
    BY <1>5, <1>7, <1>8, <2>1
  <2>. QED
    BY <1>1, <1>4, <1>7, <1>8, <2>2, <2>3, <2>4 DEF ClientInv, l2
<1>10. CASE EndsRun(story[n])
  <2>1. Hangup(c)
    BY <1>10 DEF Receive, n
  <2>2. k2 = NoConn /\ c \notin channel' /\ l2.state # "live"
    BY <1>0, <1>7, <1>10, <2>1 DEF Hangup, StreamTypeOK
  <2>3. NoConn.wire = <<>> /\ Rising(<<>>) /\ Elements(<<>>) = {}
    BY DEF NoConn, Rising, Elements
  <2>4. ConnectionInv(c)'
    BY <1>0, <1>1, <2>2, <2>3 DEF ConnectionInv, NoConn, l2
  <2>5. HandoverInv(c)'
    BY <2>2 DEF HandoverInv, NoConn
  <2>. QED
    BY <1>9, <2>4, <2>5 DEF FollowerInv
<1>11. CASE ~EndsRun(story[n])
  <2>1. /\ conn' = [conn EXCEPT ![c].wire = Tail(@)] /\ UNCHANGED channel
        /\ l2.state = "live"
    BY <1>7, <1>11 DEF Receive, n
  <2>2. /\ k2.wire = Tail(k.wire) /\ k2.open = k.open /\ k2.read = k.read
        /\ k2.loaded = k.loaded /\ k2.watermark = k.watermark
        /\ k2.history = k.history /\ k2.pending = k.pending
    BY <1>0, <2>1 DEF Connection, StreamTypeOK
  <2>3. ConnectionInv(c)'
    BY <1>0, <1>1, <1>2, <1>3, <1>4, <1>7, <2>1, <2>2 DEF FollowerInv, ConnectionInv, l2
  <2>4. ASSUME NEW m \in 1..k.watermark, m > n
        PROVE  m \in Elements(Tail(k.wire)) \cup irregular
    <3>1. m > l.lastId /\ m # n
      BY <1>2, <1>4, <2>4
    <3>. QED
      BY <1>0, <1>2, <1>3, <3>1 DEF FollowerInv, HandoverInv
  <2>5. c \in channel => \A m \in 1..committed : m > k.watermark => m \in Excusable
    BY <1>0, <1>2 DEF FollowerInv, HandoverInv
  <2>6. HandoverInv(c)'
    BY <1>1, <1>2, <1>7, <2>1, <2>2, <2>4, <2>5 DEF HandoverInv, Excusable, l2
  <2>. QED
    BY <1>9, <2>3, <2>6 DEF FollowerInv
<1>. QED
  BY <1>10, <1>11

(* A step of one client, or of its connection, leaves the others alone.    *)
LEMMA OthersKept ==
  ASSUME StreamInv, StreamTypeOK', UNCHANGED backend, NEW c \in Clients, NEW d \in Clients,
         d # c, conn'[d] = conn[d], loop'[d] = loop[d],
         channel' \in {channel, channel \cup {c}, channel \ {c}}
  PROVE  FollowerInv(d)'
<1>1. /\ StreamTypeOK /\ FollowerInv(d)
      /\ UNCHANGED <<committed, unpublished, irregular>>
      /\ d \in channel' <=> d \in channel
      /\ committed \in Nat
  BY LogTypes DEF StreamInv, backend
<1>2. Excusable' = Excusable
  BY <1>1 DEF Excusable
<1>. QED
  BY <1>1, <1>2, Untouched

-----------------------------------------------------------------------------
(* The theorems.                                                           *)

(* Before anything is committed there is nothing to follow.                *)
LEMMA StreamInitInv == StreamInit => StreamInv
<1>. SUFFICES ASSUME StreamInit PROVE StreamInv
  OBVIOUS
<1>1. story \in Seq(EventRecord)
  BY StoriesAssumption DEF StreamInit
<1>2. Len(story) \in Nat
  BY <1>1
<1>3. /\ conn = [c \in Clients |-> NoConn] /\ loop = [c \in Clients |-> NotStarted]
      /\ committed = 0 /\ channel = {} /\ unpublished = {} /\ irregular = {} /\ faults = 0
      /\ story \in Stories
  BY DEF StreamInit
<1>4. NoConn \in Connection
  BY DEF NoConn, Connection
<1>5. NotStarted \in Loop
  BY DEF NotStarted, Loop
<1>6. StreamTypeOK
  BY <1>2, <1>3, <1>4, <1>5, StreamFaultsAssumption DEF StreamTypeOK, Connection, Loop
<1>7. Rising(<<>>) /\ Elements(<<>>) = {}
  BY DEF Rising, Elements
<1>8. ASSUME NEW c \in Clients
      PROVE  FollowerInv(c)
  <2>1. conn[c] = NoConn /\ loop[c] = NotStarted
    BY <1>3
  <2>2. ClientInv(c)
    BY <1>3, <1>7, <2>1 DEF ClientInv, NotStarted
  <2>3. ConnectionInv(c)
    BY <1>3, <1>7, <2>1 DEF ConnectionInv, NoConn, NotStarted
  <2>4. HandoverInv(c)
    BY <2>1 DEF HandoverInv, NoConn
  <2>. QED
    BY <2>2, <2>3, <2>4 DEF FollowerInv
<1>. QED
  BY <1>6, <1>8 DEF StreamInv

(* Every step of a client or of its connection keeps every client's        *)
(* invariant.                                                              *)
LEMMA ClientStepKept ==
  ASSUME StreamInv, StreamTypeOK', NEW c \in Clients,
         Server(c) \/ Start(c) \/ Connect(c) \/ Receive(c) \/ Stop(c) \/ Refuse(c) \/ Break(c)
  PROVE  \A d \in Clients : FollowerInv(d)'
<1>0. /\ StreamTypeOK /\ \A d \in Clients : FollowerInv(d)
      /\ committed \in Nat
      /\ conn \in [Clients -> Connection] /\ loop \in [Clients -> Loop]
  BY LogTypes DEF StreamInv, StreamTypeOK, Connection, Loop
<1>1. /\ UNCHANGED <<story, committed, unpublished, irregular>>
      /\ channel' \in {channel, channel \cup {c}, channel \ {c}}
      /\ \A d \in Clients \ {c} : conn'[d] = conn[d] /\ loop'[d] = loop[d]
  <2>1. CASE Server(c)
    BY <1>0, <2>1 DEF Server, QueryHistory, SendHistory, backend
  <2>2. CASE Start(c)
    BY <1>0, <2>2 DEF Start, Open, backend
  <2>3. CASE Connect(c) \/ Refuse(c)
    BY <1>0, <2>3 DEF Connect, Refuse, backend
  <2>4. CASE Stop(c) \/ Break(c)
    BY <1>0, <2>4 DEF Stop, Abort, Break, Hangup, backend
  <2>5. CASE Receive(c)
    <3>1. /\ UNCHANGED <<story, committed, unpublished, irregular>>
          /\ \A d \in Clients \ {c} : loop'[d] = loop[d]
      BY <1>0, <2>5 DEF Receive, backend
    <3>2. CASE Hangup(c)
      BY <1>0, <3>1, <3>2 DEF Hangup
    <3>3. CASE conn' = [conn EXCEPT ![c].wire = Tail(@)] /\ UNCHANGED channel
      BY <1>0, <3>1, <3>3
    <3>. QED
      BY <2>5, <3>2, <3>3 DEF Receive
  <2>. QED
    BY <2>1, <2>2, <2>3, <2>4, <2>5
<1>2. \A d \in Clients \ {c} : FollowerInv(d)'
  BY <1>1, OthersKept DEF backend
<1>3. FollowerInv(c)'
  <2>1. CASE Server(c)
    BY <2>1, QueryKept, ReplayKept DEF Server
  <2>2. CASE Start(c)
    BY <2>2, OpenKept DEF Start
  <2>3. CASE Connect(c)
    BY <2>3, ConnectKept
  <2>4. CASE Receive(c)
    BY <2>4, ReceiveKept
  <2>5. CASE Refuse(c)
    <3>1. conn[c] = NoConn /\ c \notin channel
      BY <1>0, <2>5 DEF Refuse, FollowerInv, ConnectionInv
    <3>2. /\ conn'[c] = NoConn /\ c \notin channel' /\ loop'[c].state # "live"
          /\ loop'[c].lastId = loop[c].lastId /\ loop'[c].seen = loop[c].seen
          /\ loop'[c].given = loop[c].given
      BY <1>0, <2>5, <3>1 DEF Refuse, Loop
    <3>. QED
      BY <1>0, <1>1, <3>2, Gone
  <2>6. CASE Stop(c) \/ Break(c)
    <3>1. /\ conn'[c] = NoConn /\ c \notin channel' /\ loop'[c].state # "live"
          /\ loop'[c].lastId = loop[c].lastId /\ loop'[c].seen = loop[c].seen
          /\ loop'[c].given = loop[c].given
      BY <1>0, <2>6 DEF Stop, Abort, Break, Hangup, Loop
    <3>. QED
      BY <1>0, <1>1, <3>1, Gone
  <2>. QED
    BY <2>1, <2>2, <2>3, <2>4, <2>5, <2>6
<1>. QED
  BY <1>2, <1>3

(* Every step keeps the invariant.                                         *)
LEMMA StreamNextInv == StreamInv /\ [StreamNext]_streamVars => StreamInv'
<1>. SUFFICES ASSUME StreamInv, [StreamNext]_streamVars PROVE StreamInv'
  OBVIOUS
<1>0. /\ StreamTypeOK /\ \A c \in Clients : FollowerInv(c)
      /\ committed \in Nat
      /\ loop \in [Clients -> Loop]
  BY LogTypes DEF StreamInv, StreamTypeOK, Loop
<1>1. CASE UNCHANGED streamVars
  BY <1>0, <1>1 DEF streamVars, StreamInv, StreamTypeOK, Numbers, FollowerInv, ClientInv,
                    ConnectionInv, HandoverInv, Excusable
<1>2. CASE StreamNext
  <2>0. StreamTypeOK'
    BY <1>2, StreamTypesKept
  <2>1. CASE Commit
    <3>1. /\ UNCHANGED <<irregular, channel, conn, loop>> /\ committed' = committed + 1
          /\ Excusable' = Excusable \cup {committed'}
      BY <2>1 DEF Commit, Excusable
    <3>2. \A n \in 1..committed' : n > committed => n \in Excusable'
      BY <1>0, <3>1
    <3>. QED
      BY <1>0, <2>0, <3>1, <3>2, Untouched DEF StreamInv
  <2>2. ASSUME NEW n \in unpublished, Publish(n)
        PROVE  StreamInv'
    BY <2>0, <2>2, PublishKept DEF StreamInv
  <2>3. ASSUME NEW n \in unpublished, LosePublication(n)
        PROVE  StreamInv'
    <3>1. /\ UNCHANGED <<committed, channel, conn, loop>>
          /\ irregular \subseteq irregular' /\ Excusable' = Excusable
      BY <2>3 DEF LosePublication, Excusable
    <3>. QED
      BY <1>0, <2>0, <3>1, Untouched DEF StreamInv
  <2>4. CASE Restart
    <3>1. ASSUME NEW c \in Clients
          PROVE  /\ conn'[c] = NoConn /\ c \notin channel' /\ loop'[c].state # "live"
                 /\ loop'[c].lastId = loop[c].lastId /\ loop'[c].seen = loop[c].seen
                 /\ loop'[c].given = loop[c].given
                 /\ committed' = committed /\ irregular' = irregular
      BY <1>0, <2>4 DEF Restart, Disconnected, Loop
    <3>. QED
      BY <1>0, <2>0, <3>1, Gone DEF StreamInv
  <2>5. ASSUME NEW c \in Clients,
               Server(c) \/ Start(c) \/ Connect(c) \/ Receive(c) \/ Stop(c) \/ Refuse(c) \/ Break(c)
        PROVE  StreamInv'
    BY <2>0, <2>5, ClientStepKept DEF StreamInv
  <2>. QED
    BY <1>2, <2>1, <2>2, <2>3, <2>4, <2>5 DEF StreamNext, Publisher
<1>. QED
  BY <1>1, <1>2

(* The inductive invariant holds in every reachable state.                 *)
THEOREM StreamInvariance == StreamSpec => []StreamInv
<1>. QED
  BY StreamInitInv, StreamNextInv, PTL DEF StreamSpec

(* Connections, loops and the log keep their types.                        *)
THEOREM StreamTypeCorrect == StreamSpec => []StreamTypeOK
<1>1. StreamInv => StreamTypeOK
  BY DEF StreamInv
<1>. QED
  BY <1>1, StreamInvariance, PTL

(* What the invariant says about one client is what the properties say.    *)
LEMMA GivenByInvariant == StreamInv => GivenInOrder
<1>1. ASSUME StreamInv, NEW c \in Clients
      PROVE  LET g == loop[c].given
                 persisted == loop[c].seen \ {g[i] : i \in 1..Len(g)}
             IN  /\ \A i, j \in 1..Len(g) : i < j => g[i] < g[j]
                 /\ \A n \in persisted, i \in 1..Len(g) : n < g[i]
  <2>. DEFINE g == loop[c].given
  <2>1. FollowerInv(c) /\ g \in Seq(Numbers)
    BY <1>1, ConnectionTypes DEF StreamInv, Loop
  <2>2. DOMAIN g = 1..Len(g)
    BY <2>1
  <2>3. Elements(g) = {g[i] : i \in 1..Len(g)}
    BY <2>2 DEF Elements
  <2>4. Rising(g) /\ \A m \in loop[c].seen \ Elements(g), n \in Elements(g) : m < n
    BY <2>1 DEF FollowerInv, ClientInv
  <2>. QED
    BY <2>2, <2>3, <2>4 DEF Rising
<1>. QED
  BY <1>1 DEF GivenInOrder

(* Over any number of reconnections, restarts, late and lost publications, *)
(* the page is given the events in order, once, and none that it had when  *)
(* it opened the stream.                                                   *)
THEOREM GivenInOrderCorrect == StreamSpec => []GivenInOrder
<1>. QED
  BY GivenByInvariant, StreamInvariance, PTL

(* Nothing is skipped between the history and the live events, nor by a    *)
(* resumption: what a browser lacks below its Last-Event-ID was published  *)
(* late or never.                                                          *)
THEOREM NothingSkippedCorrect == StreamSpec => []NothingSkipped
<1>1. StreamInv => NothingSkipped
  BY DEF StreamInv, FollowerInv, ClientInv, NothingSkipped
<1>. QED
  BY <1>1, StreamInvariance, PTL

-----------------------------------------------------------------------------
(* EventStream implements LiveTimeline.                                    *)

(* Without publications that go wrong there is never more than one event   *)
(* to publish, so none is published after a later one.                     *)
OneToPublish == ~MayMiss => \A m, n \in unpublished : m = n

LEMMA OneToPublishKept == StreamTypeOK /\ OneToPublish /\ [StreamNext]_streamVars => OneToPublish'
<1>. SUFFICES ASSUME StreamTypeOK, OneToPublish, [StreamNext]_streamVars, ~MayMiss
              PROVE  \A m, n \in unpublished' : m = n
  BY DEF OneToPublish
<1>1. \A m, n \in unpublished : m = n
  BY DEF OneToPublish
<1>2. CASE Commit
  BY <1>2 DEF Commit
<1>3. CASE unpublished' \subseteq unpublished
  BY <1>1, <1>3
<1>4. ASSUME ~Commit
      PROVE  unpublished' \subseteq unpublished
  <2>1. CASE UNCHANGED streamVars
    BY <2>1 DEF streamVars
  <2>2. ASSUME NEW n \in unpublished, Publish(n) \/ LosePublication(n)
        PROVE  unpublished' \subseteq unpublished
    BY <2>2 DEF Publish, LosePublication
  <2>3. CASE Restart
    BY <2>3 DEF Restart
  <2>4. ASSUME NEW c \in Clients,
               Server(c) \/ Start(c) \/ Connect(c) \/ Receive(c) \/ Stop(c) \/ Refuse(c) \/ Break(c)
        PROVE  unpublished' \subseteq unpublished
    BY <2>4 DEF Server, QueryHistory, SendHistory, Start, Connect, Receive, Stop, Refuse, Break, backend
  <2>. QED
    BY <1>4, <2>1, <2>2, <2>3, <2>4 DEF StreamNext, Publisher
<1>. QED
  BY <1>2, <1>3, <1>4

(* What a step of one loop is to its page.                                 *)
LEMMA PageTurns ==
  ASSUME StreamTypeOK, NEW c \in Clients, NEW l, loop' = [loop EXCEPT ![c] = l],
         UNCHANGED <<story, committed, irregular>>
  PROVE  /\ PageOf(l) = PageOf(loop[c]) => UNCHANGED Timeline!timeline
         /\ Timeline!Turn(c, PageOf(l))
<1>. DEFINE page == [d \in Clients |-> PageOf(loop[d])]
<1>1. loop'[c] = l /\ \A d \in Clients : d # c => loop'[d] = loop[d]
  BY DEF StreamTypeOK
<1>2. page' = [d \in Clients |-> PageOf(loop'[d])]
  BY DEF PageOf, Following
<1>3. page' = [page EXCEPT ![c] = PageOf(l)]
  <2>1. \A d \in Clients : PageOf(loop'[d]) = IF d = c THEN PageOf(l) ELSE PageOf(loop[d])
    <3>1. ASSUME NEW d \in Clients
          PROVE  PageOf(loop'[d]) = IF d = c THEN PageOf(l) ELSE PageOf(loop[d])
      <4>1. CASE d = c
        BY <1>1, <4>1 DEF PageOf, Following
      <4>2. CASE d # c
        BY <1>1, <4>2 DEF PageOf, Following
      <4>. QED
        BY <4>1, <4>2
    <3>. QED
      BY <3>1
  <2>2. [page EXCEPT ![c] = PageOf(l)] = [d \in Clients |-> IF d = c THEN PageOf(l) ELSE PageOf(loop[d])]
    OBVIOUS
  <2>. QED
    BY <1>2, <2>1, <2>2
<1>4. PageOf(l) = PageOf(loop[c]) => page' = page
  <2>1. PageOf(l) = PageOf(loop[c]) => \A d \in Clients : PageOf(loop'[d]) = PageOf(loop[d])
    BY <1>1, Zenon
  <2>. QED
    BY <1>2, <2>1
<1>. QED
  BY <1>3, <1>4 DEF Timeline!Turn, Timeline!timeline

(* The first message on the wire is the next event of the page.            *)
LEMMA HeadIsNext ==
  ASSUME StreamInv, NEW c \in Clients, loop[c].state = "live", conn[c].wire # <<>>
  PROVE  LET n == Head(conn[c].wire)
         IN  /\ n \in 1..committed
             /\ \A m \in loop[c].seen : m < n
             /\ \A m \in 1..(n - 1) : m \in loop[c].seen \cup irregular
<1>. DEFINE k == conn[c]
            l == loop[c]
            n == Head(conn[c].wire)
<1>1. /\ StreamTypeOK /\ FollowerInv(c) /\ k \in Connection /\ l \in Loop
      /\ committed \in Nat /\ Numbers \in SUBSET Nat
  BY LogTypes, ConnectionTypes DEF StreamInv
<1>2. /\ k.open /\ k.loaded /\ Rising(k.wire) /\ k.wire \in Seq(Numbers)
      /\ k.watermark <= committed /\ k.watermark \in Nat /\ l.lastId \in Nat
      /\ \A m \in Elements(k.wire) : l.lastId < m /\ m <= k.watermark
      /\ \A m \in 1..k.watermark : m > l.lastId => m \in Elements(k.wire) \cup irregular
  BY <1>1 DEF FollowerInv, ConnectionInv, HandoverInv, Connection, Loop
<1>3. /\ l.seen \subseteq 1..l.lastId
      /\ \A m \in 1..l.lastId : m \in l.seen \cup irregular
  BY <1>1 DEF FollowerInv, ClientInv
<1>4. /\ n \in Elements(k.wire) /\ n \in Numbers
      /\ Elements(k.wire) = {n} \cup Elements(Tail(k.wire))
      /\ \A m \in Elements(Tail(k.wire)) : n < m
  BY <1>1, <1>2, RisingTail
<1>. HIDE DEF n, k, l
<1>5. n \in Nat /\ l.lastId < n /\ n <= k.watermark
  BY <1>1, <1>2, <1>4
<1>6. n \in 1..committed /\ \A m \in l.seen : m < n
  BY <1>1, <1>2, <1>3, <1>5
<1>7. ASSUME NEW m \in 1..(n - 1)
      PROVE  m \in l.seen \cup irregular
  <2>1. CASE m <= l.lastId
    BY <1>2, <1>3, <1>5, <2>1
  <2>2. CASE m > l.lastId
    <3>1. m \in Elements(k.wire) \cup irregular
      BY <1>2, <1>5, <2>2
    <3>2. m \notin Elements(k.wire)
      BY <1>4, <1>5
    <3>. QED
      BY <3>1, <3>2
  <2>. QED
    BY <1>2, <1>5, <2>1, <2>2
<1>. QED
  BY <1>6, <1>7 DEF n, k, l

LEMMA TimelineStep ==
  StreamInv /\ OneToPublish /\ [StreamNext]_streamVars => [Timeline!Next]_(Timeline!timeline)
<1>. SUFFICES ASSUME StreamInv, OneToPublish, [StreamNext]_streamVars
              PROVE  [Timeline!Next]_(Timeline!timeline)
  OBVIOUS
<1>1. /\ StreamTypeOK /\ Len(story) \in Nat /\ committed \in Nat /\ committed <= Len(story)
      /\ irregular \subseteq 1..committed /\ unpublished \subseteq 1..committed
      /\ loop \in [Clients -> Loop]
  BY LogTypes DEF StreamInv, StreamTypeOK, Loop
<1>2. CASE UNCHANGED streamVars
  BY <1>2 DEF streamVars, Timeline!timeline, PageOf, Following
<1>3. CASE Commit
  <2>1. Timeline!Record
    BY <1>3 DEF Commit, Timeline!Record, PageOf, Following
  <2>. QED
    BY <2>1 DEF Timeline!Next
<1>4. ASSUME NEW n \in unpublished, Publish(n)
      PROVE  [Timeline!Next]_(Timeline!timeline)
  <2>1. /\ irregular' = irregular \cup {m \in unpublished : m < n}
        /\ UNCHANGED <<story, committed, loop>>
    BY <1>4 DEF Publish
  <2>2. CASE MayMiss
    <3>1. Timeline!Excuse
      BY <1>1, <2>1, <2>2 DEF Timeline!Excuse, PageOf, Following
    <3>. QED
      BY <3>1 DEF Timeline!Next
  <2>3. CASE ~MayMiss
    <3>1. {m \in unpublished : m < n} = {}
      <4>1. \A m \in unpublished : m = n
        BY <2>3, Zenon DEF OneToPublish
      <4>2. ~(n < n)
        BY <1>1
      <4>. QED
        BY <4>1, <4>2, Zenon
    <3>. QED
      BY <2>1, <3>1 DEF Timeline!timeline, PageOf, Following
  <2>. QED
    BY <2>2, <2>3
<1>5. ASSUME NEW n \in unpublished, LosePublication(n)
      PROVE  [Timeline!Next]_(Timeline!timeline)
  <2>1. Timeline!Excuse
    BY <1>1, <1>5 DEF LosePublication, Timeline!Excuse, PageOf, Following
  <2>. QED
    BY <2>1 DEF Timeline!Next
<1>6. CASE Restart
  <2>1. UNCHANGED <<story, committed, irregular>>
        /\ loop' = [c \in Clients |-> Disconnected(loop[c])]
    BY <1>6 DEF Restart
  <2>2. \A c \in Clients : PageOf(loop'[c]) = PageOf(loop[c])
    BY <1>1, <2>1 DEF PageOf, Following, Disconnected, Loop
  <2>3. UNCHANGED [c \in Clients |-> PageOf(loop[c])]
    BY <2>2 DEF PageOf, Following
  <2>. QED
    BY <2>1, <2>3 DEF Timeline!timeline
<1>7. ASSUME NEW c \in Clients, NEW l, loop' = [loop EXCEPT ![c] = l],
             UNCHANGED <<story, committed, irregular>>,
             \/ PageOf(l) = PageOf(loop[c])
             \/ /\ Following(loop[c]) /\ PageOf(l) = [PageOf(loop[c]) EXCEPT !.state = "stopped"]
      PROVE  [Timeline!Next]_(Timeline!timeline)
  <2>1. CASE PageOf(l) = PageOf(loop[c])
    BY <1>1, <1>7, <2>1, PageTurns
  <2>2. CASE Following(loop[c]) /\ PageOf(l) = [PageOf(loop[c]) EXCEPT !.state = "stopped"]
    <3>1. Timeline!Turn(c, PageOf(l))
      BY <1>1, <1>7, PageTurns
    <3>2. PageOf(loop[c]).state = "following"
      BY <2>2 DEF PageOf, Following
    <3>3. Timeline!Stop(c)
      BY <2>2, <3>1, <3>2 DEF Timeline!Stop
    <3>. QED
      BY <3>3 DEF Timeline!Next
  <2>. QED
    BY <1>7, <2>1, <2>2
<1>8. ASSUME NEW c \in Clients, Server(c)
      PROVE  [Timeline!Next]_(Timeline!timeline)
  <2>1. UNCHANGED <<story, committed, irregular, loop>>
    BY <1>8 DEF Server, QueryHistory, SendHistory, backend
  <2>. QED
    BY <2>1 DEF Timeline!timeline, PageOf, Following
<1>9. ASSUME NEW c \in Clients, Start(c)
      PROVE  [Timeline!Next]_(Timeline!timeline)
  <2>1. PICK k \in 0..committed : Open(c, k)
    BY <1>9 DEF Start
  <2>. DEFINE l == [NotStarted EXCEPT !.state = "connecting", !.lastId = k, !.seen = 1..k]
  <2>2. loop' = [loop EXCEPT ![c] = l] /\ loop[c].state = "idle"
        /\ UNCHANGED <<story, committed, irregular>>
    BY <1>9, <2>1 DEF Open, Start, backend
  <2>3. PageOf(l) = [state |-> "following", shown |-> 1..k] /\ PageOf(loop[c]).state = "idle"
    BY <2>2 DEF PageOf, Following, NotStarted
  <2>. HIDE DEF l
  <2>4. Timeline!Turn(c, PageOf(l))
    BY <1>1, <2>2, PageTurns
  <2>5. Timeline!Open(c, k)
    BY <2>3, <2>4 DEF Timeline!Open
  <2>. QED
    BY <2>5 DEF Timeline!Next
<1>10. ASSUME NEW c \in Clients, Connect(c) \/ Break(c) \/ Refuse(c) \/ Stop(c)
       PROVE  [Timeline!Next]_(Timeline!timeline)
  <2>1. PICK state : /\ loop' = [loop EXCEPT ![c] = [loop[c] EXCEPT !.state = state]]
                     /\ Following(loop[c]) /\ UNCHANGED <<story, committed, irregular>>
                     /\ state \in {"connecting", "live", "fatal", "aborted"}
    <3>1. CASE Connect(c)
      BY <3>1 DEF Connect, backend, Following
    <3>2. CASE Break(c)
      BY <3>2 DEF Break, backend, Following
    <3>3. CASE Refuse(c)
      BY <3>3 DEF Refuse, backend, Following
    <3>4. CASE Stop(c)
      BY <3>4 DEF Stop, Abort, backend, Following
    <3>. QED
      BY <1>10, <3>1, <3>2, <3>3, <3>4
  <2>. DEFINE l == [loop[c] EXCEPT !.state = state]
  <2>2. l.state = state /\ l.seen = loop[c].seen
    BY <1>1 DEF Loop
  <2>3. \/ PageOf(l) = PageOf(loop[c])
        \/ PageOf(l) = [PageOf(loop[c]) EXCEPT !.state = "stopped"]
    <3>. HIDE DEF l
    <3>. QED
      BY <2>1, <2>2 DEF PageOf, Following
  <2>4. loop' = [loop EXCEPT ![c] = l]
    BY <2>1
  <2>. HIDE DEF l
  <2>. QED
    BY <1>7, <2>1, <2>3, <2>4
<1>11. ASSUME NEW c \in Clients, Receive(c)
       PROVE  [Timeline!Next]_(Timeline!timeline)
  <2>. DEFINE n == Head(conn[c].wire)
              l == [state  |-> IF EndsRun(story[n]) THEN "ended" ELSE "live",
                    lastId |-> n,
                    seen   |-> loop[c].seen \cup {n},
                    given  |-> IF New(loop[c], n) THEN Append(loop[c].given, n)
                               ELSE loop[c].given]
  <2>1. /\ loop' = [loop EXCEPT ![c] = l] /\ UNCHANGED <<story, committed, irregular>>
        /\ loop[c].state = "live" /\ conn[c].wire # <<>>
    BY <1>11 DEF Receive, backend
  <2>2. /\ n \in 1..committed
        /\ \A m \in loop[c].seen : m < n
        /\ \A m \in 1..(n - 1) : m \in loop[c].seen \cup irregular
    BY <2>1, HeadIsNext
  <2>3. PageOf(l) = [state |-> IF EndsRun(story[n]) THEN "stopped" ELSE "following",
                     shown |-> loop[c].seen \cup {n}]
    BY DEF PageOf, Following
  <2>4. PageOf(loop[c]).state = "following" /\ PageOf(loop[c]).shown = loop[c].seen
    BY <2>1 DEF PageOf, Following
  <2>. HIDE DEF l, n
  <2>5. Timeline!Turn(c, PageOf(l))
    BY <1>1, <2>1, PageTurns
  <2>6. Timeline!Show(c, n)
    BY <2>2, <2>3, <2>4, <2>5 DEF Timeline!Show, Timeline!EndsRun, EndsRun
  <2>. QED
    BY <2>2, <2>6 DEF Timeline!Next
<1>. QED
  BY <1>2, <1>3, <1>4, <1>5, <1>6, <1>8, <1>9, <1>10, <1>11 DEF StreamNext, Publisher

(* Channels, connections, watermarks and retries implement a timeline that *)
(* grows event by event, without gaps but for publications that went wrong.*)
THEOREM TimelineRefinement == StreamSpec => ImplementsTimeline
<1>1. StreamInit => Timeline!Init
  BY DEF StreamInit, Timeline!Init, NotStarted, PageOf, Following
<1>2. StreamInit => OneToPublish
  BY DEF StreamInit, OneToPublish
<1>3. StreamInv /\ OneToPublish /\ [StreamNext]_streamVars => OneToPublish'
  BY OneToPublishKept DEF StreamInv
<1>4. StreamSpec => []OneToPublish
  BY <1>2, <1>3, StreamInvariance, PTL DEF StreamSpec
<1>. QED
  BY <1>1, <1>4, TimelineStep, StreamInvariance, PTL DEF StreamSpec, ImplementsTimeline, Timeline!Spec
=============================================================================
