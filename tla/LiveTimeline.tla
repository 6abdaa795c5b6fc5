---------------------------- MODULE LiveTimeline ----------------------------
(***************************************************************************)
(* What the stream of a run promises a page, without channels, watermarks, *)
(* connections or retries: a timeline grows at its end, one event at a     *)
(* time, leaves out nothing but what was excused, and stops by itself at   *)
(* the end of the run and nowhere else.                                    *)
(***************************************************************************)
EXTENDS RunEvents, Integers, Sequences

CONSTANTS Clients, Stories,
          MayMiss  \* whether an event may be excused from being shown

VARIABLES
  story,    \* the log the run will have
  recorded, \* how many of its events there are
  excused,  \* events announced late or never
  page      \* c -> [state, shown]: the events on its timeline

timeline == <<story, recorded, excused, page>>

Init ==
  /\ story \in Stories
  /\ recorded = 0
  /\ excused = {}
  /\ page = [c \in Clients |-> [state |-> "idle", shown |-> {}]]

Record ==
  /\ recorded < Len(story)
  /\ recorded' = recorded + 1
  /\ UNCHANGED <<story, excused, page>>

Excuse ==
  /\ MayMiss
  /\ excused' \in SUBSET (1..recorded) /\ excused \subseteq excused'
  /\ UNCHANGED <<story, recorded, page>>

Turn(c, p) == page' = [page EXCEPT ![c] = p] /\ UNCHANGED <<story, recorded, excused>>

\* A page has loaded the events 1..k and follows the run from there.
Open(c, k) ==
  /\ page[c].state = "idle"
  /\ Turn(c, [state |-> "following", shown |-> 1..k])

\* The next event, above all others, with no gap below it that is not excused.
Show(c, n) ==
  /\ page[c].state = "following"
  /\ \A m \in page[c].shown : m < n
  /\ \A m \in 1..(n - 1) : m \in page[c].shown \cup excused
  /\ Turn(c, [state |-> IF EndsRun(story[n]) THEN "stopped" ELSE "following",
              shown |-> page[c].shown \cup {n}])

\* The user leaves, or the server refuses.
Stop(c) ==
  /\ page[c].state = "following"
  /\ Turn(c, [page[c] EXCEPT !.state = "stopped"])

Next ==
  \/ Record
  \/ Excuse
  \/ \E c \in Clients : \/ \E k \in 0..recorded : Open(c, k)
                        \/ \E n \in 1..recorded : Show(c, n)
                        \/ Stop(c)

Spec == Init /\ [][Next]_timeline

=============================================================================
