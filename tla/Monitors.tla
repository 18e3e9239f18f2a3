------------------------------ MODULE Monitors ------------------------------
(***************************************************************************)
(* How the ingestion adapters turn what they poll into events.             *)
(*                                                                         *)
(* An adapter remembers what it last saw of every thing it watches (a      *)
(* container, a certificate, an alarm) and decides from that memory and    *)
(* the new answer whether to publish an alarm, a clear or nothing.  This   *)
(* module gives the vocabulary; the modules that extend it hold one rule   *)
(* per monitored aspect and one loop per adapter.                          *)
(***************************************************************************)
EXTENDS Integers, Sequences

CONSTANTS
  Unknown,   \* the adapter has no memory of the thing
  Absent     \* the thing is not in the answer, or the answer says nothing of it

\* What a rule says when `n` is learned while `o` was remembered.  The two
\* differ in what they do with a thing that is seen for the first time.
Changes(good, bad) ==                               \* silent at first sight
  [o \in good \union bad \union {Unknown} |-> [n \in good \union bad |->
     IF o \in {Unknown, n} THEN "nothing"
     ELSE IF n \in bad THEN "alarm"
     ELSE IF o \in bad THEN "clear" ELSE "nothing"]]

FromFirst(good, bad) ==                      \* a bad first sight is reported
  [o \in good \union bad \union {Unknown} |-> [n \in good \union bad |->
     IF o = n THEN "nothing"
     ELSE IF n \in bad THEN "alarm"
     ELSE IF o \in bad THEN "clear" ELSE "nothing"]]

\* Only the beginning of something bad is reported, never its end.
Onsets(good, bad) ==
  [o \in good \union bad \union {Unknown} |-> [n \in good \union bad |->
     IF n \in bad /\ o \notin bad THEN "alarm" ELSE "nothing"]]

\* What is found is what is remembered.
AsFound(good, bad) ==
  [o \in good \union bad \union {Unknown} |-> [a \in good \union bad |-> a]]

\* A rule.  What varies from the defaults is given with EXCEPT:
\*   group        the poll function, by its position in the loop
\*   key          the dedup key of its events; errorKey: of those about errors
\*   answers      what a poll can find; learns: what is remembered of it
\*   absent       the memory of a thing no longer answered for: kept or forgotten
\*   failed       the state a fetch error the poll function swallows stands for
\*   forgottenBy  the groups whose swallowed error erases the memory
\*   outage       the same for an error that ends the poll
\*   kept         FALSE: nothing is remembered, every sight is reported
\*   since        an occurrence is seen by the poll that follows it only: it is
\*                gone after any "attempt", or after a "success"
Rule(adapter, group, key, good, bad, says) ==
  [adapter |-> adapter, group |-> group, key |-> key, errorKey |-> key,
   good |-> good, bad |-> bad, says |-> says,
   answers |-> good \union bad \union {Absent},
   learns |-> AsFound(good, bad),
   absent |-> "keep", failed |-> "keep", forgottenBy |-> {}, outage |-> "keep",
   kept |-> TRUE, since |-> "never"]

\* Something reported at every sight.
Sight(adapter, group, key) ==
  [Rule(adapter, group, key, {}, {"occurred"}, Onsets({}, {"occurred"}))
     EXCEPT !.kept = FALSE]

\* The reachability of the polled service itself: a poll that ends with an
\* answer means "up", one that ends with an error "down".
Service(adapter, key) ==
  [Rule(adapter, 1, key, {"up"}, {"down"}, FromFirst({"up"}, {"down"}))
     EXCEPT !.answers = {"up"}, !.outage = "down"]

\* A polling loop:
\*   connect   "none": a session per poll; "once": start() gives up when the
\*             first connection fails; "retry": it tries again with a backoff;
\*             "stream": the connection is held and made again when it breaks;
\*             "held": it is held and never made again
\*   groups    how many poll functions a round calls, in order
\*   isolated  each poll function has its own error handler; otherwise an
\*             error ends the round
\*   quiet     the poll functions that swallow a fetch error
\*   optional  those that are switched off when the service does not offer them
\*   backoff   the wait grows while rounds fail
\*   catchall  an unexpected exception is treated as an outage too
Loop(connect, groups) ==
  [connect |-> connect, groups |-> groups, isolated |-> FALSE, quiet |-> {},
   optional |-> {}, backoff |-> FALSE, catchall |-> FALSE, adaptive |-> FALSE]
=============================================================================
