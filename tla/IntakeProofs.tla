---------------------------- MODULE IntakeProofs ----------------------------
(***************************************************************************)
(* The gates of Intake, for any entities, systems, window and threshold.   *)
(***************************************************************************)
EXTENDS Intake, FiniteSetTheorems, TLAPS

\* What is left of the groups when an event reaches the correlator.
LEMMA PrunedGroups ==
  ASSUME TypeOK, NEW s \in System
  PROVE  /\ Pruned \in [System -> Group]
         /\ Pruned[s] # NoGroup =>
              /\ Window > 0 /\ Pruned[s] = group[s]
              /\ group[s].leader # NoEvent
              /\ now - group[s].start <= Window
         /\ Pruned[s] = NoGroup =>
              \/ Window = 0
              \/ group[s].leader = NoEvent
              \/ now - group[s].start > Window
  <1>1. NoGroup \in Group
    BY IntakeAssumption DEF NoGroup, Group, NoEvent
  <1>2. Pruned \in [System -> Group]
    BY <1>1 DEF TypeOK, Pruned
  <1>3. Window \in Nat /\ now \in Nat /\ group[s].start \in Nat
    BY IntakeAssumption DEF TypeOK, Group
  <1>4. Pruned[s] = IF Window > 0 /\ Open(s) THEN group[s] ELSE NoGroup
    BY DEF Pruned
  <1>5. Open(s) => group[s] # NoGroup
    BY DEF Open, NoGroup
  <1>. QED
    BY <1>2, <1>3, <1>4, <1>5 DEF Open

\* The log after an event: what it held, and the event.
LEMMA LogGrows ==
  ASSUME TypeOK, taken < MaxEvents, NEW e \in Entity, NEW t \in Type,
         NEW fate \in Fate, NEW leader \in Id \union {NoEvent},
         Entered(e, t, fate, leader)
  PROVE  /\ taken \in Nat /\ taken' = taken + 1 /\ taken' \in 1..MaxEvents
         /\ log' \in [1..taken' -> Entry]
         /\ \A i \in 1..taken : log'[i] = log[i]
         /\ log'[taken + 1] = [entity |-> e, type |-> t, at |-> now,
                               fate |-> fate, leader |-> leader]
  <1>1. taken \in Nat /\ MaxEvents \in Nat
    BY IntakeAssumption DEF TypeOK
  <1>2. taken' = taken + 1 /\ taken' \in 1..MaxEvents
    BY <1>1 DEF Entered
  <1>3. now \in 0..MaxTime
    BY DEF TypeOK
  <1>4. \A i \in 1..taken : log[i] \in Entry
    BY DEF TypeOK
  <1>5. [entity |-> e, type |-> t, at |-> now, fate |-> fate, leader |-> leader]
          \in Entry
    BY <1>3 DEF Entry
  <1>6. log' = [i \in 1..(taken + 1) |->
                  IF i <= taken THEN log[i]
                  ELSE [entity |-> e, type |-> t, at |-> now, fate |-> fate,
                        leader |-> leader]]
    BY DEF Entered
  <1>7. \A i \in 1..(taken + 1) : i <= taken => i \in 1..taken
    BY <1>1
  <1>8. log' \in [1..(taken + 1) -> Entry]
    BY <1>4, <1>5, <1>6, <1>7
  <1>9. \A i \in 1..taken : i \in 1..(taken + 1) /\ i <= taken
    BY <1>1
  <1>10. taken + 1 \in 1..(taken + 1) /\ ~(taken + 1 <= taken)
    BY <1>1
  <1>. QED
    BY <1>1, <1>2, <1>6, <1>8, <1>9, <1>10

\* The leaders after an event.
LEMMA LedGrows ==
  ASSUME TypeOK, taken < MaxEvents, NEW e \in Entity, NEW t \in Type,
         NEW fate \in Fate, NEW leader \in Id \union {NoEvent},
         Entered(e, t, fate, leader), NEW s \in System
  PROVE  /\ Led(s) \subseteq 1..taken
         /\ Led(s)' = IF fate = "led" /\ SystemOf[e] = s
                      THEN Led(s) \union {taken + 1} ELSE Led(s)
  <1>1. /\ taken \in Nat /\ taken' = taken + 1
        /\ \A i \in 1..taken : log'[i] = log[i]
        /\ log'[taken + 1] = [entity |-> e, type |-> t, at |-> now,
                              fate |-> fate, leader |-> leader]
    BY LogGrows
  <1>2. 1..taken' = (1..taken) \union {taken + 1}
    BY <1>1
  <1>3. Led(s)' = {i \in 1..taken' : log'[i].fate = "led"
                                     /\ SystemOf[log'[i].entity] = s}
    BY DEF Led
  <1>4. /\ log'[taken + 1].fate = fate /\ log'[taken + 1].entity = e
    BY <1>1
  <1>. QED
    BY <1>1, <1>2, <1>3, <1>4 DEF Led

\* The clock does not go back while the log grows.
LEMMA ChronologicalGrows ==
  ASSUME TypeOK, Chronological, taken < MaxEvents, now' = now,
         NEW e \in Entity, NEW t \in Type, NEW fate \in Fate,
         NEW leader \in Id \union {NoEvent}, Entered(e, t, fate, leader)
  PROVE  Chronological'
  <1>1. /\ taken \in Nat /\ taken' = taken + 1
        /\ \A i \in 1..taken : log'[i] = log[i]
        /\ log'[taken + 1] = [entity |-> e, type |-> t, at |-> now,
                              fate |-> fate, leader |-> leader]
    BY LogGrows
  <1>2. now \in Nat /\ \A i \in 1..taken : log[i].at \in Nat
    BY DEF TypeOK, Entry
  <1>3. log'[taken + 1].at = now
    BY <1>1
  <1>4. \A i \in 1..taken' : i \in 1..taken \/ i = taken + 1
    BY <1>1
  <1>5. \A i \in 1..taken' : log'[i].at <= now
    BY <1>1, <1>2, <1>3, <1>4 DEF Chronological
  <1>6. ASSUME NEW i \in 1..taken', NEW j \in 1..taken', i <= j
        PROVE  log'[i].at <= log'[j].at
    <2>1. CASE j = taken + 1
      BY <1>3, <1>5, <2>1
    <2>2. CASE j \in 1..taken
      <3>1. i \in 1..taken
        BY <1>1, <1>6, <2>2
      <3>. QED
        BY <1>1, <1>6, <2>2, <3>1 DEF Chronological
    <2>. QED
      BY <1>4, <2>1, <2>2
  <1>. QED
    BY <1>5, <1>6 DEF Chronological

\* What is logged already stays as it was, followers included.
LEMMA FollowersStay ==
  ASSUME TypeOK, FollowersHaveALeader, taken < MaxEvents,
         NEW e \in Entity, NEW t \in Type, NEW fate \in Fate,
         NEW leader \in Id \union {NoEvent}, Entered(e, t, fate, leader),
         fate = "correlated" =>
           /\ leader \in Led(SystemOf[e])
           /\ now - log[leader].at <= Window
  PROVE  FollowersHaveALeader'
  <1>1. /\ taken \in Nat /\ taken' = taken + 1
        /\ \A i \in 1..taken : log'[i] = log[i]
        /\ log'[taken + 1] = [entity |-> e, type |-> t, at |-> now,
                              fate |-> fate, leader |-> leader]
    BY LogGrows
  <1>2. \A s \in System : Led(s) \subseteq 1..taken /\ Led(s) \subseteq Led(s)'
    BY LedGrows
  <1>3. \A i \in 1..taken : SystemOf[log[i].entity] \in System
    BY IntakeAssumption DEF TypeOK, Entry
  <1>4. SystemOf[e] \in System
    BY IntakeAssumption
  <1>5. SUFFICES ASSUME NEW i \in 1..taken', log'[i].fate = "correlated"
                 PROVE  /\ (log[i].leader \in Led(SystemOf[log[i].entity]))'
                        /\ log'[i].leader < i
                        /\ log'[i].at - log'[log'[i].leader].at <= Window
    BY DEF FollowersHaveALeader, Led
  <1>6. CASE i \in 1..taken
    <2>1. /\ log[i].leader \in Led(SystemOf[log[i].entity])
          /\ log[i].leader < i
          /\ log[i].at - log[log[i].leader].at <= Window
      BY <1>1, <1>5, <1>6 DEF FollowersHaveALeader
    <2>. QED
      BY <1>1, <1>2, <1>3, <1>6, <2>1
  <1>7. CASE i = taken + 1
    <2>1. log'[i].leader = leader /\ log'[i].entity = e /\ log'[i].at = now
          /\ fate = "correlated"
      BY <1>1, <1>5, <1>7
    <2>2. leader \in 1..taken
      BY <1>2, <1>4, <2>1
    <2>. QED
      BY <1>1, <1>2, <1>4, <1>7, <2>1, <2>2
  <1>. QED
    BY <1>1, <1>6, <1>7

\* The correlator after an event that does not lead: the groups may have been
\* pruned.
LEMMA NoNewLeader ==
  ASSUME TypeOK, Chronological, GroupIsLastLeader, PrunedLeadersAged,
         OneLeaderPerWindow, taken < MaxEvents, now' = now,
         NEW e \in Entity, NEW t \in Type, NEW fate \in Fate \ {"led"},
         NEW leader \in Id \union {NoEvent}, Entered(e, t, fate, leader),
         group' = group \/ group' = Pruned
  PROVE  GroupIsLastLeader' /\ PrunedLeadersAged' /\ OneLeaderPerWindow'
  <1>1. /\ taken \in Nat
        /\ \A i \in 1..taken : log'[i] = log[i]
    BY LogGrows
  <1>2. \A s \in System : Led(s) \subseteq 1..taken /\ Led(s)' = Led(s)
    BY LedGrows
  <1>3. \A s \in System : \A i \in Led(s) : log'[i] = log[i]
    BY <1>1, <1>2
  <1>4. \A s \in System : group'[s].leader # NoEvent => group'[s] = group[s]
    BY PrunedGroups DEF NoGroup
  <1>5. GroupIsLastLeader'
    BY <1>2, <1>3, <1>4 DEF GroupIsLastLeader
  <1>6. ASSUME Window > 0, NEW s \in System, group'[s].leader = NoEvent,
               NEW i \in Led(s)
        PROVE  now - log[i].at > Window
    <2>1. CASE group[s].leader = NoEvent
      BY <1>6, <2>1 DEF PrunedLeadersAged
    <2>2. CASE group[s].leader # NoEvent
      <3>1. group' = Pruned /\ group'[s] # group[s]
        BY <1>6, <2>2
      <3>2. now - group[s].start > Window
        BY <1>6, <2>2, <3>1, PrunedGroups, IntakeAssumption
      <3>3. /\ group[s].leader \in Led(s) /\ i <= group[s].leader
            /\ log[group[s].leader].at = group[s].start
        BY <1>6, <2>2 DEF GroupIsLastLeader
      <3>4. log[i].at <= group[s].start
        BY <1>2, <1>6, <3>3 DEF Chronological
      <3>5. /\ log[i].at \in Nat /\ group[s].start \in Nat
            /\ now \in Nat /\ Window \in Nat
        BY <1>2, IntakeAssumption DEF TypeOK, Entry, Group
      <3>. QED
        BY <3>2, <3>4, <3>5
    <2>. QED
      BY <2>1, <2>2
  <1>7. PrunedLeadersAged'
    BY <1>2, <1>3, <1>6 DEF PrunedLeadersAged
  <1>8. OneLeaderPerWindow'
    BY <1>2, <1>3 DEF OneLeaderPerWindow
  <1>. QED
    BY <1>5, <1>7, <1>8

\* The correlator after an event that leads: no leader of the system is
\* within the window.
LEMMA NewLeader ==
  ASSUME TypeOK, Chronological, GroupIsLastLeader, PrunedLeadersAged,
         OneLeaderPerWindow, now' = now, NEW e \in Entity, NEW t \in Type,
         NEW w \in Worker, Lead(w, e, t)
  PROVE  GroupIsLastLeader' /\ PrunedLeadersAged' /\ OneLeaderPerWindow'
  <1> DEFINE s == SystemOf[e]
             n == taken + 1
  <1>1. /\ taken < MaxEvents /\ Entered(e, t, "led", n) /\ Pruned[s] = NoGroup
        /\ group' = IF Window = 0 THEN Pruned
                    ELSE [Pruned EXCEPT ![s] = [leader |-> n, start |-> now]]
    BY DEF Lead, Past, Takes
  <1>2. /\ s \in System /\ taken \in Nat /\ n \in Id /\ "led" \in Fate
        /\ Window \in Nat /\ now \in Nat
    BY <1>1, IntakeAssumption DEF TypeOK, Id, Fate
  <1>3. /\ taken' = n
        /\ \A i \in 1..taken : log'[i] = log[i]
        /\ log'[n].at = now
    <2>1. /\ taken' = taken + 1
          /\ \A i \in 1..taken : log'[i] = log[i]
          /\ log'[n] = [entity |-> e, type |-> t, at |-> now,
                        fate |-> "led", leader |-> n]
      BY <1>1, <1>2, LogGrows
    <2>. QED
      BY <2>1
  <1>4. \A r \in System :
          /\ Led(r) \subseteq 1..taken
          /\ Led(r)' = IF r = s THEN Led(r) \union {n} ELSE Led(r)
    BY <1>1, <1>2, LedGrows
  <1>5. n \notin 1..taken /\ \A i \in 1..taken : i < n
    BY <1>2
  <1>6. \A r \in System : \A i \in Led(r) :
          log'[i] = log[i] /\ log[i].at \in Nat /\ i < n /\ i \in Nat
    BY <1>3, <1>4, <1>5 DEF TypeOK, Entry
  <1>7. Pruned \in [System -> Group]
    BY <1>2, PrunedGroups
  <1>8. ASSUME Window > 0, NEW r \in System, Pruned[r] = NoGroup, NEW i \in Led(r)
        PROVE  now - log[i].at > Window
    <2>1. CASE group[r].leader = NoEvent
      BY <1>8, <2>1 DEF PrunedLeadersAged
    <2>2. CASE group[r].leader # NoEvent
      <3>1. now - group[r].start > Window
        BY <1>2, <1>8, <2>2, PrunedGroups
      <3>2. /\ group[r].leader \in Led(r) /\ i <= group[r].leader
            /\ log[group[r].leader].at = group[r].start
        BY <1>8, <2>2 DEF GroupIsLastLeader
      <3>3. log[i].at <= group[r].start
        BY <1>4, <1>8, <3>2 DEF Chronological
      <3>4. group[r].start \in Nat
        BY DEF TypeOK, Group
      <3>. QED
        BY <1>2, <1>6, <3>1, <3>3, <3>4
    <2>. QED
      BY <2>1, <2>2
  <1>9. \A r \in System : r # s => group'[r] = Pruned[r]
    BY <1>1, <1>7
  <1>10. Window > 0 => group'[s].leader = n /\ group'[s].start = now
    BY <1>1, <1>2, <1>7
  <1>11. Window = 0 => group'[s].leader = NoEvent
    BY <1>1, <1>2 DEF NoGroup
  <1>12. ASSUME NEW r \in System, group'[r].leader # NoEvent
         PROVE  /\ group'[r].leader \in Led(r)'
                /\ log'[group'[r].leader].at = group'[r].start
                /\ \A i \in Led(r)' : i <= group'[r].leader
    <2>1. CASE r = s
      <3>1. Window > 0
        BY <1>2, <1>11, <1>12, <2>1
      <3>. QED
        BY <1>2, <1>3, <1>4, <1>6, <1>10, <2>1, <3>1
    <2>2. CASE r # s
      <3>1. group'[r] = group[r] /\ Led(r)' = Led(r)
        BY <1>4, <1>9, <1>12, <2>2, PrunedGroups DEF NoGroup
      <3>. QED
        BY <1>6, <1>12, <3>1 DEF GroupIsLastLeader
    <2>. QED
      BY <2>1, <2>2
  <1>13. GroupIsLastLeader'
    BY <1>12 DEF GroupIsLastLeader
  <1>14. ASSUME Window > 0, NEW r \in System, group'[r].leader = NoEvent,
                NEW i \in Led(r)'
         PROVE  now' - log'[i].at > Window
    <2>1. r # s
      BY <1>2, <1>10, <1>14, <1>5 DEF NoEvent
    <2>2. Pruned[r] = NoGroup /\ i \in Led(r)
      BY <1>4, <1>9, <1>14, <2>1, PrunedGroups
    <2>. QED
      BY <1>6, <1>8, <1>14, <2>2
  <1>15. PrunedLeadersAged'
    BY <1>14 DEF PrunedLeadersAged
  <1>16. ASSUME Window > 0, NEW r \in System, NEW i \in Led(r)', NEW j \in Led(r)',
                i < j
         PROVE  log'[j].at - log'[i].at > Window
    <2>1. CASE i \in Led(r) /\ j \in Led(r)
      BY <1>6, <1>16, <2>1 DEF OneLeaderPerWindow
    <2>2. CASE j = n /\ r = s
      <3>1. i \in Led(s)
        BY <1>2, <1>4, <1>16, <2>2
      <3>. QED
        BY <1>1, <1>2, <1>3, <1>6, <1>8, <1>16, <2>2, <3>1
    <2>3. CASE i = n /\ r = s
      BY <1>2, <1>4, <1>6, <1>16, <2>3
    <2>. QED
      BY <1>4, <2>1, <2>2, <2>3
  <1>17. OneLeaderPerWindow'
    BY <1>16 DEF OneLeaderPerWindow
  <1>. QED
    BY <1>13, <1>15, <1>17

-----------------------------------------------------------------------------
\* What the tracker has seen after an event.
LEMMA SeenGrows ==
  ASSUME TypeOK, taken < MaxEvents, NEW e \in Entity, NEW t \in Type,
         NEW fate \in Fate, NEW leader \in Id \union {NoEvent},
         Entered(e, t, fate, leader), NEW x \in Entity
  PROVE  /\ Seen(x) \subseteq 1..taken
         /\ Seen(x)' = IF fate # "expired" /\ x = e
                       THEN Seen(x) \union {taken + 1} ELSE Seen(x)
  <1>1. /\ taken \in Nat /\ taken' = taken + 1
        /\ \A i \in 1..taken : log'[i] = log[i]
        /\ log'[taken + 1] = [entity |-> e, type |-> t, at |-> now,
                              fate |-> fate, leader |-> leader]
    BY LogGrows
  <1>2. 1..taken' = (1..taken) \union {taken + 1}
    BY <1>1
  <1>3. Seen(x)' = {k \in 1..taken' : log'[k].entity = x
                                      /\ log'[k].fate # "expired"}
    BY DEF Seen
  <1>4. log'[taken + 1].fate = fate /\ log'[taken + 1].entity = e
    BY <1>1
  <1>. QED
    BY <1>1, <1>2, <1>3, <1>4 DEF Seen

\* The streak before a logged event never changes.
LEMMA StreakStays ==
  ASSUME TypeOK, taken < MaxEvents, NEW e \in Entity, NEW t \in Type,
         NEW fate \in Fate, NEW leader \in Id \union {NoEvent},
         Entered(e, t, fate, leader), NEW i \in 1..taken
  PROVE  Streak(i)' = Streak(i)
  <1>1. /\ taken \in Nat
        /\ \A k \in 1..taken : log'[k] = log[k]
    BY LogGrows
  <1>2. PICK x \in Entity : x = log[i].entity
    BY DEF TypeOK, Entry
  <1>3. /\ Seen(x) \subseteq 1..taken
        /\ Seen(x)' = Seen(x) \/ Seen(x)' = Seen(x) \union {taken + 1}
    BY <1>2, SeenGrows
  <1>4. Streak(i)' =
          {k \in Seen(x)' : k < i /\ \A j \in Seen(x)' : j \in k..(i - 1) =>
                                        log'[j].type = log'[i].type}
    BY <1>1, <1>2 DEF Streak
  <1>. QED
    BY <1>1, <1>2, <1>3, <1>4 DEF Streak

\* The streak before a new event that reports a failure is the trail so far.
LEMMA StreakIsTrail ==
  ASSUME TypeOK, taken < MaxEvents, NEW e \in Entity, NEW t \in Failure,
         NEW fate \in Fate \ {"expired"}, NEW leader \in Id \union {NoEvent},
         Entered(e, t, fate, leader), NEW n, n = taken + 1
  PROVE  Streak(n)' = Trail(e, t)
  <1>1. /\ taken \in Nat
        /\ \A k \in 1..taken : log'[k] = log[k]
        /\ log'[n] = [entity |-> e, type |-> t, at |-> now,
                      fate |-> fate, leader |-> leader]
    BY LogGrows DEF Type
  <1>2. log'[n].entity = e /\ log'[n].type = t
    BY <1>1
  <1>3. Seen(e) \subseteq 1..taken /\ Seen(e)' = Seen(e) \union {n}
    BY SeenGrows DEF Type
  <1>4. Streak(n)' =
          {k \in Seen(e)' : k < n /\ \A j \in Seen(e)' : j \in k..(n - 1) =>
                                        log'[j].type = t}
    BY <1>2 DEF Streak
  <1>5. \A k \in Seen(e) : k < n /\ k \in Nat /\ log'[k] = log[k]
    BY <1>1, <1>3
  <1>6. \A k \in Seen(e) : \A j \in Seen(e) \union {n} :
          j \in k..(n - 1) <=> j \in Seen(e) /\ k <= j
    BY <1>1, <1>5
  <1>7. ~(n < n)
    BY <1>1
  <1>. QED
    BY <1>3, <1>4, <1>5, <1>6, <1>7 DEF Trail

\* The trails of an entity after an event of its own: that of the event's
\* type grew, the others are gone.
LEMMA TrailGrows ==
  ASSUME TypeOK, taken < MaxEvents, NEW e \in Entity, NEW t \in Type,
         NEW fate \in Fate \ {"expired"}, NEW leader \in Id \union {NoEvent},
         Entered(e, t, fate, leader), NEW f \in Failure
  PROVE  Trail(e, f)' = IF f = t THEN Trail(e, f) \union {taken + 1} ELSE {}
  <1> DEFINE n == taken + 1
  <1>1. /\ taken \in Nat
        /\ \A k \in 1..taken : log'[k] = log[k]
        /\ log'[n] = [entity |-> e, type |-> t, at |-> now,
                      fate |-> fate, leader |-> leader]
    BY LogGrows
  <1>2. log'[n].type = t
    BY <1>1
  <1>3. Seen(e) \subseteq 1..taken /\ Seen(e)' = Seen(e) \union {n}
    BY SeenGrows
  <1>4. \A k \in Seen(e) : k <= n /\ ~(n <= k) /\ log'[k] = log[k]
    BY <1>1, <1>3
  <1>5. n <= n
    BY <1>1
  <1>6. Trail(e, f)' =
          {k \in Seen(e) \union {n} : \A j \in Seen(e) \union {n} :
             k <= j => log'[j].type = f}
    BY <1>3 DEF Trail
  <1> HIDE DEF n
  <1>7. CASE f = t
    BY <1>2, <1>4, <1>5, <1>6, <1>7 DEF Trail, n
  <1>8. CASE f # t
    BY <1>2, <1>4, <1>5, <1>6, <1>8
  <1>. QED
    BY <1>7, <1>8

\* An event leaves the trails of other entities alone, an expired one all.
LEMMA TrailStays ==
  ASSUME TypeOK, taken < MaxEvents, NEW e \in Entity, NEW t \in Type,
         NEW fate \in Fate, NEW leader \in Id \union {NoEvent},
         Entered(e, t, fate, leader), NEW x \in Entity, NEW f \in Failure,
         fate = "expired" \/ x # e
  PROVE  Trail(x, f)' = Trail(x, f)
  <1>1. \A k \in 1..taken : log'[k] = log[k]
    BY LogGrows
  <1>2. Seen(x) \subseteq 1..taken /\ Seen(x)' = Seen(x)
    BY SeenGrows
  <1>. QED
    BY <1>1, <1>2 DEF Trail

\* Trails are finite.
LEMMA TrailFinite ==
  ASSUME TypeOK, NEW e, NEW f
  PROVE  /\ IsFiniteSet(Trail(e, f)) /\ Cardinality(Trail(e, f)) \in Nat
         /\ Trail(e, f) \subseteq 1..taken /\ taken \in Nat
  <1>1. taken \in Nat
    BY IntakeAssumption DEF TypeOK
  <1>2. IsFiniteSet(1..taken)
    BY <1>1, FS_Interval
  <1>3. Trail(e, f) \subseteq 1..taken
    BY DEF Trail, Seen
  <1>4. IsFiniteSet(Trail(e, f))
    BY <1>2, <1>3, FS_Subset
  <1>. QED
    BY <1>1, <1>3, <1>4, FS_CardinalityType

\* The counter of the new event's failure, whatever becomes of the event.
LEMMA CountGrows ==
  ASSUME TypeOK, CountIsTrail, taken < MaxEvents, NEW e \in Entity,
         NEW t \in Type, NEW fate \in Fate \ {"expired"},
         NEW leader \in Id \union {NoEvent},
         Entered(e, t, fate, leader), count' = Counted(e, t)
  PROVE  CountIsTrail'
  <1>1. SUFFICES ASSUME NEW x \in Entity, NEW f \in Failure
                 PROVE  count'[x][f] = Cardinality(Trail(x, f)')
    BY DEF CountIsTrail
  <1>2. count'[x][f] = IF x # e THEN count[x][f]
                       ELSE IF f = t THEN count[x][f] + 1 ELSE 0
    BY DEF Counted, TypeOK
  <1>3. count[x][f] = Cardinality(Trail(x, f))
    BY DEF CountIsTrail
  <1>4. CASE x # e
    BY <1>2, <1>3, <1>4, TrailStays
  <1>5. CASE x = e /\ f = t
    <2>1. IsFiniteSet(Trail(e, f)) /\ taken + 1 \notin Trail(e, f)
      BY TrailFinite
    <2>2. Cardinality(Trail(e, f) \union {taken + 1}) = Cardinality(Trail(e, f)) + 1
      BY <2>1, FS_AddElement
    <2>. QED
      BY <1>2, <1>3, <1>5, <2>2, TrailGrows
  <1>6. CASE x = e /\ f # t
    BY <1>2, <1>6, TrailGrows, FS_EmptySet
  <1>. QED
    BY <1>4, <1>5, <1>6

\* The tracker's verdict on a new event is the one SuppressionIsExact asks
\* for.
LEMMA VerdictIsExact ==
  ASSUME TypeOK, CountIsTrail, SuppressionIsExact, taken < MaxEvents,
         NEW e \in Entity, NEW t \in Type, NEW fate \in Fate,
         NEW leader \in Id \union {NoEvent}, Entered(e, t, fate, leader),
         fate # "expired" => (fate = "suppressed" <=> Repeated(e, t))
  PROVE  SuppressionIsExact'
  <1>1. /\ taken \in Nat /\ taken' = taken + 1
        /\ \A k \in 1..taken : log'[k] = log[k]
        /\ log'[taken + 1] = [entity |-> e, type |-> t, at |-> now,
                              fate |-> fate, leader |-> leader]
    BY LogGrows
  <1>2. SUFFICES ASSUME NEW i \in 1..taken', log'[i].fate # "expired"
                 PROVE  log'[i].fate = "suppressed" <=>
                          /\ log'[i].type # Recovered
                          /\ Cardinality(Streak(i)') >= Threshold
    BY DEF SuppressionIsExact
  <1>3. CASE i \in 1..taken
    <2>1. Streak(i)' = Streak(i) /\ log'[i] = log[i]
      BY <1>1, <1>3, StreakStays
    <2>. QED
      BY <1>2, <1>3, <2>1 DEF SuppressionIsExact
  <1>4. CASE i = taken + 1
    <2>1. log'[i].fate = fate /\ log'[i].type = t /\ fate # "expired"
      BY <1>1, <1>2, <1>4
    <2>2. CASE t = Recovered
      BY <2>1, <2>2 DEF Repeated
    <2>3. CASE t # Recovered
      <3>1. t \in Failure
        BY <2>3 DEF Type
      <3>2. Streak(i)' = Trail(e, t)
        BY <1>4, <2>1, <3>1, StreakIsTrail
      <3>3. Counted(e, t)[e][t] = count[e][t] + 1
        BY <3>1 DEF Counted, TypeOK
      <3>4. count[e][t] = Cardinality(Trail(e, t))
        BY <3>1 DEF CountIsTrail
      <3>5. Repeated(e, t) <=> Cardinality(Trail(e, t)) + 1 > Threshold
        BY <2>3, <3>3, <3>4 DEF Repeated
      <3>6. Cardinality(Trail(e, t)) \in Nat /\ Threshold \in Nat
        BY TrailFinite, IntakeAssumption
      <3>7. Repeated(e, t) <=> Cardinality(Trail(e, t)) >= Threshold
        BY <3>5, <3>6
      <3>. QED
        BY <2>1, <2>3, <3>2, <3>7
    <2>. QED
      BY <2>2, <2>3
  <1>. QED
    BY <1>1, <1>3, <1>4

-----------------------------------------------------------------------------
\* Whatever is not TypeOK in the inductive invariant is about these.
remembered == <<now, memory, taken, log>>

\* A step that touches none of them keeps it.
LEMMA Unremembered ==
  ASSUME IInv, UNCHANGED remembered, TypeOK'
  PROVE  IInv'
  <1>1. /\ now' = now /\ count' = count /\ group' = group
        /\ taken' = taken /\ log' = log
    BY DEF remembered, memory
  <1>2. /\ \A s : Led(s)' = Led(s)
        /\ \A e : Seen(e)' = Seen(e)
    BY <1>1 DEF Led, Seen
  <1>3. \A e, f : Trail(e, f)' = Trail(e, f)
    BY <1>1, <1>2 DEF Trail
  <1>4. \A i : Streak(i)' = Streak(i)
    BY <1>1, <1>2 DEF Streak
  <1>5. Chronological' /\ CountIsTrail' /\ SuppressionIsExact'
    BY <1>1, <1>3, <1>4 DEF IInv, Chronological, CountIsTrail, SuppressionIsExact
  <1>6. GroupIsLastLeader' /\ PrunedLeadersAged' /\ OneLeaderPerWindow'
    BY <1>1, <1>2
       DEF IInv, GroupIsLastLeader, PrunedLeadersAged, OneLeaderPerWindow
  <1>7. FollowersHaveALeader'
    BY <1>1 DEF IInv, FollowersHaveALeader, Led
  <1>. QED
    BY <1>5, <1>6, <1>7 DEF IInv

\* The inductive invariant holds before the first event.
LEMMA InvInit == Init => IInv
  <1> SUFFICES ASSUME Init PROVE IInv
    OBVIOUS
  <1> USE IntakeAssumption
  <1>1. taken = 0 /\ 1..taken = {} /\ now = 0
    BY DEF Init
  <1>2. TypeOK
    <2>1. log \in [1..taken -> Entry]
      BY <1>1 DEF Init
    <2>2. group \in [System -> Group]
      BY DEF Init, NoGroup, Group
    <2>3. /\ count \in [Entity -> [Failure -> Nat]]
          /\ hand \in [Worker -> Id \union {NoEvent}]
          /\ \A w \in Worker : hand[w] = 0
      BY DEF Init, NoEvent
    <2>4. /\ stopping = FALSE /\ looping = TRUE
          /\ hand["drain"] = NoEvent
      BY DEF Init, Worker
    <2>5. taken \in 0..MaxEvents /\ now \in 0..MaxTime
      BY <1>1
    <2>6. processed \in Nat /\ errors \in Nat
      BY DEF Init
    <2>7. \A w \in Worker : hand[w] <= taken
      BY <1>1, <2>3
    <2>8. /\ hand["loop"] # NoEvent \/ ~stopping => looping
          /\ hand["drain"] # NoEvent => stopping
      BY <2>4
    <2>. QED
      BY <2>1, <2>2, <2>3, <2>4, <2>5, <2>6, <2>7, <2>8 DEF TypeOK
  <1>3. \A e, f : Trail(e, f) = {}
    BY <1>1 DEF Trail, Seen
  <1>4. CountIsTrail
    BY <1>3, FS_EmptySet DEF Init, CountIsTrail
  <1>5. \A s \in System : Led(s) = {} /\ group[s].leader = NoEvent
    BY <1>1 DEF Led, Init, NoGroup
  <1>6. GroupIsLastLeader /\ PrunedLeadersAged /\ OneLeaderPerWindow
    BY <1>5 DEF GroupIsLastLeader, PrunedLeadersAged, OneLeaderPerWindow
  <1>7. Chronological /\ FollowersHaveALeader /\ SuppressionIsExact
    BY <1>1 DEF Chronological, FollowersHaveALeader, SuppressionIsExact
  <1>. QED
    BY <1>2, <1>4, <1>6, <1>7 DEF IInv

\* Counting an event keeps the type of the counters.
LEMMA CountedType ==
  ASSUME TypeOK, NEW e \in Entity, NEW t \in Type
  PROVE  Counted(e, t) \in [Entity -> [Failure -> Nat]]
  BY DEF TypeOK, Counted

\* An event past the TTL gate keeps the types.
LEMMA PastType ==
  ASSUME TypeOK, NEW w \in Worker, NEW e \in Entity, NEW t \in Type,
         NEW fate \in Fate, NEW leader \in Id \union {NoEvent},
         Past(w, e, t, fate, leader), group' \in [System -> Group]
  PROVE  TypeOK'
  <1>1. taken < MaxEvents /\ Entered(e, t, fate, leader)
    BY DEF Past, Takes
  <1>2. /\ taken \in Nat /\ taken' = taken + 1 /\ taken' \in 1..MaxEvents
        /\ log' \in [1..taken' -> Entry]
    BY <1>1, LogGrows
  <1>3. count' \in [Entity -> [Failure -> Nat]]
    BY CountedType DEF Past
  <1>4. /\ hand' = [hand EXCEPT ![w] = taken + 1]
        /\ UNCHANGED <<now, stopping, looping, processed, errors>>
    BY DEF Past, tally
  <1>5. hand' \in [Worker -> Id \union {NoEvent}]
    <2>1. taken + 1 \in Id
      BY <1>2 DEF Id
    <2>. QED
      BY <1>4, <2>1 DEF TypeOK
  <1>6. \A v \in Worker : hand'[v] <= taken'
    BY <1>2, <1>4, IntakeAssumption DEF TypeOK, Id, NoEvent
  <1>7. /\ w = "drain" => stopping
        /\ w = "loop" => looping
    BY DEF Past, Takes
  <1>8. /\ hand'["loop"] # NoEvent \/ ~stopping => looping
        /\ hand'["drain"] # NoEvent => stopping
    BY <1>4, <1>7 DEF TypeOK, Worker
  <1>9. taken' \in 0..MaxEvents
    BY <1>2
  <1>. QED
    BY <1>2, <1>3, <1>4, <1>5, <1>6, <1>8, <1>9 DEF TypeOK

\* Every event taken keeps the inductive invariant.
LEMMA ReceiveStep ==
  ASSUME IInv, NEW w \in Worker, NEW e \in Entity, NEW t \in Type,
         Receive(w, e, t)
  PROVE  IInv'
  <1>0. /\ TypeOK /\ Chronological /\ GroupIsLastLeader /\ PrunedLeadersAged
        /\ FollowersHaveALeader /\ OneLeaderPerWindow
        /\ CountIsTrail /\ SuppressionIsExact
    BY DEF IInv
  <1>1. /\ NoEvent \in Id \union {NoEvent}
        /\ {"expired", "suppressed", "correlated", "led"} \subseteq Fate
        /\ "expired" \notin {"suppressed", "correlated", "led"}
    BY DEF Fate
  <1>2. CASE Expire(w, e, t)
    <2>1. /\ taken < MaxEvents /\ Entered(e, t, "expired", NoEvent)
          /\ UNCHANGED <<now, stopping, count, group, hand, processed, errors>>
          /\ Turn(w) /\ Takes(w)
      BY <1>2 DEF Expire, Takes, memory, tally
    <2>2. /\ taken \in Nat /\ taken' = taken + 1 /\ taken' \in 1..MaxEvents
          /\ log' \in [1..taken' -> Entry]
      BY <1>0, <1>1, <2>1, LogGrows
    <2>3. TypeOK'
      <3>1. \A v \in Worker : hand'[v] <= taken' /\ taken' \in 0..MaxEvents
        BY <1>0, <2>1, <2>2, IntakeAssumption DEF TypeOK, Id, NoEvent
      <3>2. /\ looping' \in BOOLEAN
            /\ hand'["loop"] # NoEvent \/ ~stopping' => looping'
        BY <1>0, <2>1 DEF TypeOK, Turn, Takes, Worker
      <3>. QED
        BY <1>0, <2>1, <2>2, <3>1, <3>2 DEF TypeOK
    <2>4. Chronological'
      BY <1>0, <1>1, <2>1, ChronologicalGrows
    <2>5. FollowersHaveALeader'
      BY <1>0, <1>1, <2>1, FollowersStay
    <2>6. GroupIsLastLeader' /\ PrunedLeadersAged' /\ OneLeaderPerWindow'
      BY <1>0, <1>1, <2>1, NoNewLeader
    <2>7. \A x \in Entity, f \in Failure : Trail(x, f)' = Trail(x, f)
      BY <1>0, <1>1, <2>1, TrailStays
    <2>8. CountIsTrail'
      BY <1>0, <2>1, <2>7 DEF CountIsTrail
    <2>9. SuppressionIsExact'
      BY <1>0, <1>1, <2>1, VerdictIsExact
    <2>. QED
      BY <2>3, <2>4, <2>5, <2>6, <2>8, <2>9 DEF IInv
  <1>3. CASE Suppress(w, e, t)
    <2>1. /\ Past(w, e, t, "suppressed", NoEvent) /\ Repeated(e, t)
          /\ group' = group
      BY <1>3 DEF Suppress
    <2>2. /\ taken < MaxEvents /\ Entered(e, t, "suppressed", NoEvent)
          /\ count' = Counted(e, t) /\ now' = now
      BY <2>1 DEF Past, Takes
    <2>3. TypeOK'
      <3>1. group' \in [System -> Group]
        BY <1>0, <2>1 DEF TypeOK
      <3>. QED
        BY <1>0, <1>1, <2>1, <3>1, PastType
    <2>4. Chronological'
      BY <1>0, <1>1, <2>2, ChronologicalGrows
    <2>5. FollowersHaveALeader'
      BY <1>0, <1>1, <2>2, FollowersStay
    <2>6. GroupIsLastLeader' /\ PrunedLeadersAged' /\ OneLeaderPerWindow'
      BY <1>0, <1>1, <2>1, <2>2, NoNewLeader
    <2>7. CountIsTrail'
      BY <1>0, <1>1, <2>2, CountGrows
    <2>8. SuppressionIsExact'
      BY <1>0, <1>1, <2>1, <2>2, VerdictIsExact
    <2>. QED
      BY <2>3, <2>4, <2>5, <2>6, <2>7, <2>8 DEF IInv
  <1>4. CASE Follow(w, e, t)
    <2> DEFINE s == SystemOf[e]
    <2>1. /\ Past(w, e, t, "correlated", group[s].leader) /\ ~Repeated(e, t)
          /\ group' = Pruned /\ Pruned[s] # NoGroup
      BY <1>4 DEF Follow
    <2>2. s \in System /\ group[s].leader \in Id \union {NoEvent}
      BY <1>0, IntakeAssumption DEF TypeOK, Group
    <2>3. /\ taken < MaxEvents /\ Entered(e, t, "correlated", group[s].leader)
          /\ count' = Counted(e, t) /\ now' = now
      BY <2>1 DEF Past, Takes
    <2>4. /\ group[s].leader \in Led(s)
          /\ now - log[group[s].leader].at <= Window
      BY <1>0, <2>1, <2>2, PrunedGroups DEF GroupIsLastLeader
    <2>5. TypeOK'
      BY <1>0, <1>1, <2>1, <2>2, PrunedGroups, PastType
    <2>6. Chronological'
      BY <1>0, <1>1, <2>2, <2>3, ChronologicalGrows
    <2>7. FollowersHaveALeader'
      BY <1>0, <1>1, <2>2, <2>3, <2>4, FollowersStay
    <2>8. GroupIsLastLeader' /\ PrunedLeadersAged' /\ OneLeaderPerWindow'
      BY <1>0, <1>1, <2>1, <2>2, <2>3, NoNewLeader
    <2>9. CountIsTrail'
      BY <1>0, <1>1, <2>2, <2>3, CountGrows
    <2>10. SuppressionIsExact'
      BY <1>0, <1>1, <2>1, <2>2, <2>3, VerdictIsExact
    <2>. QED
      BY <2>5, <2>6, <2>7, <2>8, <2>9, <2>10 DEF IInv
  <1>5. CASE Lead(w, e, t)
    <2>1. /\ Past(w, e, t, "led", taken + 1) /\ ~Repeated(e, t)
          /\ group' = IF Window = 0 THEN Pruned
                      ELSE [Pruned EXCEPT ![SystemOf[e]] =
                              [leader |-> taken + 1, start |-> now]]
      BY <1>5 DEF Lead
    <2>2. /\ taken < MaxEvents /\ Entered(e, t, "led", taken + 1)
          /\ count' = Counted(e, t) /\ now' = now
      BY <2>1 DEF Past, Takes
    <2>3. taken + 1 \in Id
      BY <1>0, <2>2, IntakeAssumption DEF TypeOK, Id
    <2>4. TypeOK'
      <3>1. SystemOf[e] \in System
        BY IntakeAssumption
      <3>2. Pruned \in [System -> Group]
        BY <1>0, <3>1, PrunedGroups
      <3>3. [leader |-> taken + 1, start |-> now] \in Group
        BY <1>0, <2>3 DEF TypeOK, Group
      <3>4. group' \in [System -> Group]
        BY <2>1, <3>2, <3>3
      <3>. QED
        BY <1>0, <1>1, <2>1, <2>3, <3>4, PastType
    <2>5. Chronological'
      BY <1>0, <1>1, <2>2, <2>3, ChronologicalGrows
    <2>6. FollowersHaveALeader'
      BY <1>0, <1>1, <2>2, <2>3, FollowersStay
    <2>7. GroupIsLastLeader' /\ PrunedLeadersAged' /\ OneLeaderPerWindow'
      BY <1>0, <1>5, <2>2, NewLeader
    <2>8. CountIsTrail'
      BY <1>0, <1>1, <2>2, <2>3, CountGrows
    <2>9. SuppressionIsExact'
      BY <1>0, <1>1, <2>1, <2>2, <2>3, VerdictIsExact
    <2>. QED
      BY <2>4, <2>5, <2>6, <2>7, <2>8, <2>9 DEF IInv
  <1>. QED
    BY <1>2, <1>3, <1>4, <1>5 DEF Receive

\* Time only ages the leaders.
LEMMA TickStep ==
  ASSUME IInv, Tick
  PROVE  IInv'
  <1>0. /\ TypeOK /\ Chronological /\ PrunedLeadersAged
    BY DEF IInv
  <1>1. /\ now' = now + 1 /\ now \in Nat /\ now' \in 0..MaxTime
        /\ UNCHANGED <<stopping, looping, count, group, hand, processed, errors,
                       taken, log>>
    BY <1>0, IntakeAssumption DEF TypeOK, Tick, memory, tally
  <1>2. TypeOK'
    BY <1>0, <1>1 DEF TypeOK
  <1>3. \A i \in 1..taken : log[i].at \in Nat
    BY <1>0 DEF TypeOK, Entry
  <1>4. Chronological'
    BY <1>0, <1>1, <1>3 DEF Chronological
  <1>5. \A s : Led(s)' = Led(s) /\ Led(s) \subseteq 1..taken
    BY <1>1 DEF Led
  <1>6. PrunedLeadersAged'
    BY <1>0, <1>1, <1>3, <1>5, IntakeAssumption DEF PrunedLeadersAged
  <1>7. GroupIsLastLeader' /\ OneLeaderPerWindow'
    BY <1>1, <1>5 DEF IInv, GroupIsLastLeader, OneLeaderPerWindow
  <1>8. FollowersHaveALeader'
    BY <1>1 DEF IInv, FollowersHaveALeader, Led
  <1>9. CountIsTrail' /\ SuppressionIsExact'
    BY <1>1 DEF IInv, CountIsTrail, SuppressionIsExact, Trail, Streak, Seen
  <1>. QED
    BY <1>2, <1>4, <1>6, <1>7, <1>8, <1>9 DEF IInv

\* Every step keeps the inductive invariant.
LEMMA InvStep == IInv /\ [Next]_vars => IInv'
  <1> SUFFICES ASSUME IInv, [Next]_vars PROVE IInv'
    OBVIOUS
  <1>0. TypeOK
    BY DEF IInv
  <1>1. ASSUME NEW w \in Worker, Finish(w) PROVE IInv'
    <2>1. TypeOK'
      <3>1. /\ hand' = [hand EXCEPT ![w] = NoEvent]
            /\ UNCHANGED <<now, stopping, count, group, taken, log>>
        BY <1>1 DEF Finish, memory
      <3>2. processed' \in Nat /\ errors' \in Nat
        BY <1>0, <1>1 DEF Finish, TypeOK, tally
      <3>3. hand' \in [Worker -> Id \union {NoEvent}]
        BY <1>0, <3>1 DEF TypeOK
      <3>4. \A v \in Worker : hand'[v] <= taken'
        BY <1>0, <3>1 DEF TypeOK, NoEvent
      <3>5. /\ looping' \in BOOLEAN
            /\ hand'["loop"] # NoEvent \/ ~stopping' => looping'
            /\ hand'["drain"] # NoEvent => stopping'
        <4>1. looping' = IF w = "loop" THEN ~stopping ELSE looping
          BY <1>1 DEF Finish, Turn
        <4>2. CASE w = "loop"
          BY <1>0, <3>1, <4>1, <4>2 DEF TypeOK, Worker
        <4>3. CASE w = "drain"
          BY <1>0, <3>1, <4>1, <4>3 DEF TypeOK, Worker
        <4>. QED
          BY <4>2, <4>3 DEF Worker
      <3>. QED
        BY <1>0, <3>1, <3>2, <3>3, <3>4, <3>5 DEF TypeOK
    <2>. QED
      BY <1>1, <2>1, Unremembered DEF Finish, remembered
  <1>2. CASE Timeout
    <2>1. TypeOK'
      BY <1>0, <1>2 DEF TypeOK, Timeout, memory, tally
    <2>. QED
      BY <1>2, <2>1, Unremembered DEF Timeout, remembered
  <1>3. CASE Stop
    <2>1. TypeOK'
      BY <1>0, <1>3 DEF TypeOK, Stop, memory, tally
    <2>. QED
      BY <1>3, <2>1, Unremembered DEF Stop, remembered
  <1>4. CASE UNCHANGED vars
    <2>1. TypeOK'
      BY <1>0, <1>4 DEF TypeOK, vars
    <2>. QED
      BY <1>4, <2>1, Unremembered DEF vars, remembered, memory
  <1>. QED
    BY <1>1, <1>2, <1>3, <1>4, ReceiveStep, TickStep DEF Next

-----------------------------------------------------------------------------
\* The inductive invariant of the gates holds in every reachable state
\* (Orchestrator._process_one).
THEOREM InvHolds == Spec => []IInv
  BY InvInit, InvStep, PTL DEF Spec

\* Every variable stays within its type, and events are in hand only of a
\* loop that has not left and a drain that has begun.
THEOREM TypeCorrect == Spec => []TypeOK
  <1>1. IInv => TypeOK
    BY DEF IInv
  <1>. QED
    BY <1>1, InvHolds, PTL

\* A correlated event is dropped in favour of an earlier leader of its system
\* within the window (EventCorrelator.check).
THEOREM NoOrphans == Spec => []FollowersHaveALeader
  <1>1. IInv => FollowersHaveALeader
    BY DEF IInv
  <1>. QED
    BY <1>1, InvHolds, PTL

\* Two leaders of a system are more than the window apart
\* (EventCorrelator.check, _prune_expired).
THEOREM LeadersApart == Spec => []OneLeaderPerWindow
  <1>1. IInv => OneLeaderPerWindow
    BY DEF IInv
  <1>. QED
    BY <1>1, InvHolds, PTL

\* An event is suppressed exactly when Threshold reports of its failure came
\* directly before it (EventSuppressionTracker.check).
THEOREM SuppressionHolds == Spec => []SuppressionIsExact
  <1>1. IInv => SuppressionIsExact
    BY DEF IInv
  <1>. QED
    BY <1>1, InvHolds, PTL

-----------------------------------------------------------------------------
(* The counters of the orchestrator                                        *)

\* The events nobody has in hand are finitely many.
LEMMA ThroughFinite ==
  ASSUME TypeOK, NEW fates
  PROVE  IsFiniteSet(Through(fates)) /\ Cardinality(Through(fates)) \in Nat
  <1>1. IsFiniteSet(1..taken)
    BY FS_Interval DEF TypeOK
  <1>2. Through(fates) \subseteq 1..taken
    BY DEF Through
  <1>. QED
    BY <1>1, <1>2, FS_Subset, FS_CardinalityType

\* An expired event adds nothing to what is through with the other fates.
LEMMA ExpiredNotCounted ==
  ASSUME TypeOK, HandsApart, NEW w \in Worker, NEW e \in Entity, NEW t \in Type,
         Expire(w, e, t), NEW fates \in SUBSET Fate, "expired" \notin fates
  PROVE  HandsApart' /\ Through(fates)' = Through(fates)
  <1>1. /\ taken < MaxEvents /\ Entered(e, t, "expired", NoEvent)
        /\ hand' = hand /\ "expired" \in Fate /\ NoEvent \in Id \union {NoEvent}
    BY DEF Expire, Takes, Fate
  <1>2. /\ taken \in Nat /\ taken' = taken + 1
        /\ \A i \in 1..taken : log'[i] = log[i]
        /\ log'[taken + 1].fate = "expired"
    <2>1. log'[taken + 1] = [entity |-> e, type |-> t, at |-> now, fate |-> "expired",
                             leader |-> NoEvent]
      BY <1>1, LogGrows
    <2>. QED
      BY <1>1, <2>1, LogGrows
  <1>3. \A v \in Worker : hand[v] # NoEvent => hand[v] \in 1..taken
    BY <1>2, IntakeAssumption DEF TypeOK, Id, NoEvent
  <1>4. HandsApart'
    BY <1>1, <1>2, <1>3 DEF HandsApart
  <1>5. 1..taken' = (1..taken) \union {taken + 1}
    BY <1>2
  <1>. QED
    BY <1>1, <1>2, <1>4, <1>5 DEF Through, Held

\* An event past the TTL gate is in a hand of its own.
LEMMA PastNotCounted ==
  ASSUME TypeOK, HandsApart, NEW w \in Worker, NEW e \in Entity, NEW t \in Type,
         NEW fate \in Fate \ {"expired"}, NEW leader \in Id \union {NoEvent},
         Past(w, e, t, fate, leader), NEW fates
  PROVE  HandsApart' /\ Through(fates)' = Through(fates)
  <1>1. /\ taken < MaxEvents /\ Entered(e, t, fate, leader)
        /\ hand' = [hand EXCEPT ![w] = taken + 1] /\ hand[w] = NoEvent
    BY DEF Past, Takes
  <1>2. /\ taken \in Nat /\ taken' = taken + 1
        /\ \A i \in 1..taken : log'[i] = log[i]
        /\ log'[taken + 1].fate = fate
    <2>1. log'[taken + 1] = [entity |-> e, type |-> t, at |-> now, fate |-> fate,
                             leader |-> leader]
      BY <1>1, LogGrows
    <2>. QED
      BY <1>1, <2>1, LogGrows
  <1>3. \A v \in Worker : hand[v] # NoEvent => hand[v] \in 1..taken
    BY <1>2, IntakeAssumption DEF TypeOK, Id, NoEvent
  <1>4. hand'[w] = taken + 1 /\ \A v \in Worker \ {w} : hand'[v] = hand[v]
    BY <1>1 DEF TypeOK
  <1>5. taken + 1 \notin 1..taken /\ taken + 1 # NoEvent
    BY <1>2 DEF NoEvent
  <1>6. HandsApart'
    <2>1. hand'["loop"] = hand'["drain"] => hand'["loop"] = NoEvent
      BY <1>3, <1>4, <1>5 DEF HandsApart, Worker
    <2>2. \A v \in Worker : hand'[v] # NoEvent => log'[hand'[v]].fate # "expired"
      BY <1>2, <1>3, <1>4 DEF HandsApart
    <2>. QED
      BY <2>1, <2>2 DEF HandsApart
  <1>7. Held' = Held \union {taken + 1}
    BY <1>1, <1>4, <1>5 DEF Held
  <1>8. 1..taken' = (1..taken) \union {taken + 1}
    BY <1>2
  <1>. QED
    BY <1>2, <1>5, <1>6, <1>7, <1>8 DEF Through

\* A worker that is through with its event lets go of this one only.
LEMMA FinishLetsGo ==
  ASSUME TypeOK, HandsApart, NEW w \in Worker, Finish(w), NEW fates
  PROVE  /\ HandsApart'
         /\ hand[w] \notin Through(fates)
         /\ Through(fates)' = IF log[hand[w]].fate \in fates
                              THEN Through(fates) \union {hand[w]}
                              ELSE Through(fates)
  <1>1. /\ hand[w] # NoEvent /\ hand' = [hand EXCEPT ![w] = NoEvent]
        /\ taken' = taken /\ log' = log
    BY DEF Finish
  <1>2. hand[w] \in 1..taken
    BY <1>1, IntakeAssumption DEF TypeOK, Id, NoEvent
  <1>3. hand'[w] = NoEvent /\ \A v \in Worker \ {w} : hand'[v] = hand[v]
    BY <1>1 DEF TypeOK
  <1>4. \A v \in Worker \ {w} : hand[v] # hand[w]
    BY <1>1 DEF HandsApart, Worker
  <1>5. Held' = Held \ {hand[w]} /\ hand[w] \in Held
    BY <1>1, <1>3, <1>4 DEF Held
  <1>6. HandsApart'
    <2>1. \A v \in Worker : hand'[v] # NoEvent => hand'[v] = hand[v]
      BY <1>3
    <2>2. hand'["loop"] = hand'["drain"] => hand'["loop"] = NoEvent
      BY <1>1, <1>3 DEF HandsApart, Worker
    <2>. QED
      BY <1>1, <2>1, <2>2 DEF HandsApart
  <1>. QED
    BY <1>1, <1>2, <1>5, <1>6 DEF Through

\* What is through grows by at most the event let go of.
LEMMA ThroughGrows ==
  ASSUME TypeOK, HandsApart, NEW w \in Worker, Finish(w), NEW fates
  PROVE  Cardinality(Through(fates))' =
           IF log[hand[w]].fate \in fates THEN Cardinality(Through(fates)) + 1
           ELSE Cardinality(Through(fates))
  BY FinishLetsGo, ThroughFinite, FS_AddElement

CountInv == HandsApart /\ CountedOnce

\* The counters follow what is through.
LEMMA CountFinish ==
  ASSUME TypeOK, CountInv, NEW w \in Worker, Finish(w)
  PROVE  CountInv'
  <1>. DEFINE fate == log[hand[w]].fate
              done == Cardinality(Through({"correlated", "led"}))
              unaudited == Cardinality(Through({"suppressed"}))
  <1>1. fate \in {"suppressed", "correlated", "led"}
    <2>1. hand[w] # NoEvent /\ hand[w] \in 1..taken
      BY IntakeAssumption DEF Finish, TypeOK, Id, NoEvent
    <2>2. log[hand[w]] \in Entry
      BY <2>1 DEF TypeOK
    <2>. QED
      BY <2>1, <2>2 DEF CountInv, HandsApart, Entry, Fate
  <1>2. /\ done \in Nat /\ unaudited \in Nat
        /\ processed \in Nat /\ errors \in Nat
    BY ThroughFinite DEF TypeOK
  <1>3. /\ done' = IF fate \in {"correlated", "led"} THEN done + 1 ELSE done
        /\ unaudited' = IF fate \in {"suppressed"} THEN unaudited + 1 ELSE unaudited
    BY ThroughGrows DEF CountInv
  <1>4. \/ fate = "suppressed" /\ processed' = processed /\ errors' = errors
        \/ fate # "suppressed" /\ processed' = processed + 1 /\ errors' = errors
        \/ fate # "correlated" /\ errors' = errors + 1 /\ processed' = processed
    BY DEF Finish, tally
  <1>5. processed <= done /\ processed + errors \in done..(done + unaudited)
    BY DEF CountInv, CountedOnce
  <1>. HIDE DEF fate, done, unaudited
  <1>6. processed' <= done' /\ processed' + errors' \in done'..(done' + unaudited')
    BY <1>1, <1>2, <1>3, <1>4, <1>5
  <1>7. HandsApart'
    BY FinishLetsGo DEF CountInv
  <1>. QED
    BY <1>6, <1>7 DEF CountInv, CountedOnce, done, unaudited

LEMMA CountStep == IInv /\ CountInv /\ [Next]_vars => CountInv'
  <1>. SUFFICES ASSUME IInv, CountInv, [Next]_vars
                PROVE  CountInv'
    OBVIOUS
  <1>1. TypeOK /\ HandsApart
    BY DEF IInv, CountInv
  <1>2. ASSUME HandsApart', processed' = processed, errors' = errors,
               \A fates \in SUBSET (Fate \ {"expired"}) : Through(fates)' = Through(fates)
        PROVE  CountInv'
    <2>1. /\ {"correlated", "led"} \in SUBSET (Fate \ {"expired"})
          /\ {"suppressed"} \in SUBSET (Fate \ {"expired"})
      BY DEF Fate
    <2>2. /\ Through({"correlated", "led"})' = Through({"correlated", "led"})
          /\ Through({"suppressed"})' = Through({"suppressed"})
      BY <1>2, <2>1
    <2>. QED
      BY <1>2, <2>2 DEF CountInv, CountedOnce
  <1>3. ASSUME NEW w \in Worker, NEW e \in Entity, NEW t \in Type, Receive(w, e, t)
        PROVE  CountInv'
    <2>1. CASE Expire(w, e, t)
      <3>1. processed' = processed /\ errors' = errors
        BY <2>1 DEF Expire, tally
      <3>2. {} \in SUBSET Fate /\ "expired" \notin {}
        OBVIOUS
      <3>3. HandsApart'
        BY <1>1, <2>1, <3>2, ExpiredNotCounted
      <3>4. \A fates \in SUBSET (Fate \ {"expired"}) : Through(fates)' = Through(fates)
        BY <1>1, <2>1, ExpiredNotCounted
      <3>. QED
        BY <1>2, <3>1, <3>3, <3>4
    <2>2. ASSUME NEW fate \in Fate \ {"expired"}, NEW leader \in Id \union {NoEvent},
                 Past(w, e, t, fate, leader)
          PROVE  CountInv'
      <3>1. processed' = processed /\ errors' = errors
        BY <2>2 DEF Past, tally
      <3>. QED
        BY <1>1, <1>2, <2>2, <3>1, PastNotCounted
    <2>3. {"suppressed", "correlated", "led"} \subseteq Fate \ {"expired"}
      BY DEF Fate
    <2>4. CASE Suppress(w, e, t)
      BY <2>2, <2>3, <2>4 DEF Suppress
    <2>5. CASE Follow(w, e, t)
      <3>1. group[SystemOf[e]].leader \in Id \union {NoEvent}
        BY <1>1, IntakeAssumption DEF TypeOK, Group
      <3>. QED
        BY <2>2, <2>3, <2>5, <3>1 DEF Follow
    <2>6. CASE Lead(w, e, t)
      <3>1. taken + 1 \in Id
        BY <1>1, <2>6, IntakeAssumption DEF Lead, Past, Takes, TypeOK, Id
      <3>. QED
        BY <2>2, <2>3, <2>6, <3>1 DEF Lead
    <2>. QED
      BY <1>3, <2>1, <2>4, <2>5, <2>6 DEF Receive
  <1>4. ASSUME UNCHANGED <<hand, processed, errors, taken, log>>
        PROVE  CountInv'
    BY <1>4 DEF CountInv, HandsApart, CountedOnce, Through, Held
  <1>5. CASE Timeout
    BY <1>4, <1>5 DEF Timeout, tally
  <1>6. CASE Stop
    BY <1>4, <1>6 DEF Stop, tally
  <1>7. CASE Tick
    BY <1>4, <1>7 DEF Tick, tally
  <1>8. CASE UNCHANGED vars
    BY <1>4, <1>8 DEF vars, tally
  <1>. QED
    BY <1>1, <1>3, <1>5, <1>6, <1>7, <1>8, CountFinish DEF Next

\* The counters of the orchestrator account for each event that reached the
\* correlator exactly once, also while loop and drain interleave (_process_one).
THEOREM EventsCounted == Spec => []CountedOnce
  <1>1. Init => CountInv
    <2>. SUFFICES ASSUME Init
                  PROVE  CountInv
      OBVIOUS
    <2>1. 1..taken = {}
      BY DEF Init
    <2>2. \A fates : Through(fates) = {}
      BY <2>1 DEF Through
    <2>3. \A fates : Cardinality(Through(fates)) = 0
      BY <2>2, FS_EmptySet
    <2>4. processed <= 0 /\ processed + errors \in 0..(0 + 0)
      BY DEF Init
    <2>5. CountedOnce
      BY <2>3, <2>4 DEF CountedOnce
    <2>. QED
      BY <2>5 DEF Init, CountInv, HandsApart, Worker
  <1>2. CountInv => CountedOnce
    BY DEF CountInv
  <1>. QED
    BY <1>1, <1>2, CountStep, InvHolds, PTL DEF Spec
=============================================================================
