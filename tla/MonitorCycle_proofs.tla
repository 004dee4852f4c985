------------------------- MODULE MonitorCycle_proofs -------------------------
(***************************************************************************)
(* Theorems about MonitorCycle for any events, types, limits and lengths   *)
(* of the log.                                                             *)
(*   TypeCorrect         TypeOK, with InHand as its strengthening          *)
(*   RepeatsAreExcused   NoNeedlessRepeat, from RepeatInv                  *)
(*   FixesAreSingle      OneFixPerCycle, from FixInv                       *)
(*   ReportsStayWithin   ReportsReserved, from ReportInv                   *)
(*   SeenEventsWereTold  SeenWasAlerted, from AlertInv                     *)
(***************************************************************************)
EXTENDS MonitorCycle, TLAPS

TypeInv == TypeOK /\ InHand

\* The types of the counters of a cycle and of what it did.
Cycles == [handled: Nat, auto: Nat, reports: Nat, alerts: Nat, records: Nat,
           typeReports: [Types -> Nat], typeAlerts: [Types -> Nat]]
Deeds  == [fixes: Nat, reports: Nat]

LEMMA NewCycleTyped ==
  /\ NewCycle \in Cycles
  /\ NewCycle.handled = 0 /\ NewCycle.reports = 0 /\ NewCycle.alerts = 0
  /\ \A t \in Types : NewCycle.typeReports[t] = 0 /\ NewCycle.typeAlerts[t] = 0
BY DEF NewCycle, Cycles

LEMMA NothingTyped ==
  /\ Nothing \in Deeds
  /\ Nothing.fixes = 0 /\ Nothing.reports = 0
BY DEF Nothing, Deeds

LEMMA InitTyped == Init => TypeInv
<1> SUFFICES ASSUME Init PROVE TypeInv
  OBVIOUS
<1>1. TypeOK
  <2>1. mode \in Modes /\ auto \in BOOLEAN /\ inode \in Nat
    BY DEF Init
  <2>2. log \in Seq(Fingerprints) /\ todo \in Seq(Fingerprints)
    BY DEF Init
  <2>3. mark \in [inode: Nat, offset: Nat] /\ stat \in [inode: Nat, size: Nat]
    BY DEF Init, Origin, NoStat
  <2>4. /\ cycle \in Cycles
        /\ did \in Deeds
    BY NewCycleTyped, NothingTyped DEF Init
  <2>5. handled \in [Fingerprints -> Nat] /\ excused \in [Fingerprints -> Nat]
    BY DEF Init
  <2>6. budget \in [lines: Nat, rotations: Nat, fails: Nat, crashes: Nat]
    BY BoundsAssumption DEF Init
  <2>7. /\ pc \in {"down", "sleep", "stat", "read", "pick", "recover", "notify",
                   "mark", "end"}
        /\ seen \subseteq Fingerprints /\ saved \subseteq Fingerprints
        /\ quiet \subseteq Fingerprints /\ alerted \subseteq Fingerprints
        /\ told \subseteq Fingerprints /\ cooling \in BOOLEAN
    BY DEF Init
  <2>8. QED
    BY <2>1, <2>2, <2>3, <2>4, <2>5, <2>6, <2>7 DEF TypeOK, Cycles, Deeds
<1>2. InHand
  BY DEF Init, InHand, Busy
<1>3. QED
  BY <1>1, <1>2 DEF TypeInv

\* A part of the log holds events.
LEMMA WindowTyped ==
  ASSUME NEW s \in Seq(Fingerprints), NEW m \in Nat, m >= 1,
         NEW n \in Nat, n <= Len(s)
  PROVE  Lines(SubSeq(s, m, n)) \subseteq Fingerprints
<1>1. \A i \in 1..Len(SubSeq(s, m, n)) : SubSeq(s, m, n)[i] \in Fingerprints
  OBVIOUS
<1>2. QED
  BY <1>1 DEF Lines

LEMMA LastOfTyped ==
  ASSUME NEW s \in Seq(Fingerprints)
  PROVE  Lines(LastOf(s)) \subseteq Fingerprints
<1>1. /\ Len(s) + 1 - Least(TailLines, Len(s)) \in Nat
      /\ Len(s) + 1 - Least(TailLines, Len(s)) >= 1
  BY LimitsAssumption DEF Least
<1>2. QED
  BY <1>1, WindowTyped DEF LastOf

\* What is taken from a window is a short sequence of its events.
LEMMA TakeTyped ==
  ASSUME NEW w, Lines(w) \subseteq Fingerprints, Take(w)
  PROVE  todo' \in Seq(Fingerprints) /\ Len(todo') <= MaxEvents /\ pc' = "pick"
<1>1. PICK n \in 0..MaxEvents : \E s \in [1..n -> Lines(w)] : todo' = s
  BY DEF Take
<1>2. PICK s \in [1..n -> Lines(w)] : todo' = s
  BY <1>1
<1>3. s \in [1..n -> Fingerprints] /\ n \in Nat /\ n <= MaxEvents
  BY <1>2, LimitsAssumption
<1>4. s \in Seq(Fingerprints) /\ Len(s) = n
  BY <1>3
<1>5. QED
  BY <1>2, <1>3, <1>4 DEF Take

\* Each way of reading leaves short work and moves the mark to a proper place.
LEMMA ReadTyped ==
  ASSUME TypeOK, Read
  PROVE  /\ todo' \in Seq(Fingerprints) /\ Len(todo') <= MaxEvents
         /\ pc = "read" /\ pc' = "pick"
         /\ mark' \in [inode: Nat, offset: Nat] /\ stat' \in [inode: Nat, size: Nat]
         /\ UNCHANGED <<source, seen, saved, cycle, limits, did, tally, budget>>
<1>t. /\ log \in Seq(Fingerprints) /\ Len(log) \in Nat
      /\ mark \in [inode: Nat, offset: Nat] /\ stat \in [inode: Nat, size: Nat]
      /\ NoStat \in [inode: Nat, size: Nat]
  BY DEF TypeOK, NoStat
<1>1. CASE ReadLocal
  <2> DEFINE from == IF Len(log) < mark.offset THEN 0 ELSE mark.offset
  <2>1. from \in Nat
    BY <1>t
  <2>2. Lines(SubSeq(log, from + 1, Len(log))) \subseteq Fingerprints
    BY <2>1, <1>t, WindowTyped
  <2>3. Take(SubSeq(log, from + 1, Len(log)))
    BY <1>1 DEF ReadLocal
  <2> HIDE DEF from
  <2>4. todo' \in Seq(Fingerprints) /\ Len(todo') <= MaxEvents /\ pc' = "pick"
    BY <2>2, <2>3, TakeTyped
  <2>5. QED
    BY <1>1, <1>t, <2>4 DEF ReadLocal
<1>2. CASE ReadRemote
  <2> DEFINE w == IF InRange
                  THEN SubSeq(log, ReadFrom + 1, Least(stat.size, Len(log)))
                  ELSE LastOf(log)
  <2>1. ReadFrom \in Nat /\ Least(stat.size, Len(log)) \in Nat
        /\ Least(stat.size, Len(log)) <= Len(log)
    BY <1>t DEF ReadFrom, Least
  <2>2. Lines(w) \subseteq Fingerprints
    <3>1. CASE InRange
      BY <3>1, <2>1, <1>t, WindowTyped
    <3>2. CASE ~InRange
      BY <3>2, <1>t, LastOfTyped
    <3>3. QED
      BY <3>1, <3>2
  <2>3. Take(w)
    BY <1>2 DEF ReadRemote
  <2> HIDE DEF w
  <2>4. todo' \in Seq(Fingerprints) /\ Len(todo') <= MaxEvents /\ pc' = "pick"
    BY <2>2, <2>3, TakeTyped
  <2>5. QED
    BY <1>2, <1>t, <2>4 DEF ReadRemote
<1>3. CASE ReadTail
  <2>1. Lines(LastOf(log)) \subseteq Fingerprints
    BY <1>t, LastOfTyped
  <2>2. Take(LastOf(log))
    BY <1>3 DEF ReadTail
  <2>3. todo' \in Seq(Fingerprints) /\ Len(todo') <= MaxEvents /\ pc' = "pick"
    BY <2>1, <2>2, TakeTyped
  <2>4. QED
    BY <1>3, <1>t, <2>3 DEF ReadTail
<1>4. CASE ReadNothing
  BY <1>4, <1>t, LimitsAssumption DEF ReadNothing
<1>5. QED
  BY <1>1, <1>2, <1>3, <1>4 DEF Read

-----------------------------------------------------------------------------
\* The parts of the state a step of the daemon seldom touches, and their types.
LEMMA SpendTyped ==
  ASSUME budget \in [lines: Nat, rotations: Nat, fails: Nat, crashes: Nat],
         NEW what \in {"lines", "rotations", "fails", "crashes"},
         Has(what), Spend(what)
  PROVE  budget' \in [lines: Nat, rotations: Nat, fails: Nat, crashes: Nat]
<1>1. budget[what] \in Nat /\ budget[what] > 0
  BY DEF Has
<1>2. budget[what] - 1 \in Nat
  BY <1>1
<1>3. QED
  BY <1>2 DEF Spend

\* The rest of the events in hand.
LEMMA TailTyped ==
  ASSUME todo \in Seq(Fingerprints), todo # <<>>
  PROVE  /\ Event \in Fingerprints
         /\ Tail(todo) \in Seq(Fingerprints) /\ Len(Tail(todo)) = Len(todo) - 1
BY DEF Event

\* How often each event was handled, or excused, stays a number.
LEMMA ExcusedTyped ==
  ASSUME excused \in [Fingerprints -> Nat], NEW S,
         excused' = [f \in Fingerprints |->
                      IF f \in S THEN excused[f] + 1 ELSE excused[f]]
  PROVE  excused' \in [Fingerprints -> Nat]
OBVIOUS

\* Reading and setting the counters of a cycle.
LEMMA CycleFields ==
  ASSUME NEW c \in Cycles
  PROVE  /\ c.reports \in Nat /\ c.handled \in Nat /\ c.alerts \in Nat
         /\ c.auto \in Nat /\ c.records \in Nat
         /\ c.typeReports \in [Types -> Nat] /\ c.typeAlerts \in [Types -> Nat]
BY DEF Cycles

LEMMA CycleSet ==
  ASSUME NEW c \in Cycles, NEW n \in Nat, NEW h \in Nat, NEW r \in Nat
  PROVE  /\ [c EXCEPT !.records = n] \in Cycles
         /\ [c EXCEPT !.reports = n] \in Cycles
         /\ [c EXCEPT !.auto = n] \in Cycles
         /\ [c EXCEPT !.alerts = n] \in Cycles
         /\ [c EXCEPT !.auto = n, !.handled = h, !.reports = r] \in Cycles
BY DEF Cycles

LEMMA TypeCounted ==
  ASSUME NEW c \in Cycles, NEW t \in Types
  PROVE  /\ [c EXCEPT !.typeReports[t] = @ + 1] \in Cycles
         /\ [c EXCEPT !.typeAlerts[t] = @ + 1] \in Cycles
BY DEF Cycles

\* What admitting an event, and alerting it, counts.
LEMMA AdmitTyped ==
  ASSUME NEW c \in Cycles, NEW t \in Types, NEW n \in Nat, NEW r \in Nat
  PROVE  [c EXCEPT !.auto = n, !.handled = @ + 1, !.reports = @ + r,
                   !.typeReports[t] = @ + 1] \in Cycles
<1>1. c.handled + 1 \in Nat /\ c.reports + r \in Nat
  BY CycleFields
<1>2. [c EXCEPT !.auto = n, !.handled = @ + 1, !.reports = @ + r] \in Cycles
  BY <1>1, CycleSet
<1>3. QED
  BY <1>2, TypeCounted

LEMMA AlertTyped ==
  ASSUME NEW c \in Cycles, NEW t \in Types
  PROVE  [c EXCEPT !.alerts = @ + 1, !.typeAlerts[t] = @ + 1] \in Cycles
<1>1. c.alerts + 1 \in Nat
  BY CycleFields
<1>2. [c EXCEPT !.alerts = @ + 1] \in Cycles
  BY <1>1, CycleSet
<1>3. QED
  BY <1>2, TypeCounted

\* Reading and setting what a cycle did.
LEMMA DeedFields ==
  ASSUME NEW d \in Deeds
  PROVE  d.fixes \in Nat /\ d.reports \in Nat
BY DEF Deeds

LEMMA DeedSet ==
  ASSUME NEW d \in Deeds, NEW n \in Nat, NEW m \in Nat
  PROVE  /\ [d EXCEPT !.reports = n] \in Deeds
         /\ [d EXCEPT !.fixes = m, !.reports = n] \in Deeds
BY DEF Deeds

\* Every step keeps the types and what is in hand.
LEMMA StepTyped == TypeInv /\ [Next]_vars => TypeInv'
<1> SUFFICES ASSUME TypeInv, [Next]_vars
             PROVE  TypeInv'
  OBVIOUS
<1> USE DEF TypeInv
<1>t. /\ TypeOK
      /\ cycle \in Cycles /\ did \in Deeds
      /\ inode \in Nat /\ handled \in [Fingerprints -> Nat]
      /\ seen \subseteq Fingerprints
  BY DEF TypeOK, Cycles, Deeds
<1>1. ASSUME NEW f \in Fingerprints, Write(f)
      PROVE  TypeInv'
  <2>1. log' \in Seq(Fingerprints)
    BY <1>1 DEF Write, TypeOK
  <2>2. budget' \in [lines: Nat, rotations: Nat, fails: Nat, crashes: Nat]
    BY <1>1, SpendTyped DEF Write, TypeOK
  <2>3. TypeOK'
    BY <1>1, <2>1, <2>2 DEF Write, TypeOK, limits, tally
  <2>4. InHand'
    BY <1>1 DEF Write, InHand, Busy, Event
  <2>5. QED
    BY <2>3, <2>4
<1>2. CASE Rotate
  <2>1. log' \in Seq(Fingerprints) /\ inode' \in Nat
    BY <1>2, <1>t DEF Rotate
  <2>2. budget' \in [lines: Nat, rotations: Nat, fails: Nat, crashes: Nat]
    BY <1>2, SpendTyped DEF Rotate, TypeOK
  <2>3. TypeOK'
    BY <1>2, <2>1, <2>2 DEF Rotate, TypeOK, limits, tally
  <2>4. InHand'
    BY <1>2 DEF Rotate, InHand, Busy, Event
  <2>5. QED
    BY <2>3, <2>4
<1>3. CASE Start
  <2>1. TypeOK'
    BY <1>3 DEF Start, TypeOK, source, limits, tally
  <2>2. InHand'
    BY <1>3 DEF Start, InHand, Busy
  <2>3. QED
    BY <2>1, <2>2
<1>4. CASE Crash
  <2>1. budget' \in [lines: Nat, rotations: Nat, fails: Nat, crashes: Nat]
    BY <1>4, SpendTyped DEF Crash, TypeOK
  <2>2. excused' \in [Fingerprints -> Nat]
    BY <1>4, ExcusedTyped DEF Crash, TypeOK
  <2>3. mark' \in [inode: Nat, offset: Nat] /\ stat' \in [inode: Nat, size: Nat]
    BY <1>4 DEF Crash, TypeOK, Origin, NoStat
  <2>4. todo' \in Seq(Fingerprints)
    BY <1>4 DEF Crash
  <2>5. TypeOK'
    BY <1>4, <2>1, <2>2, <2>3, <2>4, NewCycleTyped, NothingTyped
    DEF Crash, TypeOK, source, Cycles, Deeds
  <2>6. InHand'
    BY <1>4 DEF Crash, InHand, Busy
  <2>7. QED
    BY <2>5, <2>6
<1>5. CASE BeginCycle
  <2>1. TypeOK'
    BY <1>5, NewCycleTyped, NothingTyped
    DEF BeginCycle, TypeOK, source, limits, tally, Cycles, Deeds
  <2>2. InHand'
    BY <1>5 DEF BeginCycle, InHand, Busy
  <2>3. QED
    BY <2>1, <2>2
<1>6. CASE Stat
  <2>1. stat' \in [inode: Nat, size: Nat]
    <3>1. Len(log) \in Nat /\ NoStat \in [inode: Nat, size: Nat]
      BY <1>t DEF TypeOK, NoStat
    <3>2. stat' \in {[inode |-> inode, size |-> Len(log)], NoStat}
      BY <1>6 DEF Stat
    <3>3. QED
      BY <1>t, <3>1, <3>2
  <2>2. TypeOK'
    BY <1>6, <2>1 DEF Stat, TypeOK, source, limits, tally
  <2>3. InHand'
    BY <1>6 DEF Stat, InHand, Busy
  <2>4. QED
    BY <2>2, <2>3
<1>7. CASE Read
  <2>1. /\ todo' \in Seq(Fingerprints)
        /\ pc = "read" /\ pc' = "pick"
        /\ mark' \in [inode: Nat, offset: Nat] /\ stat' \in [inode: Nat, size: Nat]
        /\ UNCHANGED <<source, seen, saved, cycle, limits, did, tally, budget>>
    BY <1>7, ReadTyped
  <2>2. TypeOK'
    BY <2>1 DEF TypeOK, source, limits, tally
  <2>3. InHand'
    BY <2>1 DEF InHand, Busy
  <2>4. QED
    BY <2>2, <2>3
<1>8. CASE SkipSeen
  <2>1. TypeOK'
    BY <1>8, TailTyped DEF SkipSeen, Picking, TypeOK, source, limits, tally
  <2>2. InHand'
    BY <1>8 DEF SkipSeen, Picking, InHand, Busy
  <2>3. QED
    BY <2>1, <2>2
<1>9. CASE SkipExtraCandidate
  <2>1. TypeOK'
    BY <1>9, TailTyped DEF SkipExtraCandidate, Picking, TypeOK, source, limits, tally
  <2>2. InHand'
    BY <1>9 DEF SkipExtraCandidate, Picking, InHand, Busy
  <2>3. QED
    BY <2>1, <2>2
<1>10. CASE SkipUnreported
  <2>1. cycle' \in Cycles
    <3>1. PICK candidate \in Verdicts(Event) :
            cycle' = [cycle EXCEPT !.auto = Counted(candidate)]
      BY <1>10 DEF SkipUnreported
    <3>2. Counted(candidate) \in Nat
      BY <1>t, CycleFields DEF Counted
    <3>3. QED
      BY <1>t, <3>1, <3>2, CycleSet
  <2>2. TypeOK'
    BY <1>10, <2>1, TailTyped
    DEF SkipUnreported, Picking, TypeOK, source, limits, tally, Cycles
  <2>3. InHand'
    BY <1>10 DEF SkipUnreported, Picking, InHand, Busy
  <2>4. QED
    BY <2>2, <2>3
<1>11. CASE Admit
  <2>1. cycle' \in Cycles
    <3>1. PICK candidate \in Verdicts(Event) :
            cycle' = [cycle EXCEPT !.auto = Counted(candidate), !.handled = @ + 1,
                                   !.reports = @ + Reports,
                                   !.typeReports[Type[Event]] = @ + 1]
      BY <1>11 DEF Admit
    <3>2. Counted(candidate) \in Nat /\ Reports \in Nat
      BY <1>t, CycleFields DEF Counted, Reports
    <3>3. Type[Event] \in Types
      BY <1>11, <1>t, TailTyped, FunctionsAssumption DEF Admit, Picking, TypeOK
    <3>4. QED
      BY <1>t, <3>1, <3>2, <3>3, AdmitTyped
  <2>2. TypeOK'
    BY <1>11, <2>1, TailTyped DEF Admit, Picking, TypeOK, source, tally, Cycles
  <2>3. InHand'
    BY <1>11 DEF Admit, Picking, InHand, Event
  <2>4. QED
    BY <2>2, <2>3
<1>12. CASE Recover
  <2>1. todo # <<>>
    BY <1>12 DEF Recover, InHand, Busy
  <2>2. did' \in Deeds
    <3>1. PICK fix \in Verdicts(Event) :
            did' = [did EXCEPT !.fixes = @ + (IF fix THEN 1 ELSE 0),
                               !.reports = @ + 1]
      BY <1>12 DEF Recover
    <3>2. did.fixes + (IF fix THEN 1 ELSE 0) \in Nat /\ did.reports + 1 \in Nat
      BY <1>t, DeedFields
    <3>3. QED
      BY <1>t, <3>1, <3>2, DeedSet
  <2>3. handled' \in [Fingerprints -> Nat]
    <3>1. handled' = [handled EXCEPT ![Event] = @ + 1]
      BY <1>12 DEF Recover
    <3>2. Event \in Fingerprints
      BY <1>t, <2>1, TailTyped DEF TypeOK
    <3>3. QED
      BY <1>t, <3>1, <3>2
  <2>4. cooling' \in BOOLEAN
    BY <1>12 DEF Recover, TypeOK, Verdicts
  <2>5. TypeOK'
    BY <1>12, <2>2, <2>3, <2>4 DEF Recover, TypeOK, source, Deeds
  <2>6. InHand'
    BY <1>12 DEF Recover, InHand, Busy, Event
  <2>7. QED
    BY <2>5, <2>6
<1>13. CASE Notify
  <2>1. todo # <<>>
    BY <1>13 DEF Notify, InHand, Busy
  <2>2. did' \in Deeds
    <3>1. did.reports + (IF auto THEN 1 ELSE 0) \in Nat
      BY <1>t, DeedFields
    <3>2. did' \in {did, [did EXCEPT !.reports = @ + (IF auto THEN 1 ELSE 0)]}
      BY <1>13 DEF Notify
    <3>3. QED
      BY <1>t, <3>1, <3>2, DeedSet
  <2>3. cycle' \in Cycles
    <3>1. Type[Event] \in Types
      BY <1>t, <2>1, TailTyped, FunctionsAssumption DEF TypeOK
    <3>2. \/ cycle' = cycle
          \/ cycle' = [cycle EXCEPT !.alerts = @ + 1,
                                    !.typeAlerts[Type[Event]] = @ + 1]
      BY <1>13 DEF Notify
    <3>3. QED
      BY <1>t, <3>1, <3>2, AlertTyped
  <2>4. alerted' \subseteq Fingerprints /\ told' \subseteq Fingerprints
    BY <1>13, <2>1, TailTyped DEF Notify, TypeOK
  <2>5. TypeOK'
    BY <1>13, <2>2, <2>3, <2>4 DEF Notify, TypeOK, source, Cycles, Deeds
  <2>6. InHand'
    BY <1>13 DEF Notify, InHand, Busy, Event
  <2>7. QED
    BY <2>5, <2>6
<1>14. CASE HandleFails
  <2>1. todo # <<>>
    BY <1>14 DEF HandleFails, InHand, Busy
  <2>2. budget' \in [lines: Nat, rotations: Nat, fails: Nat, crashes: Nat]
    BY <1>14, SpendTyped DEF HandleFails, TypeOK
  <2>3. excused' \in [Fingerprints -> Nat]
    BY <1>14, ExcusedTyped DEF HandleFails, TypeOK
  <2>4. TypeOK'
    BY <1>14, <2>1, <2>2, <2>3, TailTyped DEF HandleFails, TypeOK, source, limits
  <2>5. InHand'
    BY <1>14 DEF HandleFails, InHand, Busy
  <2>6. QED
    BY <2>4, <2>5
<1>15. CASE MarkSeen
  <2>1. todo # <<>>
    BY <1>15 DEF MarkSeen, InHand, Busy
  <2>2. cycle' \in Cycles
    <3>1. cycle.records + 1 \in Nat
      BY <1>t, CycleFields
    <3>2. cycle' = [cycle EXCEPT !.records = @ + 1]
      BY <1>15 DEF MarkSeen
    <3>3. QED
      BY <1>t, <3>1, <3>2, CycleSet
  <2>3. seen' \subseteq Fingerprints /\ saved' \subseteq seen'
    <3>1. seen' \subseteq Fingerprints
      BY <1>15, <1>t, <2>1, TailTyped DEF MarkSeen, TypeOK
    <3>2. saved' = Kept(seen')
      BY <1>15 DEF MarkSeen
    <3>3. QED
      BY <3>1, <3>2 DEF Kept
  <2>4. TypeOK'
    BY <1>15, <2>1, <2>2, <2>3, TailTyped
    DEF MarkSeen, TypeOK, source, limits, tally, Cycles
  <2>5. InHand'
    BY <1>15, <2>3 DEF MarkSeen, InHand, Busy
  <2>6. QED
    BY <2>4, <2>5
<1>16. CASE EndCycle
  <2>1. cycle' \in Cycles
    <3>1. cycle.reports + 1 \in Nat
      BY <1>t, CycleFields
    <3>2. cycle' = cycle \/ cycle' = [cycle EXCEPT !.reports = @ + 1]
      BY <1>16 DEF EndCycle
    <3>3. QED
      BY <1>t, <3>1, <3>2, CycleSet
  <2>2. did' \in Deeds
    <3>1. did.reports + 1 \in Nat
      BY <1>t, DeedFields
    <3>2. did' = did \/ did' = [did EXCEPT !.reports = @ + 1]
      BY <1>16 DEF EndCycle
    <3>3. QED
      BY <1>t, <3>1, <3>2, DeedSet
  <2>3. TypeOK'
    BY <1>16, <2>1, <2>2
    DEF EndCycle, TypeOK, source, limits, tally, Cycles, Deeds
  <2>4. InHand'
    BY <1>16 DEF EndCycle, InHand, Busy
  <2>5. QED
    BY <2>3, <2>4
<1>17. CASE FinishCycle
  <2>1. TypeOK'
    BY <1>17, NewCycleTyped, NothingTyped
    DEF FinishCycle, TypeOK, source, limits, tally, Cycles, Deeds
  <2>2. InHand'
    BY <1>17 DEF FinishCycle, InHand, Busy
  <2>3. QED
    BY <2>1, <2>2
<1>18. ASSUME NEW f \in Fingerprints, ReportAgain(f)
       PROVE  TypeInv'
  <2>1. TypeOK'
    BY <1>18 DEF ReportAgain, TypeOK, source, tally
  <2>2. InHand'
    BY <1>18 DEF ReportAgain, InHand, Busy
  <2>3. QED
    BY <2>1, <2>2
<1>19. CASE FixAgain
  <2>1. TypeOK'
    BY <1>19 DEF FixAgain, TypeOK, source, tally
  <2>2. InHand'
    BY <1>19 DEF FixAgain, InHand, Busy
  <2>3. QED
    BY <2>1, <2>2
<1>20. CASE UNCHANGED vars
  <2>1. TypeOK'
    BY <1>20 DEF vars, source, limits, tally, TypeOK
  <2>2. InHand'
    BY <1>20 DEF vars, source, limits, tally, InHand, Busy, Event
  <2>3. QED
    BY <2>1, <2>2
<1>21. QED
  BY <1>1, <1>2, <1>3, <1>4, <1>5, <1>6, <1>7, <1>8, <1>9, <1>10, <1>11, <1>12,
     <1>13, <1>14, <1>15, <1>16, <1>17, <1>18, <1>19, <1>20
  DEF Next, Daemon, Pick, Handle

LEMMA AlwaysTyped == Spec => []TypeInv
BY InitTyped, StepTyped, PTL DEF Spec

\* Every variable keeps its type, whatever is written, rotated or crashes.
THEOREM TypeCorrect == Spec => []TypeOK
<1>1. TypeInv => TypeOK
  BY DEF TypeInv
<1>2. QED
  BY <1>1, AlwaysTyped, PTL

-----------------------------------------------------------------------------
(***************************************************************************)
(* An event is handled again only when a handling of it was undone.        *)
(***************************************************************************)
\* Nothing to show when the calls are as they were and no event is let go.
LEMMA RepeatKept ==
  ASSUME TypeInv, TypeInv', RepeatInv, UNCHANGED <<handled, excused>>,
         Standing \subseteq Standing'
  PROVE  RepeatInv'
<1> SUFFICES ASSUME NEW f \in Fingerprints
             PROVE  handled'[f] <= excused'[f] + (IF f \in Standing' THEN 1 ELSE 0)
  BY DEF RepeatInv
<1>1. handled[f] \in Nat /\ excused[f] \in Nat
  BY DEF TypeInv, TypeOK
<1>2. handled[f] <= excused[f] + (IF f \in Standing THEN 1 ELSE 0)
  BY DEF RepeatInv
<1>3. QED
  BY <1>1, <1>2

LEMMA RepeatStep == TypeInv /\ TypeInv' /\ RepeatInv /\ [Next]_vars => RepeatInv'
<1> SUFFICES ASSUME TypeInv, TypeInv', RepeatInv, [Next]_vars
             PROVE  RepeatInv'
  OBVIOUS
<1> USE DEF Standing, Unmarked
<1>1. ASSUME NEW f \in Fingerprints, Write(f)
      PROVE  RepeatInv'
  <2>1. UNCHANGED <<handled, excused, pc, todo, seen, saved>>
    BY <1>1 DEF Write, tally
  <2>2. QED
    BY <2>1, RepeatKept DEF Event
<1>2. CASE Rotate
  <2>1. UNCHANGED <<handled, excused, pc, todo, seen, saved>>
    BY <1>2 DEF Rotate, tally
  <2>2. QED
    BY <2>1, RepeatKept DEF Event
<1>3. CASE Start
  <2>1. UNCHANGED <<handled, excused>> /\ Standing = saved /\ seen' = saved
    BY <1>3 DEF Start, tally
  <2>2. QED
    BY <1>3, <2>1, RepeatKept DEF Start
<1>4. CASE Crash
  <2> SUFFICES ASSUME NEW f \in Fingerprints
               PROVE  handled'[f] <= excused'[f] + (IF f \in saved' THEN 1 ELSE 0)
    BY <1>4 DEF Crash, RepeatInv
  <2>1. handled[f] \in Nat /\ excused[f] \in Nat
    BY DEF TypeInv, TypeOK
  <2>2. /\ handled[f] <= excused[f] + (IF f \in seen \cup Unmarked THEN 1 ELSE 0)
        /\ UNCHANGED <<handled, saved>>
        /\ excused'[f] = IF f \in Unmarked \cup (seen \ saved) THEN excused[f] + 1
                         ELSE excused[f]
    BY <1>4 DEF Crash, RepeatInv
  <2>3. QED
    BY <2>1, <2>2
<1>5. CASE BeginCycle \/ Stat \/ EndCycle \/ FinishCycle
  <2>1. /\ UNCHANGED <<handled, excused, seen>>
        /\ Standing = seen /\ Standing' = seen'
    BY <1>5 DEF BeginCycle, Stat, EndCycle, FinishCycle, tally
  <2>2. QED
    BY <2>1, RepeatKept
<1>6. CASE Read
  <2>1. /\ UNCHANGED <<handled, excused, seen>>
        /\ Standing = seen /\ Standing' = seen'
    BY <1>6
    DEF Read, ReadLocal, ReadRemote, ReadTail, ReadNothing, Take, tally
  <2>2. QED
    BY <2>1, RepeatKept
<1>7. CASE Pick
  <2>1. /\ UNCHANGED <<handled, excused, seen>>
        /\ Standing = seen /\ Standing' = seen'
    BY <1>7
    DEF Pick, SkipSeen, SkipExtraCandidate, SkipUnreported, Admit, Picking, tally
  <2>2. QED
    BY <2>1, RepeatKept
<1>8. CASE Recover
  <2> SUFFICES ASSUME NEW f \in Fingerprints
               PROVE  handled'[f] <= excused'[f]
                                     + (IF f \in seen \cup {Event} THEN 1 ELSE 0)
    BY <1>8 DEF Recover, RepeatInv, Event
  <2>1. handled[f] \in Nat /\ excused[f] \in Nat /\ Event \notin seen
    BY <1>8 DEF TypeInv, TypeOK, InHand, Busy, Recover
  <2>2. /\ handled[f] <= excused[f] + (IF f \in seen THEN 1 ELSE 0)
        /\ excused' = excused
        /\ handled'[f] = IF f = Event THEN handled[f] + 1 ELSE handled[f]
    BY <1>8 DEF Recover, RepeatInv, TypeInv, TypeOK
  <2>3. QED
    BY <2>1, <2>2
<1>9. CASE Notify
  <2>1. UNCHANGED <<handled, excused, seen, todo>> /\ Standing' = Standing
    BY <1>9 DEF Notify, Event
  <2>2. QED
    BY <2>1, RepeatKept
<1>10. CASE HandleFails
  <2> SUFFICES ASSUME NEW f \in Fingerprints
               PROVE  handled'[f] <= excused'[f] + (IF f \in seen THEN 1 ELSE 0)
    BY <1>10 DEF HandleFails, RepeatInv
  <2>1. handled[f] \in Nat /\ excused[f] \in Nat
    BY DEF TypeInv, TypeOK
  <2>2. /\ handled[f] <= excused[f] + (IF f \in seen \cup Unmarked THEN 1 ELSE 0)
        /\ handled' = handled
        /\ excused'[f] = IF f \in Unmarked THEN excused[f] + 1 ELSE excused[f]
    BY <1>10 DEF HandleFails, RepeatInv
  <2>3. QED
    BY <2>1, <2>2
<1>11. CASE MarkSeen
  <2>1. /\ UNCHANGED <<handled, excused>>
        /\ Standing = seen \cup {Event} /\ Standing' = seen \cup {Event}
    BY <1>11 DEF MarkSeen, tally, Event
  <2>2. QED
    BY <2>1, RepeatKept
<1>12. ASSUME NEW f \in Fingerprints, ReportAgain(f)
       PROVE  RepeatInv'
  <2>1. UNCHANGED <<handled, excused, pc, todo, seen, saved>>
    BY <1>12 DEF ReportAgain, tally
  <2>2. QED
    BY <2>1, RepeatKept DEF Event
<1>13. CASE FixAgain
  <2>1. UNCHANGED <<handled, excused, pc, todo, seen, saved>>
    BY <1>13 DEF FixAgain, tally
  <2>2. QED
    BY <2>1, RepeatKept DEF Event
<1>14. CASE UNCHANGED vars
  <2>1. UNCHANGED <<handled, excused, pc, todo, seen, saved>>
    BY <1>14 DEF vars, tally
  <2>2. QED
    BY <2>1, RepeatKept DEF Event
<1>15. QED
  BY <1>1, <1>2, <1>3, <1>4, <1>5, <1>6, <1>7, <1>8, <1>9, <1>10, <1>11, <1>12,
     <1>13, <1>14
  DEF Next, Daemon, Handle

\* However often the log is read again, the recovery runner is called again for
\* an event only after an exception, a crash or a saved mark that was dropped.
THEOREM RepeatsAreExcused == Spec => []NoNeedlessRepeat
<1>1. Init => RepeatInv
  <2> SUFFICES ASSUME Init, NEW f \in Fingerprints
               PROVE  handled[f] <= excused[f] + (IF f \in Standing THEN 1 ELSE 0)
    BY DEF RepeatInv
  <2>1. handled[f] = 0 /\ excused[f] = 0
    BY DEF Init
  <2>2. QED
    BY <2>1
<1>2. TypeInv /\ RepeatInv => NoNeedlessRepeat
  <2> SUFFICES ASSUME TypeInv, RepeatInv, NEW f \in Fingerprints
               PROVE  handled[f] <= 1 + excused[f]
    BY DEF NoNeedlessRepeat
  <2>1. handled[f] \in Nat /\ excused[f] \in Nat
    BY DEF TypeInv, TypeOK
  <2>2. handled[f] <= excused[f] + (IF f \in Standing THEN 1 ELSE 0)
    BY DEF RepeatInv
  <2>3. QED
    BY <2>1, <2>2
<1>3. QED
  BY <1>1, <1>2, RepeatStep, AlwaysTyped, PTL DEF Spec

-----------------------------------------------------------------------------
(***************************************************************************)
(* One fix in a cycle.                                                     *)
(***************************************************************************)
LEMMA FixStep == TypeInv /\ FixInv /\ [Next]_vars => FixInv'
<1> SUFFICES ASSUME TypeInv, FixInv, [Next]_vars
             PROVE  FixInv'
  OBVIOUS
<1>t. did \in Deeds /\ did.fixes \in Nat /\ cooling \in BOOLEAN
  BY DEF TypeInv, TypeOK, Deeds
<1> USE DEF FixInv
<1>1. ASSUME NEW f \in Fingerprints, Write(f) \/ ReportAgain(f)
      PROVE  FixInv'
  BY <1>1 DEF Write, ReportAgain, limits
<1>2. CASE Rotate \/ Start
  BY <1>2 DEF Rotate, Start, limits
<1>3. CASE Crash \/ BeginCycle \/ FinishCycle
  <2>1. did' = Nothing
    BY <1>3 DEF Crash, BeginCycle, FinishCycle
  <2>2. QED
    BY <2>1, NothingTyped
<1>4. CASE Stat \/ Read \/ Pick \/ HandleFails \/ MarkSeen
  <2>1. UNCHANGED <<did, cooling>> /\ pc' \notin {"down", "sleep"}
    BY <1>4
    DEF Stat, Read, ReadLocal, ReadRemote, ReadTail, ReadNothing, Take, Pick, SkipSeen,
        SkipExtraCandidate, SkipUnreported, Admit, Picking, HandleFails, MarkSeen, limits
  <2>2. QED
    BY <2>1
<1>5. CASE Recover
  <2>1. PICK fix \in Verdicts(Event) :
          /\ fix => MayFix
          /\ cooling' = (cooling \/ fix)
          /\ did' = [did EXCEPT !.fixes = @ + (IF fix THEN 1 ELSE 0),
                                !.reports = @ + 1]
    BY <1>5 DEF Recover
  <2>2. did'.fixes = did.fixes + (IF fix THEN 1 ELSE 0) /\ pc' = "notify"
    BY <1>t, <1>5, <2>1 DEF Deeds, Recover
  <2>3. CASE fix
    <3>1. ~cooling /\ cooling'
      BY <2>1, <2>3 DEF MayFix
    <3>2. did.fixes = 0
      BY <1>t, <3>1
    <3>3. did'.fixes = 1
      BY <2>2, <2>3, <3>2
    <3>4. QED
      BY <2>2, <3>1, <3>3
  <2>4. CASE ~fix
    BY <1>t, <2>1, <2>2, <2>4
  <2>5. QED
    BY <2>3, <2>4
<1>6. CASE Notify \/ EndCycle
  <2>1. \/ did' = did
        \/ did' = [did EXCEPT !.reports = @ + (IF auto THEN 1 ELSE 0)]
        \/ did' = [did EXCEPT !.reports = @ + 1]
    BY <1>6 DEF Notify, EndCycle
  <2>2. did'.fixes = did.fixes
    BY <1>t, <2>1 DEF Deeds
  <2>3. UNCHANGED cooling /\ pc' \notin {"down", "sleep"}
    BY <1>6 DEF Notify, EndCycle, limits
  <2>4. QED
    BY <2>2, <2>3
<1>7. CASE FixAgain
  BY <1>7 DEF FixAgain
<1>8. CASE UNCHANGED vars
  BY <1>8 DEF vars, limits
<1>9. QED
  BY <1>1, <1>2, <1>3, <1>4, <1>5, <1>6, <1>7, <1>8
  DEF Next, Daemon, Handle

\* A cycle makes one fix at most, whatever is a candidate when.
THEOREM FixesAreSingle == Spec => []OneFixPerCycle
<1>1. Init => FixInv
  BY NothingTyped DEF Init, FixInv
<1>2. FixInv => OneFixPerCycle
  BY DEF FixInv, OneFixPerCycle
<1>3. QED
  BY <1>1, <1>2, FixStep, AlwaysTyped, PTL DEF Spec

-----------------------------------------------------------------------------
(***************************************************************************)
(* Reports are reserved before they are written.                           *)
(***************************************************************************)
\* What is owed is what the place in the cycle says.
LEMMA OwedFacts ==
  ASSUME TypeInv
  PROVE  /\ cycle \in Cycles /\ cycle.reports \in Nat
         /\ did \in Deeds /\ did.reports \in Nat
         /\ Unwritten \in Nat /\ Reports \in Nat
BY DEF TypeInv, TypeOK, Cycles, Deeds, Unwritten, Reports

\* Steps that neither reserve nor write.
LEMMA ReportKept ==
  ASSUME TypeInv, TypeInv', ReportInv,
         did'.reports = did.reports, cycle'.reports = cycle.reports,
         Unwritten' <= Unwritten
  PROVE  ReportInv'
<1>1. did'.reports \in Nat /\ cycle'.reports \in Nat /\ Unwritten' \in Nat
  BY DEF TypeInv, TypeOK, Unwritten, Reports
<1>2. QED
  BY <1>1, OwedFacts, LimitsAssumption DEF ReportInv

LEMMA ReportStep == TypeInv /\ TypeInv' /\ ReportInv /\ [Next]_vars => ReportInv'
<1> SUFFICES ASSUME TypeInv, TypeInv', ReportInv, [Next]_vars
             PROVE  ReportInv'
  OBVIOUS
<1>t. /\ cycle \in Cycles /\ cycle.reports \in Nat
      /\ did \in Deeds /\ did.reports \in Nat
      /\ Unwritten \in Nat /\ Reports \in Nat
      /\ did.reports + Unwritten <= cycle.reports /\ cycle.reports <= MaxReports
  BY OwedFacts DEF ReportInv
<1>1. ASSUME NEW f \in Fingerprints, Write(f) \/ ReportAgain(f)
      PROVE  ReportInv'
  <2>1. UNCHANGED <<did, cycle, pc, auto>>
    BY <1>1 DEF Write, ReportAgain, source
  <2>2. QED
    BY <1>t, <2>1, ReportKept DEF Unwritten, Reports
<1>2. CASE Rotate \/ FixAgain \/ UNCHANGED vars
  <2>1. UNCHANGED <<did, cycle, pc, auto>>
    BY <1>2 DEF Rotate, FixAgain, vars, source
  <2>2. QED
    BY <1>t, <2>1, ReportKept DEF Unwritten, Reports
<1>3. CASE Crash \/ BeginCycle \/ FinishCycle
  <2>1. did' = Nothing /\ cycle' = NewCycle /\ Unwritten' = 0
    BY <1>3 DEF Crash, BeginCycle, FinishCycle, Unwritten
  <2>2. did'.reports = 0 /\ cycle'.reports = 0
    BY <2>1, NothingTyped, NewCycleTyped
  <2>3. QED
    BY <2>1, <2>2, LimitsAssumption DEF ReportInv
<1>4. CASE Start \/ Stat \/ Read \/ SkipSeen \/ SkipExtraCandidate
           \/ HandleFails
  <2>1. UNCHANGED <<did, cycle>> /\ Unwritten' = 0
    BY <1>4
    DEF Start, Stat, Read, ReadLocal, ReadRemote, ReadTail, ReadNothing, Take,
        SkipSeen, SkipExtraCandidate, Picking, HandleFails, Unwritten
  <2>2. QED
    BY <1>t, <2>1, ReportKept
<1>5. CASE SkipUnreported
  <2>1. PICK candidate \in Verdicts(Event) :
          cycle' = [cycle EXCEPT !.auto = Counted(candidate)]
    BY <1>5 DEF SkipUnreported
  <2>2. cycle'.reports = cycle.reports
    BY <1>t, <2>1 DEF Cycles
  <2>3. UNCHANGED did /\ Unwritten' = 0
    BY <1>5 DEF SkipUnreported, Picking, Unwritten
  <2>4. QED
    BY <1>t, <2>2, <2>3, ReportKept
<1>6. CASE Admit
  <2>1. PICK candidate \in Verdicts(Event) :
          cycle' = [cycle EXCEPT !.auto = Counted(candidate), !.handled = @ + 1,
                                 !.reports = @ + Reports,
                                 !.typeReports[Type[Event]] = @ + 1]
    BY <1>6 DEF Admit
  <2>2. cycle'.reports = cycle.reports + Reports
    BY <1>t, <2>1 DEF Cycles
  <2>3. UNCHANGED did /\ Unwritten' = Reports /\ Unwritten = 0
    BY <1>6 DEF Admit, Picking, Unwritten, Reports, source
  <2>4. cycle.reports + Reports <= MaxReports
    BY <1>6 DEF Admit, ReportFits
  <2>5. QED
    BY <1>t, <2>2, <2>3, <2>4 DEF ReportInv
<1>7. CASE Recover
  <2>1. PICK fix \in Verdicts(Event) :
          did' = [did EXCEPT !.fixes = @ + (IF fix THEN 1 ELSE 0), !.reports = @ + 1]
    BY <1>7 DEF Recover
  <2>2. did'.reports = did.reports + 1
    BY <1>t, <2>1 DEF Deeds
  <2>3. UNCHANGED cycle /\ Unwritten = Unwritten' + 1
    BY <1>7 DEF Recover, Unwritten, Reports, source
  <2>4. Unwritten' \in Nat
    BY DEF Unwritten, Reports
  <2>5. QED
    BY <1>t, <2>2, <2>3, <2>4 DEF ReportInv
<1>8. CASE Notify
  <2>1. \/ cycle' = cycle
        \/ cycle' = [cycle EXCEPT !.alerts = @ + 1,
                                  !.typeAlerts[Type[Event]] = @ + 1]
    BY <1>8 DEF Notify
  <2>2. cycle'.reports = cycle.reports
    BY <1>t, <2>1 DEF Cycles
  <2>3. \/ did' = did
        \/ did' = [did EXCEPT !.reports = @ + (IF auto THEN 1 ELSE 0)]
    BY <1>8 DEF Notify
  <2>4. \/ did'.reports = did.reports
        \/ did'.reports = did.reports + (IF auto THEN 1 ELSE 0)
    BY <1>t, <2>3 DEF Deeds
  <2>5. Unwritten = (IF auto THEN 1 ELSE 0) /\ Unwritten' = 0
    BY <1>8 DEF Notify, Unwritten
  <2>6. QED
    BY <1>t, <2>2, <2>4, <2>5 DEF ReportInv
<1>9. CASE MarkSeen
  <2>1. cycle' = [cycle EXCEPT !.records = @ + 1] /\ UNCHANGED did /\ Unwritten' = 0
    BY <1>9 DEF MarkSeen, Unwritten
  <2>2. cycle'.reports = cycle.reports
    BY <1>t, <2>1 DEF Cycles
  <2>3. QED
    BY <1>t, <2>1, <2>2, ReportKept
<1>10. CASE EndCycle
  <2>1. Unwritten = 0 /\ Unwritten' = 0
    BY <1>10 DEF EndCycle, Unwritten
  <2>2. CASE UNCHANGED <<cycle, did>>
    BY <1>t, <2>1, <2>2, ReportKept
  <2>3. CASE ~UNCHANGED <<cycle, did>>
    <3>1. /\ cycle.reports + 1 <= MaxReports
          /\ cycle' = [cycle EXCEPT !.reports = @ + 1]
          /\ did' = did \/ did' = [did EXCEPT !.reports = @ + 1]
      BY <1>10, <2>3 DEF EndCycle
    <3>2. /\ cycle'.reports = cycle.reports + 1
          /\ did'.reports = did.reports \/ did'.reports = did.reports + 1
      BY <1>t, <3>1 DEF Cycles, Deeds
    <3>3. QED
      BY <1>t, <2>1, <3>1, <3>2 DEF ReportInv
  <2>4. QED
    BY <2>2, <2>3
<1>11. QED
  BY <1>1, <1>2, <1>3, <1>4, <1>5, <1>6, <1>7, <1>8, <1>9, <1>10
  DEF Next, Daemon, Pick, Handle

\* No cycle writes more reports than it reserved, or than its limit.
THEOREM ReportsStayWithin == Spec => []ReportsReserved
<1>1. Init => ReportInv
  BY NothingTyped, NewCycleTyped, LimitsAssumption DEF Init, ReportInv, Unwritten
<1>2. TypeInv /\ ReportInv => ReportsReserved
  <2> SUFFICES ASSUME TypeInv, ReportInv
               PROVE  ReportsReserved
    OBVIOUS
  <2>1. QED
    BY OwedFacts DEF ReportInv, ReportsReserved
<1>3. QED
  BY <1>1, <1>2, ReportStep, AlwaysTyped, PTL DEF Spec

-----------------------------------------------------------------------------
(***************************************************************************)
(* No event is put away untold.                                            *)
(***************************************************************************)
\* The counters that bound the alerts.
Counters(c) == <<c.alerts, c.handled, c.typeAlerts, c.typeReports>>

\* Steps that do not count, and take nothing up: the work does not grow.
LEMMA AlertKept ==
  ASSUME TypeInv, TypeInv', AlertInv,
         Counters(cycle') = Counters(cycle), UNCHANGED told,
         seen' \subseteq told, saved' \subseteq told, alerted' \subseteq told,
         pc' \in {"down", "sleep", "pick", "end"},
         pc' = "pick" => cycle.handled + Len(todo') <= MaxEvents
  PROVE  AlertInv'
<1>t. /\ cycle.alerts \in Nat /\ cycle.handled \in Nat
      /\ cycle.typeAlerts \in [Types -> Nat] /\ cycle.typeReports \in [Types -> Nat]
  BY CycleFields DEF TypeInv, TypeOK, Cycles
<1>1. /\ cycle'.alerts = cycle.alerts /\ cycle'.handled = cycle.handled
      /\ cycle'.typeAlerts = cycle.typeAlerts
      /\ cycle'.typeReports = cycle.typeReports
  BY DEF Counters
<1>2. ~Busy' /\ ~Due' /\ pc' \notin {"mark", "stat", "read"}
  BY DEF Busy, Due
<1>3. cycle'.alerts <= cycle'.handled
  BY <1>t, <1>1 DEF AlertInv
<1>4. ASSUME NEW t \in Types
      PROVE  /\ cycle'.typeAlerts[t] <= cycle'.typeReports[t]
             /\ cycle'.typeReports[t] <= MaxPerType
  <2>1. cycle.typeAlerts[t] \in Nat /\ cycle.typeReports[t] \in Nat
    BY <1>t
  <2>2. /\ cycle.typeAlerts[t] + (IF Due /\ t = Type[Event] THEN 1 ELSE 0)
             <= cycle.typeReports[t]
        /\ cycle.typeReports[t] <= MaxPerType
    BY DEF AlertInv
  <2>3. QED
    BY <1>1, <2>1, <2>2
<1>5. /\ cycle'.alerts + 0 <= cycle'.handled
      /\ \A t \in Types : cycle'.typeAlerts[t] + 0 <= cycle'.typeReports[t]
  <2>1. cycle'.alerts \in Nat /\ cycle'.typeAlerts \in [Types -> Nat]
    BY <1>t, <1>1
  <2>2. QED
    BY <2>1, <1>3, <1>4
<1>6. pc' = "pick" => cycle'.handled + Len(todo') <= MaxEvents + 0
  BY <1>1, LimitsAssumption
<1>7. QED
  BY <1>1, <1>2, <1>4, <1>5, <1>6 DEF AlertInv

\* A new cycle has counted nothing.
LEMMA AlertFresh ==
  ASSUME cycle' = NewCycle, seen' \subseteq told', saved' \subseteq told',
         alerted' \subseteq told', pc' \notin {"recover", "notify", "mark"},
         pc' = "pick" => Len(todo') <= MaxEvents
  PROVE  AlertInv'
<1>1. /\ cycle'.alerts = 0 /\ cycle'.handled = 0
      /\ \A t \in Types : cycle'.typeReports[t] = 0 /\ cycle'.typeAlerts[t] = 0
  BY NewCycleTyped
<1>2. ~Busy' /\ ~Due'
  BY DEF Busy, Due
<1>3. pc' = "pick" => 0 + Len(todo') <= MaxEvents + 0
  BY LimitsAssumption
<1>4. QED
  BY <1>1, <1>2, <1>3, LimitsAssumption DEF AlertInv

\* What the invariant says of the event in hand, by the place in the cycle.
LEMMA AlertFacts ==
  ASSUME TypeInv, AlertInv
  PROVE  /\ cycle \in Cycles
         /\ cycle.alerts \in Nat /\ cycle.handled \in Nat
         /\ cycle.typeAlerts \in [Types -> Nat]
         /\ cycle.typeReports \in [Types -> Nat]
         /\ Len(todo) \in Nat
         /\ seen \subseteq told /\ saved \subseteq told /\ alerted \subseteq told
         /\ todo # <<>> => /\ Type[Event] \in Types /\ Event \in Fingerprints
                          /\ Len(Tail(todo)) = Len(todo) - 1 /\ Len(todo) >= 1
<1>1. todo \in Seq(Fingerprints) /\ cycle \in Cycles
  BY DEF TypeInv, TypeOK, Cycles
<1>2. todo # <<>> => Len(todo) >= 1
  BY <1>1
<1>3. QED
  BY <1>1, <1>2, CycleFields, TailTyped, FunctionsAssumption DEF AlertInv

\* An event that is admitted makes room for its alert.
LEMMA AlertAdmit == TypeInv /\ TypeInv' /\ AlertInv /\ Admit => AlertInv'
<1> SUFFICES ASSUME TypeInv, TypeInv', AlertInv, Admit
             PROVE  AlertInv'
  OBVIOUS
<1>1. PICK candidate \in Verdicts(Event) :
        cycle' = [cycle EXCEPT !.auto = Counted(candidate), !.handled = @ + 1,
                               !.reports = @ + Reports,
                               !.typeReports[Type[Event]] = @ + 1]
  BY DEF Admit
<1>2. /\ pc = "pick" /\ pc' = "recover" /\ todo # <<>>
      /\ UNCHANGED <<todo, seen, saved, alerted, told>> /\ Event' = Event
      /\ cycle.typeReports[Type[Event]] < MaxPerType
  BY DEF Admit, Picking, ReportFits, tally, Event
<1>3. /\ cycle'.alerts = cycle.alerts /\ cycle'.handled = cycle.handled + 1
      /\ cycle'.typeAlerts = cycle.typeAlerts
      /\ cycle'.typeReports = [cycle.typeReports EXCEPT ![Type[Event]] = @ + 1]
  BY <1>1, AlertFacts DEF Cycles
<1>4. ~Busy /\ ~Due /\ Busy' /\ Due'
  BY <1>2 DEF Busy, Due
<1>5. cycle.alerts + 0 <= cycle.handled /\ cycle.handled + Len(todo) <= MaxEvents + 0
  BY <1>2, <1>4 DEF AlertInv
<1>6. /\ cycle'.alerts + 1 <= cycle'.handled
      /\ cycle'.handled + Len(todo') <= MaxEvents + 1
  BY <1>2, <1>3, <1>5, AlertFacts, LimitsAssumption
<1>7. ASSUME NEW t \in Types
      PROVE  /\ cycle'.typeAlerts[t] + (IF t = Type[Event] THEN 1 ELSE 0)
                  <= cycle'.typeReports[t]
             /\ cycle'.typeReports[t] <= MaxPerType
  <2>1. cycle.typeAlerts[t] \in Nat /\ cycle.typeReports[t] \in Nat
    BY AlertFacts
  <2>2. /\ cycle.typeAlerts[t] + 0 <= cycle.typeReports[t]
        /\ cycle.typeReports[t] <= MaxPerType
    BY <1>4 DEF AlertInv
  <2>3. cycle'.typeReports[t] = IF t = Type[Event] THEN cycle.typeReports[t] + 1
                                ELSE cycle.typeReports[t]
    BY <1>3, AlertFacts
  <2>4. cycle'.typeAlerts[t] = cycle.typeAlerts[t]
    BY <1>3
  <2>5. QED
    BY <1>2, <2>1, <2>2, <2>3, <2>4, LimitsAssumption
<1>8. QED
  BY <1>2, <1>4, <1>6, <1>7, AlertFacts DEF AlertInv

\* When the alert is due, only an alert before it can have suppressed it.
LEMMA AlertNotify == TypeInv /\ TypeInv' /\ AlertInv /\ Notify => AlertInv'
<1> SUFFICES ASSUME TypeInv, TypeInv', AlertInv, Notify
             PROVE  AlertInv'
  OBVIOUS
<1>1. /\ pc = "notify" /\ pc' = "mark" /\ todo # <<>>
      /\ UNCHANGED <<todo, seen, saved>> /\ Event' = Event
  BY DEF Notify, TypeInv, InHand, Busy, Event
<1>2. Busy /\ Due /\ Busy' /\ ~Due'
  BY <1>1 DEF Busy, Due
<1>3. /\ cycle.alerts + 1 <= cycle.handled
      /\ cycle.handled + Len(todo) <= MaxEvents + 1
      /\ cycle.typeAlerts[Type[Event]] + 1 <= cycle.typeReports[Type[Event]]
      /\ cycle.typeReports[Type[Event]] <= MaxPerType
  BY <1>1, <1>2, AlertFacts DEF AlertInv
<1>4. cycle.alerts < MaxAlerts /\ cycle.typeAlerts[Type[Event]] < MaxPerType
  <2>1. cycle.typeAlerts[Type[Event]] \in Nat /\ cycle.typeReports[Type[Event]] \in Nat
    BY <1>1, AlertFacts
  <2>2. QED
    BY SMTT(30), <1>1, <1>3, <2>1, AlertFacts, LimitsAssumption, AlertsAssumption
<1>5. /\ told' = told \cup {Event} /\ alerted' \subseteq told'
  BY <1>4, AlertFacts DEF Notify, AlertFits
<1>6. \/ Counters(cycle') = Counters(cycle)
      \/ cycle' = [cycle EXCEPT !.alerts = @ + 1, !.typeAlerts[Type[Event]] = @ + 1]
  BY DEF Notify
<1>7. /\ cycle'.alerts \in {cycle.alerts, cycle.alerts + 1}
      /\ cycle'.handled = cycle.handled /\ cycle'.typeReports = cycle.typeReports
      /\ \/ cycle'.typeAlerts = cycle.typeAlerts
         \/ cycle'.typeAlerts = [cycle.typeAlerts EXCEPT ![Type[Event]] = @ + 1]
  BY <1>6, AlertFacts DEF Cycles, Counters
<1>8. cycle'.alerts + 0 <= cycle'.handled
  BY <1>3, <1>7, AlertFacts
<1>9. ASSUME NEW t \in Types
      PROVE  /\ cycle'.typeAlerts[t] + 0 <= cycle'.typeReports[t]
             /\ cycle'.typeReports[t] <= MaxPerType
  <2>1. cycle.typeAlerts[t] \in Nat /\ cycle.typeReports[t] \in Nat
    BY AlertFacts
  <2>2. /\ cycle.typeAlerts[t] + (IF t = Type[Event] THEN 1 ELSE 0)
             <= cycle.typeReports[t]
        /\ cycle.typeReports[t] <= MaxPerType
    BY <1>2 DEF AlertInv
  <2>3. cycle'.typeAlerts[t] \in {cycle.typeAlerts[t],
          IF t = Type[Event] THEN cycle.typeAlerts[t] + 1 ELSE cycle.typeAlerts[t]}
    BY <1>7, AlertFacts
  <2>4. QED
    BY <1>7, <2>1, <2>2, <2>3
<1>10. cycle'.handled + Len(todo') <= MaxEvents + 1
  BY <1>1, <1>3, <1>7
<1>11. QED
  BY <1>1, <1>2, <1>5, <1>8, <1>9, <1>10, AlertFacts DEF AlertInv

LEMMA AlertStep == TypeInv /\ TypeInv' /\ AlertInv /\ [Next]_vars => AlertInv'
<1> SUFFICES ASSUME TypeInv, TypeInv', AlertInv, [Next]_vars
             PROVE  AlertInv'
  OBVIOUS
<1>1. ASSUME NEW f \in Fingerprints, Write(f) \/ ReportAgain(f)
      PROVE  AlertInv'
  <2>1. UNCHANGED <<pc, todo, seen, saved, told, alerted, cycle>>
    BY <1>1 DEF Write, ReportAgain, limits, tally
  <2>2. QED
    BY <2>1 DEF AlertInv, Due, Busy, Event
<1>2. CASE Rotate \/ FixAgain \/ UNCHANGED vars
  <2>1. UNCHANGED <<pc, todo, seen, saved, told, alerted, cycle>>
    BY <1>2 DEF Rotate, FixAgain, vars, limits, tally
  <2>2. QED
    BY <2>1 DEF AlertInv, Due, Busy, Event
<1>3. CASE Start
  <2>1. /\ UNCHANGED <<cycle, told, alerted>> /\ pc' = "sleep"
        /\ seen' = saved /\ saved' = saved
    BY <1>3 DEF Start, limits, tally
  <2>2. QED
    BY <2>1, AlertFacts, AlertKept
<1>4. CASE Crash \/ BeginCycle \/ FinishCycle
  <2>1. /\ cycle' = NewCycle /\ UNCHANGED <<saved, told>>
        /\ seen' \subseteq seen /\ alerted' \subseteq alerted
        /\ pc' \in {"down", "stat", "read", "sleep"}
    BY <1>4 DEF Crash, BeginCycle, FinishCycle, limits, tally
  <2>2. QED
    BY <2>1, AlertFacts, AlertFresh
<1>5. CASE Stat
  <2>1. /\ UNCHANGED <<cycle, told, alerted, seen, saved>>
        /\ pc = "stat" /\ pc' = "read"
    BY <1>5 DEF Stat, limits, tally
  <2>2. cycle = NewCycle
    BY <2>1 DEF AlertInv
  <2>3. QED
    BY <2>1, <2>2, AlertFacts, AlertFresh
<1>6. CASE Read
  <2>1. /\ Len(todo') <= MaxEvents /\ pc = "read" /\ pc' = "pick"
        /\ UNCHANGED <<seen, saved, cycle, alerted, told>>
    BY <1>6, ReadTyped DEF TypeInv, limits, tally
  <2>2. cycle = NewCycle
    BY <2>1 DEF AlertInv
  <2>3. QED
    BY <2>1, <2>2, AlertFacts, AlertFresh
<1>7. CASE SkipSeen \/ SkipExtraCandidate \/ SkipUnreported
  <2>1. /\ pc = "pick" /\ pc' = "pick" /\ todo # <<>> /\ todo' = Tail(todo)
        /\ UNCHANGED <<seen, saved, alerted, told>>
    BY <1>7 DEF SkipSeen, SkipExtraCandidate, SkipUnreported, Picking, limits, tally
  <2>2. cycle' = cycle \/ \E n : cycle' = [cycle EXCEPT !.auto = n]
    BY <1>7 DEF SkipSeen, SkipExtraCandidate, SkipUnreported
  <2>3. Counters(cycle') = Counters(cycle)
    BY <2>2, AlertFacts DEF Counters, Cycles
  <2>4. cycle.handled + Len(todo) <= MaxEvents + 0
    BY <2>1 DEF AlertInv, Busy
  <2>5. cycle.handled + Len(todo') <= MaxEvents
    BY <2>1, <2>4, AlertFacts, LimitsAssumption
  <2>6. QED
    BY <2>1, <2>3, <2>5, AlertFacts, AlertKept
<1>8. CASE Admit
  BY <1>8, AlertAdmit
<1>9. CASE Recover
  <2>1. /\ pc = "recover" /\ pc' = "notify"
        /\ UNCHANGED <<todo, seen, saved, cycle, alerted, told>>
    BY <1>9 DEF Recover
  <2>2. QED
    BY <2>1 DEF AlertInv, Due, Busy, Event
<1>10. CASE Notify
  BY <1>10, AlertNotify
<1>11. CASE HandleFails
  <2>1. /\ Busy /\ todo # <<>> /\ pc' = "pick" /\ todo' = Tail(todo)
        /\ UNCHANGED <<seen, saved, cycle, alerted, told>>
    BY <1>11 DEF HandleFails, TypeInv, InHand, Busy, limits
  <2>2. cycle.handled + Len(todo) <= MaxEvents + 1
    BY <2>1 DEF AlertInv
  <2>3. cycle.handled + Len(todo') <= MaxEvents
    BY <2>1, <2>2, AlertFacts, LimitsAssumption
  <2>4. QED
    BY <2>1, <2>3, AlertFacts, AlertKept
<1>12. CASE MarkSeen
  <2>1. /\ Busy /\ pc = "mark" /\ todo # <<>> /\ pc' = "pick" /\ todo' = Tail(todo)
        /\ seen' = seen \cup {Event} /\ saved' \subseteq seen'
        /\ cycle' = [cycle EXCEPT !.records = @ + 1]
        /\ UNCHANGED <<alerted, told>>
    BY <1>12 DEF MarkSeen, Kept, TypeInv, InHand, Busy, limits, tally
  <2>2. Event \in told /\ cycle.handled + Len(todo) <= MaxEvents + 1
    BY <2>1 DEF AlertInv
  <2>3. Counters(cycle') = Counters(cycle)
    BY <2>1, AlertFacts DEF Counters, Cycles
  <2>4. cycle.handled + Len(todo') <= MaxEvents
    BY <2>1, <2>2, AlertFacts, LimitsAssumption
  <2>5. QED
    BY <2>1, <2>2, <2>3, <2>4, AlertFacts, AlertKept
<1>13. CASE EndCycle
  <2>1. pc' = "end" /\ UNCHANGED <<seen, saved, alerted, told>>
    BY <1>13 DEF EndCycle, limits, tally
  <2>2. cycle' = cycle \/ cycle' = [cycle EXCEPT !.reports = @ + 1]
    BY <1>13 DEF EndCycle
  <2>3. Counters(cycle') = Counters(cycle)
    BY <2>2, AlertFacts DEF Counters, Cycles
  <2>4. QED
    BY <2>1, <2>3, AlertFacts, AlertKept
<1>14. QED
  BY <1>1, <1>2, <1>3, <1>4, <1>5, <1>6, <1>7, <1>8, <1>9, <1>10, <1>11, <1>12,
     <1>13
  DEF Next, Daemon, Pick, Handle

\* An event that is put away as seen has been alerted, by whatever process.
THEOREM SeenEventsWereTold == Spec => []SeenWasAlerted
<1>1. Init => AlertInv
  <2> SUFFICES ASSUME Init PROVE AlertInv
    OBVIOUS
  <2>1. /\ seen = {} /\ saved = {} /\ alerted = {} /\ pc = "down"
        /\ cycle = NewCycle /\ ~Busy /\ ~Due
    BY DEF Init, Busy, Due
  <2>2. QED
    BY <2>1, NewCycleTyped, LimitsAssumption DEF AlertInv
<1>2. AlertInv => SeenWasAlerted
  BY DEF AlertInv, SeenWasAlerted
<1>3. QED
  BY <1>1, <1>2, AlertStep, AlwaysTyped, PTL DEF Spec

=============================================================================
