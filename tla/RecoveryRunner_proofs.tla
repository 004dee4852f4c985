----------------------- MODULE RecoveryRunner_proofs -----------------------
(***************************************************************************)
(* What RecoveryRunner guarantees for any projects, events, files, periods *)
(* and bounds: a monitor keeps the three cooldowns; nothing is executed    *)
(* but the registered fix of the event that was found, and nothing that    *)
(* needs an approval without one; a recovery degrades one field or takes   *)
(* back a record, its own unless something was raised; and what is         *)
(* recorded of it is what was done.                                        *)
(***************************************************************************)
EXTENDS RecoveryRunner, RecoveryPolicy_proofs

CallFields == {"step", "nr", "event", "found", "request", "gate", "applied", "rerun", "rolled",
               "undone", "wrote", "torn", "again", "back", "told"}

\* A call of _recover has its fields, its gate has a verdict, and its request was filed.
InHand ==
  /\ DOMAIN run = Runners
  /\ \A a \in Runners : run[a].step # "idle" =>
       /\ DOMAIN run[a] = CallFields
       /\ "go" \in DOMAIN run[a].gate

\* The monitor works on what it found.
FoundInHand == run["monitor"].step # "idle" => run["monitor"].event \in Events

LastRecord == [prints : [Prints -> Int], types : [Types -> Int], project : Int]

\* The tracker of the monitor is not behind its executions.
TrackerKnows ==
  /\ now \in Nat
  /\ last \in LastRecord
  /\ \A s \in starts :
       /\ s.print \in Prints /\ s.type \in Types /\ s.at \in 0..now
       /\ s.at <= last.prints[s.print] /\ s.at <= last.types[s.type] /\ s.at <= last.project

CoolInv == InHand /\ FoundInHand /\ TrackerKnows /\ CooldownHolds

RequestFields == {"event", "fix", "approvable", "status"}

\* The request in the worker's hands was filed; requests have their fields.
RequestsInHand ==
  /\ \E S : requests \in Seq(S)
  /\ \A r \in DOMAIN requests : DOMAIN requests[r] = RequestFields
  /\ run["approved"].step # "idle" => run["approved"].request \in DOMAIN requests

(***************************************************************************)
(* recover_after_approval executes only a fix an operator could approve,   *)
(* and for the event of the request; recover executes nothing of a project *)
(* that asks for approvals.                                                *)
(***************************************************************************)
NothingUnapproved ==
  \A a \in Executing :
    LET c == run[a]
    IN  /\ project.approval => a = "approved"
        /\ a = "approved" =>
             /\ requests[c.request].approvable
             /\ requests[c.request].fix = c.gate.fix
             /\ requests[c.request].event.print = c.event.print
             /\ requests[c.request].event.type = c.event.type

\* A call that is blocked has no verdict to go.
BlockedDoesNotGo == \A a \in Runners : run[a].step = "blocked" => ~run[a].gate.go

-----------------------------------------------------------------------------
(***************************************************************************)
(* Calls.                                                                  *)
(***************************************************************************)
\* Whatever the gate says, it says whether to go.
LEMMA GateHasVerdict ==
  ASSUME NEW p, NEW e, NEW w, NEW cool
  PROVE  "go" \in DOMAIN Gate(p, e, w, cool)
<1>1. CASE ~p.enabled \/ ~ValidPolicy(RuntimePolicy(p))
  BY <1>1 DEF Gate, Blocked
<1>2. CASE p.enabled /\ ValidPolicy(RuntimePolicy(p))
  BY <1>2 DEF Gate
<1>3. QED
  BY <1>1, <1>2

\* What Authorize leaves of the gate goes on only with the approval of the worker's request,
\* or, in the hands of the monitor, without any being asked for, and with the cooldowns over.
LEMMA AuthorizedGoes ==
  ASSUME NEW a \in Runners, "go" \in DOMAIN run[a].gate
  PROVE  /\ "go" \in DOMAIN Authorized(a)
         /\ Authorized(a).go =>
              /\ Authorized(a) = run[a].gate
              /\ Objection(a) = "" /\ Cool(a, run[a].event)
<1> DEFINE g == run[a].gate
<1>1. CASE ~g.go
  BY <1>1 DEF Authorized
<1>2. CASE g.go /\ Objection(a) # ""
  <2>1. Authorized(a) = [g EXCEPT !.go = FALSE, !.operator = TRUE, !.reason = Objection(a)]
    BY <1>2 DEF Authorized
  <2>2. QED
    BY <2>1
<1>3. CASE g.go /\ Objection(a) = "" /\ ~Cool(a, run[a].event)
  <2>1. Authorized(a) = [g EXCEPT !.go = FALSE, !.reason = "cooldown_active"]
    BY <1>3 DEF Authorized
  <2>2. QED
    BY <2>1
<1>4. CASE g.go /\ Objection(a) = "" /\ Cool(a, run[a].event)
  BY <1>4 DEF Authorized
<1>5. QED
  BY <1>1, <1>2, <1>3, <1>4

\* The call d is about what c is about.
SameCall(c, d) ==
  /\ DOMAIN d = CallFields
  /\ d.nr = c.nr /\ d.event = c.event /\ d.found = c.found /\ d.request = c.request
  /\ d.gate = c.gate

\* What was done in d is what was done in c.
SameMarks(c, d) ==
  /\ d.applied = c.applied /\ d.rerun = c.rerun /\ d.rolled = c.rolled /\ d.undone = c.undone
  /\ d.wrote = c.wrote /\ d.torn = c.torn /\ d.again = c.again /\ d.back = c.back

\* Nothing was done in the call c.
Untouched(c) ==
  /\ ~c.applied /\ ~c.rerun /\ ~c.rolled /\ ~c.undone /\ ~c.wrote /\ ~c.torn /\ ~c.again
  /\ c.back = {}

\* A record is made and reported, and that may raise.
Recorded(c, d) == SameMarks(c, d) /\ d.told = Audit(c)

LEMMA RecordEffect ==
  ASSUME InHand, NEW a \in Runners, run[a].step # "idle", NEW raised, RecordAndReport(a, raised)
  PROVE  \E d : /\ run' = [run EXCEPT ![a] = d] /\ SameCall(run[a], d) /\ Recorded(run[a], d)
                /\ d.step = "reported" \/ d.step = raised
<1>1. PICK step \in {"reported", raised} :
        run' = [run EXCEPT ![a].told = Audit(run[a]), ![a].step = step]
  BY DEF RecordAndReport
<1> DEFINE d == [run[a] EXCEPT !.told = Audit(run[a]), !.step = step]
<1>2. DOMAIN run = Runners /\ DOMAIN run[a] = CallFields
  BY DEF InHand
<1>3. run' = [run EXCEPT ![a] = d]
  BY <1>1, <1>2
<1>4. SameCall(run[a], d) /\ Recorded(run[a], d) /\ d.step = step
  BY <1>2 DEF SameCall, Recorded, SameMarks, CallFields
<1> HIDE DEF d
<1>5. QED
  BY <1>3, <1>4

\* The fix is applied, or it is not.
Applied(c, d, k) ==
  /\ d.applied <=> k >= 0
  /\ d.wrote <=> k > 0
  /\ d.rerun = c.rerun /\ d.rolled = c.rolled /\ d.undone = c.undone /\ d.torn = c.torn
  /\ d.again = c.again /\ d.back = c.back
  /\ d.step = IF k < 0 THEN "report" ELSE IF project.rerun THEN "rerun" ELSE "judge"

LEMMA ApplyEffect ==
  ASSUME InHand, NEW a \in Runners, Apply(a)
  PROVE  \E d : /\ run' = [run EXCEPT ![a] = d] /\ SameCall(run[a], d)
                /\ Applied(run[a], d, Choice(run[a].gate.fix))
<1> DEFINE k == Choice(run[a].gate.fix)
           step == IF k < 0 THEN "report" ELSE IF project.rerun THEN "rerun" ELSE "judge"
           d == [run[a] EXCEPT !.applied = k >= 0, !.wrote = k > 0, !.step = step]
<1>1. run[a].step = "apply"
      /\ run' = [run EXCEPT ![a].applied = k >= 0, ![a].wrote = k > 0, ![a].step = step]
  BY DEF Apply
<1>2. DOMAIN run = Runners /\ DOMAIN run[a] = CallFields
  BY <1>1 DEF InHand
<1>3. run' = [run EXCEPT ![a] = d]
  BY <1>1, <1>2
<1> HIDE DEF k
<1>4. SameCall(run[a], d) /\ Applied(run[a], d, k)
  BY <1>2 DEF SameCall, Applied, CallFields
<1> HIDE DEF d
<1>5. QED
  BY <1>3, <1>4 DEF k

\* The apply breaks after it wrote the candidate `done', or before.
Broken(c, d, done) ==
  /\ d.wrote <=> done > 0
  /\ d.torn <=> done > 0
  /\ d.applied = c.applied /\ d.rerun = c.rerun /\ d.rolled = c.rolled /\ d.undone = c.undone
  /\ d.again = c.again /\ d.back = c.back
  /\ d.step \in {"again", "report"}

LEMMA BreakEffect ==
  ASSUME InHand, NEW a \in Runners, ApplyBreaks(a)
  PROVE  \E done \in {0, Choice(run[a].gate.fix)} : \E d :
           /\ content' = WrittenBy(SpecOfFix(run[a].gate.fix), content, done)
           /\ done # 0 => Authoritative(run[a].gate)
           /\ run' = [run EXCEPT ![a] = d] /\ SameCall(run[a], d) /\ Broken(run[a], d, done)
<1> DEFINE k == Choice(run[a].gate.fix)
           May == IF Authoritative(run[a].gate) THEN {0, k} ELSE {0}
<1>1. /\ run[a].step = "apply"
      /\ \E done \in May, next \in {"again", "report"} :
          /\ content' = WrittenBy(SpecOfFix(run[a].gate.fix), content, done)
          /\ run' = [run EXCEPT ![a].wrote = done > 0, ![a].torn = done > 0, ![a].step = next]
  BY Zenon DEF ApplyBreaks
<1> HIDE DEF May
<1>2. PICK done \in May, step \in {"again", "report"} :
          /\ content' = WrittenBy(SpecOfFix(run[a].gate.fix), content, done)
          /\ run' = [run EXCEPT ![a].wrote = done > 0, ![a].torn = done > 0, ![a].step = step]
  BY <1>1
<1>3. done \in {0, k} /\ (done # 0 => Authoritative(run[a].gate))
  BY DEF May
<1> HIDE DEF k
<1> DEFINE d == [run[a] EXCEPT !.wrote = done > 0, !.torn = done > 0, !.step = step]
<1>4. DOMAIN run = Runners /\ DOMAIN run[a] = CallFields
  BY <1>1 DEF InHand
<1>5. run' = [run EXCEPT ![a] = d]
  BY <1>2, <1>4
<1>6. SameCall(run[a], d) /\ Broken(run[a], d, done)
  BY <1>4 DEF SameCall, Broken, CallFields
<1> HIDE DEF d
<1>7. QED
  BY <1>2, <1>3, <1>5, <1>6 DEF k

\* The rerun has an outcome, or it raises.
Reran(c, d) ==
  /\ d.applied = c.applied /\ d.rolled = c.rolled /\ d.undone = c.undone /\ d.wrote = c.wrote
  /\ d.torn = c.torn /\ d.again = c.again /\ d.back = c.back
  /\ d.step = "judge" \/ (d.step = "again" /\ d.rerun = c.rerun)

LEMMA RerunEffect ==
  ASSUME InHand, NEW a \in Runners, Rerun(a)
  PROVE  \E d : run' = [run EXCEPT ![a] = d] /\ SameCall(run[a], d) /\ Reran(run[a], d)
<1>1. run[a].step = "rerun"
  BY DEF Rerun
<1>2. DOMAIN run = Runners /\ DOMAIN run[a] = CallFields
  BY <1>1 DEF InHand
<1>3. CASE \E won \in BOOLEAN : run' = [run EXCEPT ![a].rerun = won, ![a].step = "judge"]
  <2>1. PICK won \in BOOLEAN : run' = [run EXCEPT ![a].rerun = won, ![a].step = "judge"]
    BY <1>3
  <2> DEFINE d == [run[a] EXCEPT !.rerun = won, !.step = "judge"]
  <2>2. run' = [run EXCEPT ![a] = d]
    BY <2>1, <1>2
  <2>3. SameCall(run[a], d) /\ Reran(run[a], d)
    BY <1>2 DEF SameCall, Reran, CallFields
  <2> HIDE DEF d
  <2>4. QED
    BY <2>2, <2>3
<1>4. CASE run' = [run EXCEPT ![a].step = "again"]
  <2> DEFINE d == [run[a] EXCEPT !.step = "again"]
  <2>1. run' = [run EXCEPT ![a] = d]
    BY <1>4, <1>2
  <2>2. SameCall(run[a], d) /\ Reran(run[a], d)
    BY <1>2 DEF SameCall, Reran, CallFields
  <2> HIDE DEF d
  <2>3. QED
    BY <2>1, <2>2
<1>5. QED
  BY <1>3, <1>4 DEF Rerun

\* A rollback took back the record of the call `nr', found none, raised, or was not called for.
TookBack(c, d, nr) ==
  /\ CallsForRollback(c)
  /\ d.applied = c.applied /\ d.rerun = c.rerun /\ d.wrote = c.wrote /\ d.torn = c.torn
  /\ d.again = c.again /\ d.rolled = TRUE /\ d.undone = TRUE /\ d.back = c.back \cup {nr}
  /\ d.step = "report"

TookNothing(c, d) ==
  /\ CallsForRollback(c)
  /\ d.applied = c.applied /\ d.rerun = c.rerun /\ d.wrote = c.wrote /\ d.torn = c.torn
  /\ d.again = c.again /\ d.rolled = TRUE /\ d.undone = FALSE /\ d.back = c.back
  /\ d.step = "report"

LEMMA RollEffect ==
  ASSUME InHand, NEW a \in Runners, run[a].step # "idle", NEW c, NEW raised,
         c = run[a] \/ c = [run[a] EXCEPT !.again = TRUE], RollBack(a, c, raised)
  PROVE  \E d : /\ run' = [run EXCEPT ![a] = d] /\ SameCall(run[a], d)
                /\ \/ /\ TookBack(c, d, Taken(ledger[a]).nr) /\ ledger[a] # <<>>
                      /\ content' = Taken(ledger[a]).before
                      /\ ledger' = [ledger EXCEPT ![a] = Front(@)]
                   \/ TookNothing(c, d) /\ UNCHANGED <<content, ledger>>
                   \/ SameMarks(run[a], d) /\ d.step = raised /\ UNCHANGED <<content, ledger>>
                   \/ /\ SameMarks(c, d) /\ d.step = "report" /\ ~CallsForRollback(c)
                      /\ UNCHANGED <<content, ledger>>
<1>1. DOMAIN run = Runners /\ DOMAIN run[a] = CallFields
  BY DEF InHand
<1>2. SameCall(run[a], c)
  BY <1>1 DEF SameCall, CallFields
<1>3. CASE /\ CallsForRollback(c) /\ ledger[a] # <<>>
           /\ content' = Taken(ledger[a]).before
           /\ ledger' = [ledger EXCEPT ![a] = Front(@)]
           /\ run' = [run EXCEPT ![a] = [c EXCEPT !.rolled = TRUE, !.undone = TRUE,
                        !.step = "report", !.back = @ \cup {Taken(ledger[a]).nr}]]
  <2> DEFINE d == [c EXCEPT !.rolled = TRUE, !.undone = TRUE, !.step = "report",
                            !.back = @ \cup {Taken(ledger[a]).nr}]
  <2>1. SameCall(run[a], d) /\ TookBack(c, d, Taken(ledger[a]).nr)
    BY <1>2, <1>3 DEF SameCall, TookBack, CallFields
  <2> HIDE DEF d
  <2>2. QED
    BY <1>3, <2>1 DEF d
<1>4. CASE /\ CallsForRollback(c) /\ UNCHANGED <<content, ledger>>
           /\ run' = [run EXCEPT ![a] = [c EXCEPT !.rolled = TRUE, !.undone = FALSE,
                                                  !.step = "report"]]
  <2> DEFINE d == [c EXCEPT !.rolled = TRUE, !.undone = FALSE, !.step = "report"]
  <2>1. SameCall(run[a], d) /\ TookNothing(c, d)
    BY <1>2, <1>4 DEF SameCall, TookNothing, CallFields
  <2> HIDE DEF d
  <2>2. QED
    BY <1>4, <2>1 DEF d
<1>5. CASE run' = [run EXCEPT ![a].step = raised] /\ UNCHANGED <<content, ledger>>
  <2> DEFINE d == [run[a] EXCEPT !.step = raised]
  <2>1. run' = [run EXCEPT ![a] = d]
    BY <1>1, <1>5
  <2>2. SameCall(run[a], d) /\ SameMarks(run[a], d) /\ d.step = raised
    BY <1>1 DEF SameCall, SameMarks, CallFields
  <2> HIDE DEF d
  <2>3. QED
    BY <1>5, <2>1, <2>2
<1>6. CASE /\ ~CallsForRollback(c) /\ UNCHANGED <<content, ledger>>
           /\ run' = [run EXCEPT ![a] = [c EXCEPT !.step = "report"]]
  <2> DEFINE d == [c EXCEPT !.step = "report"]
  <2>1. SameCall(run[a], d) /\ SameMarks(c, d) /\ d.step = "report"
    BY <1>2 DEF SameCall, SameMarks, CallFields
  <2> HIDE DEF d
  <2>2. QED
    BY <1>6, <2>1 DEF d
<1>7. QED
  BY <1>3, <1>4, <1>5, <1>6, Zenon DEF RollBack, Undo

\* The steps of a call after its authorization change neither its event, nor its request and
\* gate; and only a call that was not blocked gets to them.
LEMMA StepsKeepCall ==
  ASSUME InHand, NEW a \in Runners,
         BlockedReport(a) \/ Apply(a) \/ ApplyBreaks(a) \/ Rerun(a) \/ Judge(a)
           \/ HandleException(a) \/ Report(a)
  PROVE  /\ run[a].step \notin {"idle", "authorize"}
         /\ \E d : run' = [run EXCEPT ![a] = d] /\ SameCall(run[a], d)
                  /\ d.step \notin {"idle", "authorize", "blocked"}
<1>a. run[a].step \notin {"idle", "authorize"}
  BY DEF BlockedReport, Apply, ApplyBreaks, Rerun, Judge, HandleException, Report
<1>1. CASE BlockedReport(a) \/ Report(a)
  <2>1. RecordAndReport(a, "raised") \/ RecordAndReport(a, "again")
    BY <1>1 DEF BlockedReport, Report
  <2>2. PICK d : /\ run' = [run EXCEPT ![a] = d] /\ SameCall(run[a], d)
                 /\ d.step \in {"reported", "raised", "again"}
    BY <2>1, <1>a, RecordEffect
  <2>3. QED
    BY <1>a, <2>2
<1>2. CASE Apply(a)
  <2>1. PICK d : /\ run' = [run EXCEPT ![a] = d] /\ SameCall(run[a], d)
                 /\ Applied(run[a], d, Choice(run[a].gate.fix))
    BY <1>2, ApplyEffect
  <2>2. d.step \in {"report", "rerun", "judge"}
    BY <2>1 DEF Applied
  <2>3. QED
    BY <1>a, <2>1, <2>2
<1>3. CASE ApplyBreaks(a)
  <2>1. PICK d : \E done :
          run' = [run EXCEPT ![a] = d] /\ SameCall(run[a], d) /\ Broken(run[a], d, done)
    BY <1>3, BreakEffect
  <2>2. QED
    BY <1>a, <2>1 DEF Broken
<1>4. CASE Rerun(a)
  <2>1. PICK d : run' = [run EXCEPT ![a] = d] /\ SameCall(run[a], d) /\ Reran(run[a], d)
    BY <1>4, RerunEffect
  <2>2. QED
    BY <1>a, <2>1 DEF Reran
<1>5. CASE Judge(a) \/ HandleException(a)
  <2>1. PICK c, raised : /\ c = run[a] \/ c = [run[a] EXCEPT !.again = TRUE]
                         /\ RollBack(a, c, raised) /\ raised \in {"again", "raised"}
    BY <1>5 DEF Judge, HandleException
  <2>2. PICK d : /\ run' = [run EXCEPT ![a] = d] /\ SameCall(run[a], d)
                 /\ \/ TookBack(c, d, Taken(ledger[a]).nr) \/ TookNothing(c, d)
                    \/ d.step = raised \/ d.step = "report"
    BY <2>1, <1>a, RollEffect
  <2>3. d.step \in {"report", "again", "raised"}
    BY <2>1, <2>2 DEF TookBack, TookNothing
  <2>4. QED
    BY <1>a, <2>2, <2>3
<1>6. QED
  BY <1>1, <1>2, <1>3, <1>4, <1>5

\* The call that Start begins.
Begun(a, e, found, request) ==
  [step |-> "authorize", nr |-> count.recoveries, event |-> e, found |-> found,
   request |-> request, gate |-> Gate(project, e, World, Cool(a, e)),
   applied |-> FALSE, rerun |-> FALSE, rolled |-> FALSE, undone |-> FALSE,
   wrote |-> FALSE, torn |-> FALSE, again |-> FALSE, back |-> {}, told |-> NoAudit]

LEMMA StartBegins ==
  ASSUME InHand, NEW a \in Runners, NEW e, NEW found, NEW request, Start(a, e, found, request)
  PROVE  /\ run' = [run EXCEPT ![a] = Begun(a, e, found, request)]
         /\ DOMAIN Begun(a, e, found, request) = CallFields
         /\ "go" \in DOMAIN Begun(a, e, found, request).gate
         /\ Begun(a, e, found, request).step = "authorize"
         /\ Begun(a, e, found, request).event = e
         /\ Begun(a, e, found, request).found = found
         /\ Begun(a, e, found, request).nr = count.recoveries
         /\ Begun(a, e, found, request).request = request
         /\ Begun(a, e, found, request).gate = Gate(project, e, World, Cool(a, e))
         /\ Untouched(Begun(a, e, found, request))
<1>1. run' = [run EXCEPT ![a] = Begun(a, e, found, request)]
  BY DEF Start, Begun
<1>2. /\ DOMAIN Begun(a, e, found, request) = CallFields
      /\ Begun(a, e, found, request).step = "authorize"
      /\ Begun(a, e, found, request).event = e
      /\ Begun(a, e, found, request).found = found
      /\ Begun(a, e, found, request).nr = count.recoveries
      /\ Begun(a, e, found, request).request = request
      /\ Begun(a, e, found, request).gate = Gate(project, e, World, Cool(a, e))
  BY DEF Begun, CallFields
<1>3. Untouched(Begun(a, e, found, request))
  BY DEF Untouched, Begun
<1>4. QED
  BY <1>1, <1>2, <1>3, GateHasVerdict

\* Authorize puts the verdict in the place of the gate's.
LEMMA AuthorizeEffect ==
  ASSUME InHand, NEW a \in Runners, Authorize(a)
  PROVE  \E d : /\ run' = [run EXCEPT ![a] = d] /\ DOMAIN d = CallFields
                /\ d.gate = Authorized(a) /\ "go" \in DOMAIN Authorized(a)
                /\ d.event = run[a].event /\ d.request = run[a].request
                /\ d.found = run[a].found /\ d.nr = run[a].nr /\ SameMarks(run[a], d)
                /\ d.step = IF Authorized(a).go THEN "apply" ELSE "blocked"
<1> DEFINE step == IF Authorized(a).go THEN "apply" ELSE "blocked"
           d == [run[a] EXCEPT !.gate = Authorized(a), !.step = step]
<1>1. run[a].step = "authorize"
  BY DEF Authorize
<1>2. DOMAIN run = Runners /\ DOMAIN run[a] = CallFields /\ "go" \in DOMAIN run[a].gate
  BY <1>1 DEF InHand
<1>3. run' = [run EXCEPT ![a].gate = Authorized(a), ![a].step = step]
  BY DEF Authorize
<1>4. run' = [run EXCEPT ![a] = d]
  BY <1>2, <1>3
<1>5. /\ DOMAIN d = CallFields /\ d.gate = Authorized(a) /\ d.event = run[a].event
      /\ d.request = run[a].request /\ d.step = step /\ d.found = run[a].found /\ d.nr = run[a].nr
      /\ SameMarks(run[a], d)
  BY <1>2 DEF CallFields, SameMarks
<1> HIDE DEF d
<1>6. QED
  BY <1>2, <1>4, <1>5, AuthorizedGoes

\* What a step does to the call of a runner: it begins one, authorizes it, goes on with it,
\* ends it, or leaves it alone.
LEMMA InHandStep == InHand /\ [Next]_vars => InHand'
<1> SUFFICES ASSUME InHand, [Next]_vars PROVE InHand'
  OBVIOUS
<1>t. DOMAIN run = Runners
  BY DEF InHand
<1>d. ASSUME NEW a \in Runners, NEW d, run' = [run EXCEPT ![a] = d],
             (DOMAIN d = CallFields /\ "go" \in DOMAIN d.gate) \/ d.step = "idle"
      PROVE  InHand'
  <2>1. DOMAIN run' = Runners
    BY <1>d, <1>t
  <2>2. \A b \in Runners : run'[b] = IF b = a THEN d ELSE run[b]
    BY <1>d, <1>t
  <2>3. QED
    BY <2>1, <2>2, <1>d DEF InHand
<1>1. CASE \E e \in Events : Recover(e)
  <2>1. PICK e \in Events : Start("monitor", e, e, 0)
    BY <1>1 DEF Recover
  <2>2. QED
    BY <2>1, <1>d, StartBegins DEF Runners
<1>2. CASE \E r \in DOMAIN requests : RecoverAfterApproval(r)
  <2>0. PICK r \in DOMAIN requests : RecoverAfterApproval(r)
    BY <1>2
  <2>1. PICK e : Start("approved", e, requests[r].event, r)
    BY <2>0 DEF RecoverAfterApproval
  <2>2. QED
    BY <2>1, <1>d, StartBegins DEF Runners
<1>3. CASE \E a \in Runners : Authorize(a)
  BY <1>3, <1>d, AuthorizeEffect
<1>4. CASE \E a \in Runners : \/ BlockedReport(a) \/ Apply(a) \/ ApplyBreaks(a) \/ Rerun(a)
                               \/ Judge(a) \/ HandleException(a) \/ Report(a)
  <2>0. PICK a \in Runners :
          \E d : /\ run[a].step # "idle" /\ run' = [run EXCEPT ![a] = d]
                /\ SameCall(run[a], d)
    BY <1>4, StepsKeepCall
  <2>1. PICK d : /\ run[a].step # "idle" /\ run' = [run EXCEPT ![a] = d]
                 /\ SameCall(run[a], d)
    BY <2>0
  <2>2. DOMAIN d = CallFields /\ "go" \in DOMAIN d.gate
    BY <2>1 DEF SameCall, InHand
  <2>3. QED
    BY <2>1, <2>2, <1>d
<1>5. CASE \E a \in Runners : End(a) \/ Crash(a)
  BY <1>5, <1>d DEF End, Crash, Idle
<1>6. CASE (\E r \in DOMAIN requests : Decide(r)) \/ EditConfig \/ Tick \/ UNCHANGED vars
  BY <1>6 DEF Decide, EditConfig, Tick, vars, InHand
<1>7. QED
  BY <1>1, <1>2, <1>3, <1>4, <1>5, <1>6 DEF Next, Step

-----------------------------------------------------------------------------
(***************************************************************************)
(* The cooldowns.                                                          *)
(***************************************************************************)
LEMMA InitCoolInv == Init => CoolInv
<1> SUFFICES ASSUME Init PROVE CoolInv
  OBVIOUS
<1>1. InHand /\ FoundInHand
  BY DEF Init, InHand, FoundInHand, Idle, Runners
<1>2. last \in LastRecord
  BY DEF Init, LastRecord, NoCooldown, Never
<1>3. TrackerKnows /\ CooldownHolds
  BY <1>2 DEF Init, TrackerKnows, CooldownHolds
<1>4. QED
  BY <1>1, <1>3 DEF CoolInv

LEMMA FoundInHandStep == InHand /\ FoundInHand /\ [Next]_vars => FoundInHand'
<1> SUFFICES ASSUME InHand, FoundInHand, [Next]_vars PROVE FoundInHand'
  OBVIOUS
<1>t. DOMAIN run = Runners /\ "monitor" \in Runners
  BY DEF InHand, Runners
<1>d. ASSUME NEW a \in Runners, NEW d, run' = [run EXCEPT ![a] = d],
             a = "monitor" => d.step = "idle" \/ d.event \in Events
      PROVE  FoundInHand'
  <2>1. run'["monitor"] = IF a = "monitor" THEN d ELSE run["monitor"]
    BY <1>d, <1>t
  <2>2. QED
    BY <2>1, <1>d DEF FoundInHand
<1>1. CASE \E e \in Events : Recover(e)
  <2>1. PICK e \in Events : Start("monitor", e, e, 0)
    BY <1>1 DEF Recover
  <2>2. QED
    BY <2>1, <1>d, <1>t, StartBegins
<1>2. CASE \E r \in DOMAIN requests : RecoverAfterApproval(r)
  <2>0. PICK r \in DOMAIN requests : RecoverAfterApproval(r)
    BY <1>2
  <2>1. PICK e : Start("approved", e, requests[r].event, r)
    BY <2>0 DEF RecoverAfterApproval
  <2>2. QED
    BY <2>1, <1>d, StartBegins DEF Runners
<1>3. CASE \E a \in Runners : Authorize(a)
  <2>1. PICK a \in Runners : Authorize(a)
    BY <1>3
  <2>2. PICK d : run' = [run EXCEPT ![a] = d] /\ d.event = run[a].event
    BY <2>1, AuthorizeEffect
  <2>3. run[a].step = "authorize"
    BY <2>1 DEF Authorize
  <2>4. QED
    BY <2>2, <2>3, <1>d DEF FoundInHand
<1>4. CASE \E a \in Runners : \/ BlockedReport(a) \/ Apply(a) \/ ApplyBreaks(a) \/ Rerun(a)
                               \/ Judge(a) \/ HandleException(a) \/ Report(a)
  <2>0. PICK a \in Runners :
          \E d : /\ run[a].step # "idle" /\ run' = [run EXCEPT ![a] = d]
                /\ SameCall(run[a], d)
    BY <1>4, StepsKeepCall
  <2>1. PICK d : /\ run[a].step # "idle" /\ run' = [run EXCEPT ![a] = d]
                 /\ SameCall(run[a], d)
    BY <2>0
  <2>2. QED
    BY <2>1, <1>d DEF SameCall, FoundInHand
<1>5. CASE \E a \in Runners : End(a) \/ Crash(a)
  BY <1>5, <1>d DEF End, Crash, Idle
<1>6. CASE (\E r \in DOMAIN requests : Decide(r)) \/ EditConfig \/ Tick \/ UNCHANGED vars
  BY <1>6 DEF Decide, EditConfig, Tick, vars, FoundInHand
<1>7. QED
  BY <1>1, <1>2, <1>3, <1>4, <1>5, <1>6 DEF Next, Step

\* An execution that the tracker lets through is far enough from those it knows of.
LEMMA CoolStep == CoolInv /\ [Next]_vars => (TrackerKnows /\ CooldownHolds)'
<1> SUFFICES ASSUME CoolInv, [Next]_vars PROVE (TrackerKnows /\ CooldownHolds)'
  OBVIOUS
<1>t. TrackerKnows /\ CooldownHolds /\ InHand /\ FoundInHand
  BY DEF CoolInv
<1>k. ASSUME UNCHANGED <<now, last, starts>> PROVE (TrackerKnows /\ CooldownHolds)'
  BY <1>k, <1>t DEF TrackerKnows, CooldownHolds
<1>1. CASE \E a \in Runners : Authorize(a)
  <2>1. PICK a \in Runners : Authorize(a)
    BY <1>1
  <2>2. CASE a = "monitor" /\ Authorized(a).go
    <3> DEFINE e == run[a].event
               s == [print |-> e.print, type |-> e.type, at |-> now]
    <3>1. e \in Events /\ e.print \in Prints /\ e.type \in Types
      BY <2>1, <2>2, <1>t DEF Authorize, FoundInHand, Prints, Types
    <3>2. Check(e)
      <4>1. "go" \in DOMAIN run[a].gate
        BY <2>1, <1>t DEF Authorize, InHand
      <4>2. QED
        BY <4>1, <2>2, AuthorizedGoes DEF Cool
    <3>3. /\ starts' = starts \cup {s} /\ now' = now
          /\ last' = [prints |-> [last.prints EXCEPT ![e.print] = now],
                      types |-> [last.types EXCEPT ![e.type] = now], project |-> now]
      BY <2>1, <2>2 DEF Authorize, Reserve
    <3>4. now \in Nat /\ last \in LastRecord
      BY <1>t DEF TrackerKnows
    <3>5. TrackerKnows'
      <4>1. last' \in LastRecord
        BY <3>1, <3>3, <3>4 DEF LastRecord
      <4>2. ASSUME NEW r \in starts'
            PROVE  /\ r.print \in Prints /\ r.type \in Types /\ r.at \in 0..now
                   /\ r.at <= last'.prints[r.print] /\ r.at <= last'.types[r.type]
                   /\ r.at <= last'.project
        <5>1. CASE r = s
          BY <5>1, <3>1, <3>3, <3>4 DEF LastRecord
        <5>2. CASE r \in starts
          <6>1. /\ r.print \in Prints /\ r.type \in Types /\ r.at \in 0..now
                /\ r.at <= last.prints[r.print] /\ r.at <= last.types[r.type]
            BY <5>2, <1>t DEF TrackerKnows
          <6>2. QED
            BY <6>1, <3>1, <3>3, <3>4 DEF LastRecord
        <5>3. QED
          BY <5>1, <5>2, <3>3
      <4>3. QED
        BY <4>1, <4>2, <3>3, <3>4 DEF TrackerKnows
    <3>6. ASSUME NEW r \in starts
          PROVE  /\ now - r.at >= ProjectSeconds
                 /\ r.type = s.type => now - r.at >= TypeSeconds
                 /\ r.print = s.print => now - r.at >= PrintSeconds
      <4>1. /\ r.print \in Prints /\ r.type \in Types /\ r.at \in 0..now
            /\ r.at <= last.prints[r.print] /\ r.at <= last.types[r.type]
            /\ r.at <= last.project
        BY <3>6, <1>t DEF TrackerKnows
      <4>2. /\ last.prints[r.print] \in Int /\ last.types[r.type] \in Int
            /\ last.project \in Int
        BY <4>1, <3>4 DEF LastRecord
      <4>3. \A at \in Int, seconds \in Nat :
              Rested(at, seconds) /\ r.at <= at => now - r.at >= seconds
        BY <4>1, <3>4 DEF Rested, Never
      <4>4. /\ Rested(last.prints[e.print], PrintSeconds) /\ Rested(last.types[e.type], TypeSeconds)
            /\ Rested(last.project, ProjectSeconds)
        BY <3>2 DEF Check
      <4>5. QED
        BY <4>1, <4>2, <4>3, <4>4, CooldownsAssumption
    <3>7. CooldownHolds'
      <4>1. SUFFICES ASSUME NEW x \in starts', NEW y \in starts', x # y
                     PROVE  LET gap == IF x.at < y.at THEN y.at - x.at ELSE x.at - y.at
                            IN  /\ gap >= ProjectSeconds
                                /\ x.type = y.type => gap >= TypeSeconds
                                /\ x.print = y.print => gap >= PrintSeconds
        BY DEF CooldownHolds
      <4>2. \A r \in starts : r.at \in 0..now
        BY <1>t DEF TrackerKnows
      <4>3. CASE x \in starts /\ y \in starts
        BY <4>1, <4>3, <1>t DEF CooldownHolds
      <4>4. CASE x = s /\ y \in starts
        BY <4>4, <4>2, <3>4, <3>6, CooldownsAssumption
      <4>5. CASE x \in starts /\ y = s
        BY <4>5, <4>2, <3>4, <3>6, CooldownsAssumption
      <4>6. QED
        BY <4>1, <4>3, <4>4, <4>5, <3>3
    <3>8. QED
      BY <3>5, <3>7
  <2>3. CASE a # "monitor" \/ ~Authorized(a).go
    <3>1. UNCHANGED <<now, last, starts>>
      BY <2>1, <2>3 DEF Authorize, Reserve, Runners
    <3>2. QED
      BY <3>1, <1>k
  <2>4. QED
    BY <2>2, <2>3
\* The next monitor has forgotten, and nobody says that it should not.
<1>2. CASE \E a \in Runners : Crash(a)
  <2>1. CASE starts' = {} /\ last' = NoCooldown
    <3>1. now' = now
      BY <1>2 DEF Crash
    <3>2. last' \in LastRecord
      BY <2>1 DEF LastRecord, NoCooldown, Never
    <3>3. QED
      BY <2>1, <3>1, <3>2, <1>t DEF TrackerKnows, CooldownHolds
  <2>2. CASE UNCHANGED <<last, starts>>
    BY <1>2, <2>2, <1>k DEF Crash
  <2>3. QED
    BY <1>2, <2>1, <2>2 DEF Crash
<1>3. CASE Tick
  BY <1>3, <1>t DEF Tick, TrackerKnows, CooldownHolds
<1>4. CASE \/ (\E e \in Events : Recover(e)) \/ (\E r \in DOMAIN requests : RecoverAfterApproval(r))
           \/ (\E r \in DOMAIN requests : Decide(r)) \/ EditConfig \/ UNCHANGED vars
  BY <1>4, <1>k DEF Recover, RecoverAfterApproval, Decide, EditConfig, vars
<1>5. CASE \E a \in Runners : \/ BlockedReport(a) \/ Apply(a) \/ ApplyBreaks(a) \/ Rerun(a)
                               \/ Judge(a) \/ HandleException(a) \/ Report(a) \/ End(a)
  BY <1>5, <1>k DEF BlockedReport, Apply, ApplyBreaks, Rerun, Judge, HandleException, Report, End
<1>6. QED
  BY <1>1, <1>2, <1>3, <1>4, <1>5 DEF Next, Step

\* reserve, and _recover that asks it: whatever events are found, requests approved, commands
\* failing and processes restarted, a monitor never starts two executions within the cooldown
\* of the project, of their event type or of their fingerprint.
THEOREM CooldownsHold == Spec => []CooldownHolds
<1>1. CoolInv /\ [Next]_vars => CoolInv'
  BY InHandStep, FoundInHandStep, CoolStep DEF CoolInv
<1>2. CoolInv => CooldownHolds
  BY DEF CoolInv
<1>3. QED
  BY <1>1, <1>2, InitCoolInv, PTL DEF Spec

-----------------------------------------------------------------------------
(***************************************************************************)
(* Approvals.                                                              *)
(***************************************************************************)
\* A call that goes on after its authorization.
GoesOn(c) == c.step \notin {"idle", "authorize", "blocked"} /\ c.gate.go

\* The request r is one an operator could approve for what the call c does.
Backs(r, c) ==
  r.approvable /\ r.fix = c.gate.fix /\ r.event.print = c.event.print /\ r.event.type = c.event.type

ApprovalInv ==
  /\ InHand /\ RequestsInHand /\ BlockedDoesNotGo
  /\ GoesOn(run["monitor"]) => ~project.approval
  /\ GoesOn(run["approved"]) => Backs(requests[run["approved"].request], run["approved"])

\* A request stays what it is about; only its status changes.
SameRequests ==
  /\ \E S : requests' \in Seq(S)
  /\ DOMAIN requests \subseteq DOMAIN requests'
  /\ \A r \in DOMAIN requests' : DOMAIN requests'[r] = RequestFields
  /\ \A r \in DOMAIN requests :
       /\ requests'[r].approvable = requests[r].approvable
       /\ requests'[r].fix = requests[r].fix /\ requests'[r].event = requests[r].event

LEMMA AppendKeeps ==
  ASSUME NEW S, NEW s \in Seq(S), NEW x
  PROVE  /\ Append(s, x) \in Seq(S \cup {x})
         /\ DOMAIN Append(s, x) = DOMAIN s \cup {Len(s) + 1}
         /\ \A i \in DOMAIN s : Append(s, x)[i] = s[i]
         /\ Append(s, x)[Len(s) + 1] = x
<1>1. s \in Seq(S \cup {x})
  OBVIOUS
<1>2. QED
  BY <1>1

\* File appends a request, Decide and End change the status of one.
LEMMA RequestsStep == RequestsInHand /\ InHand /\ [Next]_vars => SameRequests
<1> SUFFICES ASSUME RequestsInHand, InHand, [Next]_vars PROVE SameRequests
  OBVIOUS
<1>1. PICK S : requests \in Seq(S)
  BY DEF RequestsInHand
<1>2. \A r \in DOMAIN requests : DOMAIN requests[r] = RequestFields
  BY DEF RequestsInHand
<1>u. ASSUME requests' = requests PROVE SameRequests
  BY <1>u, <1>1, <1>2 DEF SameRequests
<1>s. ASSUME NEW r \in DOMAIN requests, NEW status,
             requests' = [requests EXCEPT ![r].status = status]
      PROVE  SameRequests
  <2> DEFINE x == [requests[r] EXCEPT !.status = status]
  <2>1. requests' = [requests EXCEPT ![r] = x]
    BY <1>s, <1>1
  <2>2. /\ DOMAIN x = RequestFields /\ x.approvable = requests[r].approvable
        /\ x.fix = requests[r].fix /\ x.event = requests[r].event
    BY <1>2 DEF RequestFields
  <2>3. /\ DOMAIN requests' = DOMAIN requests
        /\ \A q \in DOMAIN requests : requests'[q] = IF q = r THEN x ELSE requests[q]
    BY <2>1, <1>1
  <2>4. requests' \in Seq(S \cup {x})
    <3>1. requests \in Seq(S \cup {x})
      BY <1>1
    <3> HIDE DEF x
    <3>2. QED
      BY <3>1, <2>1
  <2> HIDE DEF x
  <2>5. QED
    BY <2>2, <2>3, <2>4, <1>2 DEF SameRequests
<1>a. CASE \E a \in Runners : BlockedReport(a)
  <2>1. PICK a \in Runners : File(a)
    BY <1>a DEF BlockedReport
  <2>2. CASE requests' = requests
    BY <2>2, <1>u
  <2>3. CASE requests' # requests
    <3>1. PICK x : requests' = Append(requests, x) /\ DOMAIN x = RequestFields
      BY <2>1, <2>3 DEF File, RequestFields
    <3>2. /\ requests' \in Seq(S \cup {x})
          /\ DOMAIN requests' = DOMAIN requests \cup {Len(requests) + 1}
          /\ \A i \in DOMAIN requests : requests'[i] = requests[i]
          /\ requests'[Len(requests) + 1] = x
      BY <3>1, <1>1, AppendKeeps
    <3>3. \A r \in DOMAIN requests' : DOMAIN requests'[r] = RequestFields
      BY <3>1, <3>2, <1>2
    <3>4. QED
      BY <3>2, <3>3 DEF SameRequests
  <2>4. QED
    BY <2>2, <2>3
<1>b. CASE \E r \in DOMAIN requests : Decide(r)
  BY <1>b, <1>s DEF Decide
<1>c. CASE \E a \in Runners : End(a)
  <2>1. PICK a \in Runners : End(a)
    BY <1>c
  <2>2. CASE a = "approved"
    <3>1. run["approved"].step # "idle"
      BY <2>1, <2>2 DEF End
    <3>2. run["approved"].request \in DOMAIN requests
      BY <3>1 DEF RequestsInHand
    <3>3. requests' = [requests EXCEPT ![run["approved"].request].status = "over"]
      BY <2>1, <2>2 DEF End
    <3>4. QED
      BY <3>2, <3>3, <1>s
  <2>3. CASE a # "approved"
    BY <2>1, <2>3, <1>u DEF End
  <2>4. QED
    BY <2>2, <2>3
<1>d. CASE \/ (\E e \in Events : Recover(e)) \/ (\E r \in DOMAIN requests : RecoverAfterApproval(r))
           \/ EditConfig \/ Tick \/ UNCHANGED vars
  BY <1>d, <1>u DEF Recover, RecoverAfterApproval, EditConfig, Tick, vars
<1>e. CASE \E a \in Runners : \/ Authorize(a) \/ Apply(a) \/ ApplyBreaks(a) \/ Rerun(a) \/ Judge(a)
                               \/ HandleException(a) \/ Report(a) \/ Crash(a)
  BY ZenonT(40), <1>e, <1>u DEF Authorize, Apply, ApplyBreaks, Rerun, Judge, HandleException, Report, Crash
<1>f. QED
  BY <1>a, <1>b, <1>c, <1>d, <1>e DEF Next, Step

LEMMA ApprovalStep == ApprovalInv /\ [Next]_vars => ApprovalInv'
<1> SUFFICES ASSUME ApprovalInv, [Next]_vars PROVE ApprovalInv'
  OBVIOUS
<1>t. /\ InHand /\ RequestsInHand /\ BlockedDoesNotGo
      /\ GoesOn(run["monitor"]) => ~project.approval
      /\ GoesOn(run["approved"]) => Backs(requests[run["approved"].request], run["approved"])
      /\ DOMAIN run = Runners /\ Runners = {"monitor", "approved"}
  BY DEF ApprovalInv, InHand, Runners
<1>i. InHand'
  BY <1>t, InHandStep
<1>s. SameRequests
  BY <1>t, RequestsStep
<1>p. project' = project
  BY DEF Next, Step, Recover, RecoverAfterApproval, Decide, Authorize, BlockedReport, Apply,
         ApplyBreaks, Rerun, Judge, HandleException, Report, End, Crash, EditConfig, Tick, vars
\* It is enough to look at the call that changes.
<1>d. ASSUME NEW a \in Runners, NEW d, run' = [run EXCEPT ![a] = d],
             d.step = "blocked" => ~d.gate.go,
             a = "monitor" /\ GoesOn(d) => ~project.approval,
             a = "approved" /\ d.step # "idle" => d.request \in DOMAIN requests,
             a = "approved" /\ GoesOn(d) => Backs(requests[d.request], d)
      PROVE  ApprovalInv'
  <2>1. \A b \in Runners : run'[b] = IF b = a THEN d ELSE run[b]
    BY <1>d, <1>t
  <2>2. BlockedDoesNotGo'
    BY <2>1, <1>d, <1>t DEF BlockedDoesNotGo
  <2>3. GoesOn(run["monitor"])' => ~project'.approval
    BY <2>1, <1>d, <1>t, <1>p DEF GoesOn
  <2>4. run'["approved"].step # "idle" => run'["approved"].request \in DOMAIN requests
    BY <2>1, <1>d, <1>t DEF RequestsInHand
  <2>5. GoesOn(run["approved"])' => Backs(requests[run'["approved"].request], run'["approved"])
    BY <2>1, <1>d, <1>t DEF GoesOn
  <2>6. RequestsInHand'
    BY <2>4, <1>s DEF RequestsInHand, SameRequests
  <2>7. GoesOn(run["approved"])' => Backs(requests'[run'["approved"].request], run'["approved"])
    BY <2>4, <2>5, <1>s DEF GoesOn, Backs, SameRequests
  <2>8. QED
    BY <2>2, <2>3, <2>6, <2>7, <1>i DEF ApprovalInv
<1>1. CASE \E e \in Events : Recover(e)
  <2>1. PICK e \in Events : Start("monitor", e, e, 0)
    BY <1>1 DEF Recover
  <2>2. QED
    BY <2>1, <1>d, <1>t, StartBegins DEF GoesOn
<1>2. CASE \E r \in DOMAIN requests : RecoverAfterApproval(r)
  <2>0. PICK r \in DOMAIN requests : RecoverAfterApproval(r)
    BY <1>2
  <2>1. PICK e : Start("approved", e, requests[r].event, r)
    BY <2>0 DEF RecoverAfterApproval
  <2>2. QED
    BY <2>1, <1>d, <1>t, StartBegins DEF GoesOn
<1>3. CASE \E a \in Runners : Authorize(a)
  <2>1. PICK a \in Runners : Authorize(a)
    BY <1>3
  <2>2. PICK d : /\ run' = [run EXCEPT ![a] = d] /\ d.gate = Authorized(a)
                 /\ d.event = run[a].event /\ d.request = run[a].request
                 /\ d.step = IF Authorized(a).go THEN "apply" ELSE "blocked"
    BY <2>1, <1>t, AuthorizeEffect
  <2>3. run[a].step = "authorize" /\ "go" \in DOMAIN run[a].gate
    BY <2>1, <1>t DEF Authorize, InHand
  <2>4. d.gate.go => d.gate = run[a].gate /\ Objection(a) = ""
    BY <2>2, <2>3, AuthorizedGoes
  <2>5. a = "monitor" /\ d.gate.go => ~project.approval
    BY <2>4 DEF Objection
  <2>6. a = "approved" /\ d.gate.go => Backs(requests[d.request], d)
    <3>1. SUFFICES ASSUME a = "approved", d.gate.go PROVE Backs(requests[d.request], d)
      OBVIOUS
    <3>2. Approval(requests[run[a].request], run[a].event, run[a].gate)
      BY <2>4, <3>1 DEF Objection
    <3>3. QED
      BY <3>1, <3>2, <2>2, <2>4 DEF Approval, Backs
  <2>7. d.step = "blocked" => ~d.gate.go
    BY <2>2
  <2>8. a = "approved" => d.request \in DOMAIN requests
    BY <2>2, <2>3, <1>t DEF RequestsInHand
  <2>9. QED
    BY <2>2, <2>5, <2>6, <2>7, <2>8, <1>d DEF GoesOn
<1>4. CASE \E a \in Runners : \/ BlockedReport(a) \/ Apply(a) \/ ApplyBreaks(a) \/ Rerun(a)
                               \/ Judge(a) \/ HandleException(a) \/ Report(a)
  <2>0. PICK a \in Runners :
          \E d : /\ run[a].step \notin {"idle", "authorize"}
                /\ run' = [run EXCEPT ![a] = d] /\ SameCall(run[a], d)
                /\ d.step \notin {"authorize", "blocked"}
    BY <1>4, <1>t, StepsKeepCall
  <2>1. PICK d : /\ run[a].step \notin {"idle", "authorize"}
                 /\ run' = [run EXCEPT ![a] = d] /\ SameCall(run[a], d)
                 /\ d.step \notin {"authorize", "blocked"}
    BY <2>0
  <2>2. GoesOn(d) => GoesOn(run[a])
    BY <2>1, <1>t DEF GoesOn, SameCall, BlockedDoesNotGo
  <2>3. a = "approved" => d.request \in DOMAIN requests
    BY <2>1, <1>t DEF SameCall, RequestsInHand
  <2>4. a = "approved" /\ GoesOn(d) => Backs(requests[d.request], d)
    BY <2>1, <2>2, <1>t DEF SameCall, Backs
  <2>5. QED
    BY <2>1, <2>2, <2>3, <2>4, <1>d, <1>t
<1>5. CASE \E a \in Runners : End(a) \/ Crash(a)
  <2>1. PICK a \in Runners : run' = [run EXCEPT ![a] = Idle]
    BY <1>5 DEF End, Crash
  <2>2. Idle.step = "idle"
    BY DEF Idle
  <2>3. QED
    BY <2>1, <2>2, <1>d DEF GoesOn
<1>6. CASE (\E r \in DOMAIN requests : Decide(r)) \/ EditConfig \/ Tick \/ UNCHANGED vars
  <2>1. run' = run
    BY <1>6 DEF Decide, EditConfig, Tick, vars
  <2>2. BlockedDoesNotGo' /\ (GoesOn(run["monitor"])' => ~project'.approval)
    BY <2>1, <1>t, <1>p DEF BlockedDoesNotGo, GoesOn
  <2>3. RequestsInHand'
    BY <2>1, <1>t, <1>s DEF RequestsInHand, SameRequests
  <2>4. GoesOn(run["approved"])' => Backs(requests'[run'["approved"].request], run'["approved"])
    BY <2>1, <1>t, <1>s DEF RequestsInHand, SameRequests, GoesOn, Backs
  <2>5. QED
    BY <2>2, <2>3, <2>4, <1>i DEF ApprovalInv
<1>7. QED
  BY <1>1, <1>2, <1>3, <1>4, <1>5, <1>6 DEF Next, Step

LEMMA InitApprovalInv == Init => ApprovalInv
<1> SUFFICES ASSUME Init PROVE ApprovalInv
  OBVIOUS
<1>1. InHand
  BY InitCoolInv DEF CoolInv
<1>2. \A a \in Runners : run[a].step = "idle"
  BY DEF Init, Idle
<1>3. "monitor" \in Runners /\ "approved" \in Runners
  BY DEF Runners
<1>4. RequestsInHand
  <2>1. requests \in Seq({}) /\ DOMAIN requests = {}
    BY DEF Init
  <2>2. QED
    BY <2>1, <1>2, <1>3 DEF RequestsInHand
<1>5. QED
  BY <1>1, <1>2, <1>3, <1>4 DEF ApprovalInv, BlockedDoesNotGo, GoesOn

\* _validate_approval_for_gate and _block_gate: whatever is decided, filed and retried
\* meanwhile, the worker executes only the fix and the event an operator could approve, and the
\* monitor nothing of a project that asks for approvals.
THEOREM NothingIsUnapproved == Spec => []NothingUnapproved
<1>1. ApprovalInv => NothingUnapproved
  <2> SUFFICES ASSUME ApprovalInv, NEW a \in Executing
               PROVE  /\ project.approval => a = "approved"
                      /\ a = "approved" => Backs(requests[run[a].request], run[a])
    BY DEF NothingUnapproved, Backs
  <2>1. a \in Runners /\ GoesOn(run[a])
    BY DEF Executing, Active, GoesOn
  <2>2. QED
    BY <2>1 DEF ApprovalInv, Runners
<1>2. QED
  BY <1>1, InitApprovalInv, ApprovalStep, PTL DEF Spec

-----------------------------------------------------------------------------
(***************************************************************************)
(* What is executed is what the gate let pass.                             *)
(***************************************************************************)
RequestEvents == \A r \in DOMAIN requests : requests[r].event \in Events

\* The call c of the runner a is about an event that was found; and if its gate says go, the
\* gate has looked at that event, or at what the request kept of it.
Granted(a, c) ==
  /\ c.found \in Events /\ c.event.type = c.found.type
  /\ a = "monitor" => c.event = c.found
  /\ c.gate.go =>
       /\ c.gate.fix = SafeFixOf(c.event.type) /\ c.gate.fix \in SafeFixes \cap project.allow
       /\ project.enabled /\ project.auto /\ project.rollback /\ ~project.dry
       /\ ~Ambiguous(c.event, c.gate.fix)

AllGranted == \A a \in Runners : run[a].step # "idle" => Granted(a, run[a])

GrantInv == InHand /\ RequestsInHand /\ RequestEvents /\ AllGranted

LEMMA ProjectStays == [Next]_vars => project' = project
BY DEF Next, Step, Recover, RecoverAfterApproval, Decide, Authorize, BlockedReport, Apply,
       ApplyBreaks, Rerun, Judge, HandleException, Report, End, Crash, EditConfig, Tick, vars

LEMMA RebuiltKeeps ==
  ASSUME NEW e \in Events, NEW kept
  PROVE  Rebuilt(e, kept).type = e.type /\ Rebuilt(e, kept).print = e.print
<1>1. e \in [print : STRING, type : STRING, issue : STRING, sure : BOOLEAN, text : BOOLEAN,
             domains : SUBSET STRING]
  BY EventsAssumption
<1>2. QED
  BY <1>1 DEF Rebuilt

LEMMA BegunGranted ==
  ASSUME InHand, NEW a \in Runners, NEW e, NEW found \in Events, NEW request,
         Start(a, e, found, request), e.type = found.type, a = "monitor" => e = found
  PROVE  Granted(a, Begun(a, e, found, request))
<1> DEFINE c == Begun(a, e, found, request)
<1>1. c.event = e /\ c.found = found /\ c.gate = Gate(project, e, World, Cool(a, e))
  BY StartBegins
<1>2. c.gate.go =>
        /\ c.gate.fix = SafeFixOf(e.type) /\ c.gate.fix \in SafeFixes \cap project.allow
        /\ project.enabled /\ project.auto /\ project.rollback /\ ~project.dry
        /\ ~Ambiguous(e, c.gate.fix)
  <2> HIDE DEF c
  <2>1. QED
    BY <1>1, GateChecked
<1> HIDE DEF c
<1>3. Granted(a, c)
  BY <1>1, <1>2 DEF Granted
<1>4. QED
  BY <1>3 DEF c

LEMMA GrantStep == GrantInv /\ [Next]_vars => AllGranted'
<1> SUFFICES ASSUME GrantInv, [Next]_vars PROVE AllGranted'
  OBVIOUS
<1>t. /\ InHand /\ RequestsInHand /\ RequestEvents /\ AllGranted
      /\ DOMAIN run = Runners /\ Runners = {"monitor", "approved"}
  BY DEF GrantInv, InHand, Runners
<1>p. project' = project
  BY ProjectStays
<1>d. ASSUME NEW a \in Runners, NEW d, run' = [run EXCEPT ![a] = d],
             d.step # "idle" => Granted(a, d)
      PROVE  AllGranted'
  <2>1. \A b \in Runners : run'[b] = IF b = a THEN d ELSE run[b]
    BY <1>d, <1>t
  <2>2. QED
    BY <2>1, <1>d, <1>t, <1>p DEF AllGranted, Granted
<1>1. CASE \E e \in Events : Recover(e)
  <2>1. PICK e \in Events : Start("monitor", e, e, 0)
    BY <1>1 DEF Recover
  <2>2. QED
    BY <2>1, <1>d, <1>t, StartBegins, BegunGranted
<1>2. CASE \E r \in DOMAIN requests : RecoverAfterApproval(r)
  <2>0. PICK r \in DOMAIN requests : RecoverAfterApproval(r)
    BY <1>2
  <2>1. PICK kept : Start("approved", Rebuilt(requests[r].event, kept), requests[r].event, r)
    BY <2>0 DEF RecoverAfterApproval
  <2>2. requests[r].event \in Events
    BY <1>t DEF RequestEvents
  <2>3. Rebuilt(requests[r].event, kept).type = requests[r].event.type
    BY <2>2, RebuiltKeeps
  <2>4. QED
    BY <2>1, <2>2, <2>3, <1>d, <1>t, StartBegins, BegunGranted
<1>3. CASE \E a \in Runners : Authorize(a)
  <2>1. PICK a \in Runners : Authorize(a)
    BY <1>3
  <2>2. PICK d : /\ run' = [run EXCEPT ![a] = d] /\ d.gate = Authorized(a)
                 /\ d.event = run[a].event /\ d.found = run[a].found
    BY <2>1, <1>t, AuthorizeEffect
  <2>3. run[a].step = "authorize" /\ "go" \in DOMAIN run[a].gate
    BY <2>1, <1>t DEF Authorize, InHand
  <2>4. d.gate.go => d.gate = run[a].gate
    BY <2>2, <2>3, AuthorizedGoes
  <2>5. Granted(a, d)
    BY <2>2, <2>3, <2>4, <1>t DEF AllGranted, Granted
  <2>6. QED
    BY <2>2, <2>5, <1>d
<1>4. CASE \E a \in Runners : \/ BlockedReport(a) \/ Apply(a) \/ ApplyBreaks(a) \/ Rerun(a)
                               \/ Judge(a) \/ HandleException(a) \/ Report(a)
  <2>0. PICK a \in Runners :
          \E d : /\ run[a].step # "idle" /\ run' = [run EXCEPT ![a] = d]
                 /\ SameCall(run[a], d)
    BY <1>4, <1>t, StepsKeepCall
  <2>1. PICK d : /\ run[a].step # "idle" /\ run' = [run EXCEPT ![a] = d]
                 /\ SameCall(run[a], d)
    BY <2>0
  <2>2. Granted(a, d)
    BY <2>1, <1>t DEF SameCall, AllGranted, Granted
  <2>3. QED
    BY <2>1, <2>2, <1>d
<1>5. CASE \E a \in Runners : End(a) \/ Crash(a)
  BY <1>5, <1>d DEF End, Crash, Idle
<1>6. CASE (\E r \in DOMAIN requests : Decide(r)) \/ EditConfig \/ Tick \/ UNCHANGED vars
  <2>1. run' = run
    BY <1>6 DEF Decide, EditConfig, Tick, vars
  <2>2. QED
    BY <2>1, <1>t, <1>p DEF AllGranted, Granted
<1>7. QED
  BY <1>1, <1>2, <1>3, <1>4, <1>5, <1>6 DEF Next, Step

\* What is filed is about an event the monitor found.
LEMMA RequestEventsStep == GrantInv /\ [Next]_vars => RequestEvents'
<1> SUFFICES ASSUME GrantInv, [Next]_vars PROVE RequestEvents'
  OBVIOUS
<1>1. SameRequests
  BY RequestsStep DEF GrantInv
<1>2. \A r \in DOMAIN requests' : r \in DOMAIN requests \/ requests'[r].event \in Events
  <2>1. CASE DOMAIN requests' = DOMAIN requests
    BY <2>1
  <2>2. CASE DOMAIN requests' # DOMAIN requests
    <3>1. PICK a \in Runners : BlockedReport(a)
      <4>1. ASSUME NEW r, NEW x, requests' = [requests EXCEPT ![r].status = x] PROVE FALSE
        BY <4>1, <2>2
      <4>2. requests' # requests
        BY <2>2
      <4>3. ~\E r \in DOMAIN requests : Decide(r)
        BY <4>1 DEF Decide
      <4>4. ~\E a \in Runners : End(a)
        BY <4>1, <4>2 DEF End
      <4>5. QED
        BY <4>2, <4>3, <4>4 DEF Next, Step, Recover, RecoverAfterApproval, Authorize, Apply,
             ApplyBreaks, Rerun, Judge, HandleException, Report, Crash, EditConfig, Tick, vars
    <3>2. PICK x : /\ a = "monitor" /\ requests' = Append(requests, x) /\ x.event = run[a].event
      <4>1. File(a)
        BY <3>1 DEF BlockedReport
      <4>2. QED
        BY <4>1, <2>2 DEF File
    <3>3. run["monitor"].step # "idle" /\ run["monitor"].event \in Events
      BY <3>1, <3>2 DEF BlockedReport, GrantInv, AllGranted, Granted
    <3>4. PICK S : requests \in Seq(S)
      BY DEF GrantInv, RequestsInHand
    <3>5. QED
      BY SMTT(30), <3>2, <3>3, <3>4, AppendKeeps
  <2>3. QED
    BY <2>1, <2>2
<1>3. QED
  BY <1>1, <1>2 DEF SameRequests, GrantInv, RequestEvents

LEMMA InitGrantInv == Init => GrantInv
<1> SUFFICES ASSUME Init PROVE GrantInv
  OBVIOUS
<1>1. InHand /\ RequestsInHand
  BY InitApprovalInv DEF ApprovalInv
<1>2. \A a \in Runners : run[a].step = "idle"
  BY DEF Init, Idle
<1>3. DOMAIN requests = {}
  BY DEF Init
<1>4. QED
  BY <1>1, <1>2, <1>3 DEF GrantInv, AllGranted, RequestEvents

LEMMA GrantInvariant == Spec => [](ApprovalInv /\ GrantInv)
<1>1. ApprovalInv /\ GrantInv /\ [Next]_vars => (ApprovalInv /\ GrantInv)'
  BY ApprovalStep, GrantStep, RequestEventsStep DEF ApprovalInv, GrantInv
<1>2. QED
  BY <1>1, InitApprovalInv, InitGrantInv, PTL DEF Spec

\* recover and recover_after_approval: whatever is executed is the safe fix registered for the
\* type of the event that was found, in a project that wants it executed and can take it back;
\* ambiguous evidence, and a project that asks for approvals, need one that was given.
THEOREM OnlyAuthorizedIsExecuted == Spec => []ExecutedIsAuthorized
<1>1. ApprovalInv /\ GrantInv => ExecutedIsAuthorized
  <2> SUFFICES ASSUME ApprovalInv, GrantInv, NEW a \in Executing
               PROVE  LET c == run[a]
                      IN  /\ c.gate.fix = SafeFixOf(c.found.type)
                          /\ c.gate.fix \in SafeFixes \cap project.allow
                          /\ project.enabled /\ project.auto /\ project.rollback /\ ~project.dry
                          /\ Ambiguous(c.found, c.gate.fix) \/ project.approval =>
                               /\ a = "approved"
                               /\ requests[c.request].approvable
                               /\ requests[c.request].fix = c.gate.fix
    BY DEF ExecutedIsAuthorized
  <2>1. a \in Runners /\ run[a].step # "idle" /\ run[a].gate.go /\ GoesOn(run[a])
    BY DEF Executing, Active, GoesOn
  <2>2. Granted(a, run[a])
    BY <2>1 DEF GrantInv, AllGranted
  <2>3. /\ a = "monitor" => ~project.approval
        /\ a = "approved" => Backs(requests[run[a].request], run[a])
    BY <2>1 DEF ApprovalInv
  <2>4. a = "monitor" \/ a = "approved"
    BY <2>1 DEF Runners
  <2>5. QED
    BY <2>1, <2>2, <2>3, <2>4 DEF Granted, Backs
<1>2. QED
  BY <1>1, GrantInvariant, PTL

-----------------------------------------------------------------------------
(***************************************************************************)
(* What is recorded is what was done.                                      *)
(***************************************************************************)
\* What a call has done agrees with where it is: nothing before the fix, nothing without a
\* verdict to go; a rollback only of what was applied and did not recover, and always then.
Sound(c) ==
  /\ ~c.gate.go => c.step \in {"authorize", "blocked", "reported", "raised"}
  /\ ~c.gate.go \/ c.step \in {"authorize", "blocked", "apply"} => Untouched(c)
  /\ c.step \in {"rerun", "judge"} =>
       c.applied /\ ~c.rolled /\ ~c.undone /\ ~c.again /\ c.back = {}
  /\ c.step = "rerun" => ~c.rerun
  /\ c.rerun => c.applied /\ ~c.rolled /\ c.back = {}
  /\ ~c.applied => ~c.rolled /\ c.back = {} /\ (c.wrote => c.torn)
  /\ c.undone => c.back # {}
  /\ c.back # {} => c.rolled
  /\ ~c.again /\ c.back # {} => c.undone
  /\ c.step \in {"report", "reported"} /\ c.gate.go /\ c.applied /\ ~c.rerun => c.rolled
  /\ c.step = "reported" => c.told = Audit(c)

AllSound == \A a \in Runners : run[a].step # "idle" => Sound(run[a])

LEMMA SameAudit ==
  ASSUME NEW c, NEW d, SameCall(c, d), SameMarks(c, d)
  PROVE  Audit(d) = Audit(c)
BY DEF SameCall, SameMarks, Audit, ExecutionResult, RollbackResult

LEMMA SoundRecorded ==
  ASSUME NEW c, NEW d, Sound(c), SameCall(c, d), Recorded(c, d),
         c.step \in {"blocked", "report"}, d.step \in {"reported", "raised", "again"},
         c.step = "blocked" => d.step # "again"
  PROVE  Sound(d)
<1>1. SameMarks(c, d) /\ d.told = Audit(d) /\ d.gate = c.gate
  BY SameAudit DEF Recorded, SameCall
<1>2. QED
  BY <1>1 DEF Sound, SameMarks, Untouched

LEMMA SoundApplied ==
  ASSUME NEW c, NEW d, Sound(c), SameCall(c, d), NEW k \in Int, Applied(c, d, k),
         c.step = "apply", c.gate.go
  PROVE  Sound(d)
<1>1. Untouched(c) /\ d.gate.go
  BY DEF Sound, SameCall
<1>2. CASE k < 0
  <2>1. ~d.applied /\ ~d.wrote /\ d.step = "report"
    BY <1>2 DEF Applied
  <2>2. QED
    BY <1>1, <2>1 DEF Sound, Applied, Untouched
<1>3. CASE k >= 0
  <2>1. d.applied /\ d.step \in {"rerun", "judge"}
    BY <1>3 DEF Applied
  <2>2. QED
    BY <1>1, <2>1 DEF Sound, Applied, Untouched
<1>4. QED
  BY <1>2, <1>3

LEMMA SoundBroken ==
  ASSUME NEW c, NEW d, Sound(c), SameCall(c, d), NEW k, Broken(c, d, k),
         c.step = "apply", c.gate.go
  PROVE  Sound(d)
BY DEF Sound, SameCall, Broken, Untouched

LEMMA SoundReran ==
  ASSUME NEW c, NEW d, Sound(c), SameCall(c, d), Reran(c, d), c.step = "rerun"
  PROVE  Sound(d)
BY DEF Sound, SameCall, Reran, Untouched

LEMMA SoundRolled ==
  ASSUME NEW c0, NEW c, NEW d, Sound(c0), SameCall(c0, c), SameCall(c0, d),
         c.applied = c0.applied, c.rerun = c0.rerun, c.rolled = c0.rolled, c.undone = c0.undone,
         c.wrote = c0.wrote, c.torn = c0.torn, c.back = c0.back,
         (c0.step = "judge" /\ c.again = c0.again) \/ (c0.step = "again" /\ c.again),
         c0.gate.go => project.rollback, NEW nr, NEW raised \in {"again", "raised"},
         \/ TookBack(c, d, nr) \/ TookNothing(c, d)
         \/ SameMarks(c0, d) /\ d.step = raised
         \/ SameMarks(c, d) /\ d.step = "report" /\ ~CallsForRollback(c)
  PROVE  Sound(d)
<1>1. c0.gate.go /\ d.gate = c0.gate
  BY DEF Sound, SameCall
<1>2. CASE TookBack(c, d, nr)
  BY <1>1, <1>2 DEF Sound, TookBack, CallsForRollback, Untouched
<1>3. CASE TookNothing(c, d)
  BY <1>1, <1>3 DEF Sound, TookNothing, CallsForRollback, Untouched
<1>4. CASE SameMarks(c0, d) /\ d.step = raised
  BY <1>1, <1>4 DEF Sound, SameMarks, Untouched
<1>5. CASE SameMarks(c, d) /\ d.step = "report" /\ ~CallsForRollback(c)
  BY <1>1, <1>5 DEF Sound, SameMarks, CallsForRollback, Untouched
<1>6. QED
  BY <1>2, <1>3, <1>4, <1>5

-----------------------------------------------------------------------------
(***************************************************************************)
(* The file and the ledgers.                                               *)
(***************************************************************************)
LEMMA ChoiceOfFix ==
  ASSUME NEW fix \in SafeFixes, IsConfig(content)
  PROVE  /\ Choice(fix) = LocalChoice(SpecOfFix(fix), content, "free")
         /\ Choice(fix) \in Int
<1> DEFINE spec == SpecOfFix(fix)
<1>1. spec \in Range(SafeSpecs)
  BY SafeSpecOfFix
<1> HIDE DEF spec
<1>2. LocalChoice(spec, content, "free") = RemoteChoice(spec, content, TRUE)
  <2>1. LocalChoice(spec, content, "free") = RemoteChoice(spec, content, "free" = "free")
    BY <1>1, SameChoice
  <2>2. ("free" = "free") = TRUE
    OBVIOUS
  <2>3. QED
    BY <2>1, <2>2
<1>3. Choice(fix) = LocalChoice(spec, content, "free")
  BY <1>2 DEF Choice, spec
<1>4. LocalChoice(spec, content, "free") \in Int
  <2>1. \/ LocalChoice(spec, content, "free") = 0 \/ LocalChoice(spec, content, "free") = -1
        \/ LocalChoice(spec, content, "free") \in There(spec, content)
    BY <1>1, ChoiceIsActionable
  <2>2. \A k \in There(spec, content) : k \in Nat
    BY <1>1, VerdictsAgree
  <2>3. QED
    BY <2>1, <2>2
<1>5. QED
  BY <1>3, <1>4 DEF spec

\* One field is another, and degraded.
OneDegraded(old, new) ==
  \E f \in DOMAIN old : /\ \A g \in DOMAIN old \ {f} : new[g] = old[g]
                        /\ Degrades(f, old[f], new[f])

\* What an edit leaves is a file again.
LEMMA EditDegrades ==
  ASSUME NEW fix \in SafeFixes, IsConfig(content), NEW k \in {0, Choice(fix)}
  PROVE  /\ IsConfig(WrittenBy(SpecOfFix(fix), content, k))
         /\ \/ WrittenBy(SpecOfFix(fix), content, k) = content
            \/ OneDegraded(content, WrittenBy(SpecOfFix(fix), content, k))
<1> DEFINE spec == SpecOfFix(fix)
<1>1. spec \in Range(SafeSpecs) /\ Choice(fix) = LocalChoice(spec, content, "free") /\ k \in Int
  BY SafeSpecOfFix, ChoiceOfFix
<1> HIDE DEF spec
<1>2. CASE ~(k > 0)
  BY <1>2 DEF WrittenBy
<1>3. CASE k > 0
  <2>1. k = LocalChoice(spec, content, "free")
    BY <1>1, <1>3
  <2> DEFINE f == spec.candidates[k].field
             new == WrittenBy(spec, content, k)
  <2>2. /\ f \in DOMAIN content /\ IsConfig(new)
        /\ \A g \in DOMAIN content \ {f} : new[g] = content[g]
        /\ Degrades(f, content[f], new[f])
    BY <1>1, <1>3, <2>1, ChoiceIsSafe
  <2> HIDE DEF f, new
  <2>3. OneDegraded(content, new)
    BY <2>2 DEF OneDegraded
  <2>4. QED
    BY <2>2, <2>3 DEF spec, new
<1>4. QED
  BY <1>2, <1>3

LEMMA FrontKeeps ==
  ASSUME NEW S, NEW s \in Seq(S), s # <<>>
  PROVE  /\ Len(s) \in DOMAIN s /\ Last(s) = s[Len(s)]
         /\ Front(s) \in Seq(S) /\ Len(Front(s)) = Len(s) - 1
         /\ DOMAIN Front(s) \subseteq DOMAIN s
         /\ \A i \in DOMAIN Front(s) : Front(s)[i] = s[i]
<1>1. Len(s) \in Nat /\ Len(s) > 0 /\ DOMAIN s = 1..Len(s) /\ \A i \in 1..Len(s) : s[i] \in S
  OBVIOUS
<1>2. Front(s) = [i \in 1..(Len(s) - 1) |-> s[i]]
  BY <1>1 DEF Front
<1>3. Front(s) \in Seq(S) /\ Len(Front(s)) = Len(s) - 1
  BY <1>1, <1>2
<1>4. QED
  BY <1>1, <1>2, <1>3 DEF Last

\* The file is one, and so is what a ledger holds of it; the calls are numbered.
LedgerOK(records, n) ==
  /\ \E S : records \in Seq(S)
  /\ \A i \in DOMAIN records :
       IsConfig(records[i].before) /\ records[i].nr \in Nat /\ records[i].nr < n

FileInv ==
  /\ count \in [recoveries : Nat, upsets : Nat]
  /\ IsConfig(content)
  /\ DOMAIN ledger = Runners
  /\ \A a \in Runners : LedgerOK(ledger[a], count.recoveries)
  /\ \A a \in Runners : run[a].step # "idle" => run[a].nr \in Nat /\ run[a].nr < count.recoveries

LEMMA AppendLedger ==
  ASSUME NEW n \in Nat, NEW records, LedgerOK(records, n), NEW nr \in Nat, nr < n,
         IsConfig(content)
  PROVE  LET new == Append(records, [nr |-> nr, before |-> content])
         IN  LedgerOK(new, n) /\ new # <<>> /\ Last(new).nr = nr
<1> DEFINE x == [nr |-> nr, before |-> content]
<1>1. x.nr = nr /\ x.before = content
  OBVIOUS
<1> HIDE DEF x
<1>2. PICK S : records \in Seq(S)
  BY DEF LedgerOK
<1>3. /\ Append(records, x) \in Seq(S \cup {x}) /\ Append(records, x) # <<>>
      /\ DOMAIN Append(records, x) = DOMAIN records \cup {Len(records) + 1}
      /\ \A i \in DOMAIN records : Append(records, x)[i] = records[i]
      /\ Append(records, x)[Len(records) + 1] = x
  BY <1>2, AppendKeeps
<1>4. Last(Append(records, x)) = x
  BY <1>2 DEF Last
<1>5. QED
  BY <1>1, <1>3, <1>4 DEF LedgerOK, x

LEMMA FrontLedger ==
  ASSUME NEW n, NEW records, LedgerOK(records, n), records # <<>>
  PROVE  LedgerOK(Front(records), n) /\ IsConfig(Taken(records).before)
<1>1. PICK S : records \in Seq(S)
  BY DEF LedgerOK
<1>2. QED
  BY <1>1, FrontKeeps DEF LedgerOK, Taken

LEMMA LaterLedger ==
  ASSUME NEW n \in Nat, NEW m \in Nat, n <= m, NEW records, LedgerOK(records, n)
  PROVE  LedgerOK(records, m)
BY DEF LedgerOK

LEMMA EmptyLedger == \A n : LedgerOK(<<>>, n)
<1>1. <<>> \in Seq({}) /\ DOMAIN <<>> = {}
  OBVIOUS
<1>2. QED
  BY <1>1 DEF LedgerOK

LEMMA CountStep ==
  ASSUME count \in [recoveries : Nat, upsets : Nat], [Next]_vars
  PROVE  /\ count' \in [recoveries : Nat, upsets : Nat]
         /\ count.recoveries <= count'.recoveries
<1>1. CASE count' = count
  BY <1>1
<1>2. CASE count' = [count EXCEPT !.recoveries = @ + 1] \/ count' = [count EXCEPT !.upsets = @ + 1]
  BY <1>2
<1>3. QED
  BY <1>1, <1>2 DEF Next, Step, Recover, RecoverAfterApproval, Start, Decide, Authorize,
       BlockedReport, RecordAndReport, Apply, ApplyBreaks, Rerun, Judge, HandleException,
       RollBack, Report, End, Crash, EditConfig, Tick, Upset, vars

\* What a step does to the file.
LEMMA ContentStep ==
  ASSUME GrantInv, FileInv, [Next]_vars
  PROVE  /\ IsConfig(content')
         /\ \/ content' = content \/ run' = run \/ OneDegraded(content, content')
            \/ \E a \in Runners : /\ ledger[a] # <<>> /\ content' = Taken(ledger[a]).before
                                  /\ ledger' = [ledger EXCEPT ![a] = Front(@)]
<1>t. InHand /\ AllGranted /\ IsConfig(content)
  BY DEF GrantInv, FileInv
<1>g. ASSUME NEW a \in Runners, run[a].step = "apply", run[a].gate.go
      PROVE  run[a].gate.fix \in SafeFixes
  BY <1>t, <1>g DEF AllGranted, Granted
<1>u. CASE content' = content
  BY <1>u, <1>t
<1>1. CASE \E a \in Runners : Apply(a)
  <2>1. PICK a \in Runners : Apply(a)
    BY <1>1
  <2>2. /\ run[a].step = "apply" /\ run[a].gate.go
        /\ content' = WrittenBy(SpecOfFix(run[a].gate.fix), content, Choice(run[a].gate.fix))
    BY <2>1 DEF Apply, Authoritative
  <2>3. QED
    BY <2>2, <1>g, <1>t, EditDegrades
<1>2. CASE \E a \in Runners : ApplyBreaks(a)
  <2>1. PICK a \in Runners : ApplyBreaks(a)
    BY <1>2
  <2>2. PICK done \in {0, Choice(run[a].gate.fix)} :
          /\ content' = WrittenBy(SpecOfFix(run[a].gate.fix), content, done)
          /\ done # 0 => Authoritative(run[a].gate)
    BY <2>1, <1>t, BreakEffect
  <2>3. CASE done = 0
    BY <2>2, <2>3, <1>u DEF WrittenBy
  <2>4. CASE done # 0
    <3>1. run[a].step = "apply" /\ run[a].gate.go
      BY <2>1, <2>2, <2>4 DEF ApplyBreaks, Authoritative
    <3>2. QED
      BY <3>1, <2>2, <1>g, <1>t, EditDegrades
  <2>5. QED
    BY <2>3, <2>4
<1>3. CASE \E a \in Runners : Judge(a) \/ HandleException(a)
  <2>1. PICK a \in Runners : Judge(a) \/ HandleException(a)
    BY <1>3
  <2>2. CASE content' # content
    <3>1. /\ ledger[a] # <<>> /\ content' = Taken(ledger[a]).before
          /\ ledger' = [ledger EXCEPT ![a] = Front(@)]
      BY <2>1, <2>2 DEF Judge, HandleException, RollBack, Undo
    <3>2. IsConfig(content')
      BY <3>1, FrontLedger DEF FileInv
    <3>3. QED
      BY <3>1, <3>2
  <2>3. QED
    BY <2>2, <1>u
<1>4. CASE EditConfig
  BY <1>4, ContentsAssumption DEF EditConfig
<1>5. CASE \/ (\E e \in Events : Recover(e)) \/ (\E r \in DOMAIN requests : RecoverAfterApproval(r))
           \/ (\E r \in DOMAIN requests : Decide(r)) \/ Tick \/ UNCHANGED vars
  BY <1>5, <1>u DEF Recover, RecoverAfterApproval, Decide, Tick, vars
<1>6. CASE \E a \in Runners : \/ Authorize(a) \/ BlockedReport(a) \/ Rerun(a) \/ Report(a) \/ End(a)
                               \/ Crash(a)
  BY <1>6, <1>u DEF Authorize, BlockedReport, Rerun, Report, End, Crash
<1>7. QED
  BY <1>1, <1>2, <1>3, <1>4, <1>5, <1>6 DEF Next, Step

\* A ledger gets one record more, loses its newest, or is emptied.
LEMMA LedgersStep ==
  ASSUME FileInv, [Next]_vars
  PROVE  /\ DOMAIN ledger' = Runners
         /\ \A a \in Runners : LedgerOK(ledger'[a], count'.recoveries)
<1>t. /\ count.recoveries \in Nat /\ count'.recoveries \in Nat
      /\ count.recoveries <= count'.recoveries
      /\ DOMAIN ledger = Runners /\ \A a \in Runners : LedgerOK(ledger[a], count'.recoveries)
  <2>1. /\ count' \in [recoveries : Nat, upsets : Nat] /\ count \in [recoveries : Nat, upsets : Nat]
        /\ count.recoveries <= count'.recoveries
    BY CountStep DEF FileInv
  <2>2. count.recoveries \in Nat /\ count'.recoveries \in Nat
    BY <2>1
  <2>3. QED
    BY <2>1, <2>2, LaterLedger DEF FileInv
<1>d. ASSUME NEW a \in Runners, NEW records, ledger' = [ledger EXCEPT ![a] = records],
             LedgerOK(records, count'.recoveries)
      PROVE  /\ DOMAIN ledger' = Runners
             /\ \A b \in Runners : LedgerOK(ledger'[b], count'.recoveries)
  <2>1. /\ DOMAIN ledger' = Runners
        /\ \A b \in Runners : ledger'[b] = IF b = a THEN records ELSE ledger[b]
    BY <1>d, <1>t
  <2>2. QED
    BY <2>1, <1>d, <1>t
<1>u. CASE ledger' = ledger
  BY <1>u, <1>t
<1>e. CASE \E a \in Runners : ledger' = [ledger EXCEPT ![a] = <<>>]
  BY <1>e, <1>d, EmptyLedger
<1>1. CASE \E a \in Runners : Apply(a)
  <2>1. PICK a \in Runners : Apply(a)
    BY <1>1
  <2>2. CASE ledger' # ledger
    <3>1. /\ run[a].step # "idle"
          /\ ledger' = [ledger EXCEPT ![a] = Append(@, [nr |-> run[a].nr, before |-> content])]
      BY <2>1, <2>2 DEF Apply
    <3>2. run[a].nr \in Nat /\ run[a].nr < count'.recoveries /\ IsConfig(content)
      BY <3>1, <1>t DEF FileInv
    <3> DEFINE new == Append(ledger[a], [nr |-> run[a].nr, before |-> content])
    <3>3. LedgerOK(new, count'.recoveries)
      BY <3>2, <1>t, AppendLedger
    <3>4. ledger' = [ledger EXCEPT ![a] = new]
      BY <3>1
    <3> HIDE DEF new
    <3>5. QED
      BY <3>3, <3>4, <1>d
  <2>3. QED
    BY <2>2, <1>u
<1>2. CASE \E a \in Runners : Judge(a) \/ HandleException(a)
  <2>1. PICK a \in Runners : Judge(a) \/ HandleException(a)
    BY <1>2
  <2>2. CASE ledger' # ledger
    <3>1. ledger[a] # <<>> /\ ledger' = [ledger EXCEPT ![a] = Front(@)]
      BY <2>1, <2>2 DEF Judge, HandleException, RollBack, Undo
    <3>2. LedgerOK(Front(ledger[a]), count'.recoveries)
      BY <3>1, <1>t, FrontLedger
    <3>3. QED
      BY <3>1, <3>2, <1>d
  <2>3. QED
    BY <2>2, <1>u
<1>3. CASE \/ (\E e \in Events : Recover(e)) \/ (\E r \in DOMAIN requests : RecoverAfterApproval(r))
           \/ (\E r \in DOMAIN requests : Decide(r)) \/ EditConfig \/ Tick \/ UNCHANGED vars
  BY <1>3, <1>u, <1>e DEF Recover, RecoverAfterApproval, Decide, EditConfig, Tick, vars, Runners
<1>4. CASE \E a \in Runners : \/ Authorize(a) \/ BlockedReport(a) \/ ApplyBreaks(a) \/ Rerun(a)
                               \/ Report(a) \/ End(a) \/ Crash(a)
  BY <1>4, <1>u, <1>e DEF Authorize, BlockedReport, ApplyBreaks, Rerun, Report, End, Crash
<1>5. QED
  BY <1>1, <1>2, <1>3, <1>4 DEF Next, Step

\* The calls have numbers, and those of different calls of _recover differ.
LEMMA NumbersStep ==
  ASSUME InHand, FileInv, [Next]_vars
  PROVE  \A a \in Runners :
           run'[a].step # "idle" => run'[a].nr \in Nat /\ run'[a].nr < count'.recoveries
<1>t. /\ count.recoveries \in Nat /\ count'.recoveries \in Nat
      /\ count.recoveries <= count'.recoveries /\ DOMAIN run = Runners
      /\ \A a \in Runners :
           run[a].step # "idle" => run[a].nr \in Nat /\ run[a].nr < count.recoveries
  <2>1. /\ count' \in [recoveries : Nat, upsets : Nat] /\ count \in [recoveries : Nat, upsets : Nat]
        /\ count.recoveries <= count'.recoveries
    BY CountStep DEF FileInv
  <2>2. count.recoveries \in Nat /\ count'.recoveries \in Nat
    BY <2>1
  <2>3. QED
    BY <2>1, <2>2 DEF FileInv, InHand
<1>d. ASSUME NEW a \in Runners, NEW d, run' = [run EXCEPT ![a] = d],
             d.step # "idle" => d.nr \in Nat /\ d.nr < count'.recoveries
      PROVE  \A b \in Runners :
               run'[b].step # "idle" => run'[b].nr \in Nat /\ run'[b].nr < count'.recoveries
  <2>1. \A b \in Runners : run'[b] = IF b = a THEN d ELSE run[b]
    BY <1>d, <1>t
  <2>2. QED
    BY <2>1, <1>d, <1>t
<1>s. ASSUME NEW a \in Runners, NEW e, NEW found, NEW request, Start(a, e, found, request)
      PROVE  \A b \in Runners :
               run'[b].step # "idle" => run'[b].nr \in Nat /\ run'[b].nr < count'.recoveries
  <2>1. count' = [count EXCEPT !.recoveries = @ + 1]
    BY <1>s DEF Start
  <2>2. count'.recoveries = count.recoveries + 1
    BY <2>1 DEF FileInv
  <2>3. QED
    BY <2>2, <1>s, <1>t, <1>d, StartBegins
<1>1. CASE \E e \in Events : Recover(e)
  BY <1>1, <1>s DEF Recover, Runners
<1>2. CASE \E r \in DOMAIN requests : RecoverAfterApproval(r)
  BY <1>2, <1>s DEF RecoverAfterApproval, Runners
<1>3. CASE \E a \in Runners : Authorize(a)
  <2>1. PICK a \in Runners : Authorize(a)
    BY <1>3
  <2>2. PICK d : run' = [run EXCEPT ![a] = d] /\ d.nr = run[a].nr
    BY <2>1, AuthorizeEffect
  <2>3. run[a].step # "idle"
    BY <2>1 DEF Authorize
  <2>4. QED
    BY <2>2, <2>3, <1>d, <1>t
<1>4. CASE \E a \in Runners : \/ BlockedReport(a) \/ Apply(a) \/ ApplyBreaks(a) \/ Rerun(a)
                               \/ Judge(a) \/ HandleException(a) \/ Report(a)
  <2>0. PICK a \in Runners :
          \E d : /\ run[a].step # "idle" /\ run' = [run EXCEPT ![a] = d]
                 /\ SameCall(run[a], d)
    BY <1>4, StepsKeepCall
  <2>1. PICK d : /\ run[a].step # "idle" /\ run' = [run EXCEPT ![a] = d]
                 /\ SameCall(run[a], d)
    BY <2>0
  <2>2. QED
    BY <2>1, <1>t, <1>d DEF SameCall
<1>5. CASE \E a \in Runners : End(a) \/ Crash(a)
  BY <1>5, <1>d DEF End, Crash, Idle
<1>6. CASE (\E r \in DOMAIN requests : Decide(r)) \/ EditConfig \/ Tick \/ UNCHANGED vars
  <2>1. run' = run
    BY <1>6 DEF Decide, EditConfig, Tick, vars
  <2>2. QED
    BY <2>1, <1>t
<1>7. QED
  BY <1>1, <1>2, <1>3, <1>4, <1>5, <1>6 DEF Next, Step

LEMMA FileStep == GrantInv /\ FileInv /\ [Next]_vars => FileInv'
<1> SUFFICES ASSUME GrantInv, FileInv, [Next]_vars PROVE FileInv'
  OBVIOUS
<1>1. InHand /\ count \in [recoveries : Nat, upsets : Nat]
  BY DEF GrantInv, FileInv
<1>2. count' \in [recoveries : Nat, upsets : Nat]
  BY <1>1, CountStep
<1>3. QED
  BY <1>1, <1>2, ContentStep, LedgersStep, NumbersStep DEF FileInv

LEMMA InitFileInv == Init => FileInv
<1> SUFFICES ASSUME Init PROVE FileInv
  OBVIOUS
<1>1. count \in [recoveries : Nat, upsets : Nat] /\ IsConfig(content) /\ DOMAIN ledger = Runners
  BY ContentsAssumption DEF Init
<1>2. \A a \in Runners : ledger[a] = <<>> /\ run[a].step = "idle"
  BY DEF Init, Idle
<1>3. QED
  BY <1>1, <1>2, EmptyLedger DEF FileInv

LEMMA FileInvariant == Spec => [](ApprovalInv /\ GrantInv /\ FileInv)
<1>1. GrantInv /\ FileInv /\ [Next]_vars => FileInv'
  BY FileStep
<1>2. QED
  BY <1>1, GrantInvariant, InitFileInv, PTL DEF Spec

\* The executors and rollback_latest: whatever was done to the file between the gate's look at it
\* and the edit, a recovery only ever degrades one field, or puts back what the newest record of
\* one session holds and takes that record off the ledger.
THEOREM OnlyDegrades == Spec => RecoveryOnlyDegrades
<1> DEFINE A == content' # content /\ run' # run =>
              \/ \E f \in DOMAIN content :
                   /\ \A g \in DOMAIN content \ {f} : content'[g] = content[g]
                   /\ Degrades(f, content[f], content'[f])
              \/ \E a \in Runners : \E i \in DOMAIN ledger[a] :
                   ledger[a][i].before = content' /\ Len(ledger'[a]) < Len(ledger[a])
<1>1. GrantInv /\ FileInv /\ [Next]_vars => A
  <2> SUFFICES ASSUME GrantInv, FileInv, [Next]_vars, content' # content, run' # run PROVE A
    OBVIOUS
  <2>1. CASE OneDegraded(content, content')
    BY <2>1 DEF OneDegraded
  <2>2. CASE \E a \in Runners : /\ ledger[a] # <<>> /\ content' = Taken(ledger[a]).before
                                /\ ledger' = [ledger EXCEPT ![a] = Front(@)]
    <3>1. PICK a \in Runners : /\ ledger[a] # <<>> /\ content' = Taken(ledger[a]).before
                               /\ ledger' = [ledger EXCEPT ![a] = Front(@)]
      BY <2>2
    <3>2. PICK S : ledger[a] \in Seq(S)
      BY DEF FileInv, LedgerOK
    <3>3. /\ Len(ledger[a]) \in DOMAIN ledger[a] /\ Taken(ledger[a]) = ledger[a][Len(ledger[a])]
          /\ Len(Front(ledger[a])) = Len(ledger[a]) - 1
      BY <3>1, <3>2, FrontKeeps DEF Taken
    <3>4. ledger'[a] = Front(ledger[a]) /\ Len(ledger[a]) \in Nat
      BY <3>1, <3>2 DEF FileInv
    <3>5. QED
      BY <3>1, <3>3, <3>4
  <2>3. QED
    BY <2>1, <2>2, ContentStep
<1>2. QED
  BY <1>1, FileInvariant, PTL DEF Spec, RecoveryOnlyDegrades

-----------------------------------------------------------------------------
(***************************************************************************)
(* What is recorded of a recovery, and whose edit is taken back.           *)
(***************************************************************************)
LEMMA SoundBegun ==
  ASSUME NEW c, Untouched(c), c.step = "authorize"
  PROVE  Sound(c)
BY DEF Sound, Untouched

LEMMA SoundAuthorized ==
  ASSUME NEW c, NEW d, Sound(c), c.step = "authorize", SameMarks(c, d),
         d.step = IF d.gate.go THEN "apply" ELSE "blocked"
  PROVE  Sound(d)
<1>1. Untouched(d)
  BY DEF Sound, SameMarks, Untouched
<1>2. CASE d.gate.go
  BY <1>1, <1>2 DEF Sound, Untouched
<1>3. CASE ~d.gate.go
  BY <1>1, <1>3 DEF Sound, Untouched
<1>4. QED
  BY <1>2, <1>3

LEMMA SoundStep == GrantInv /\ FileInv /\ AllSound /\ [Next]_vars => AllSound'
<1> SUFFICES ASSUME GrantInv, FileInv, AllSound, [Next]_vars PROVE AllSound'
  OBVIOUS
<1>t. InHand /\ AllGranted /\ DOMAIN run = Runners /\ IsConfig(content)
  BY DEF GrantInv, InHand, FileInv
<1>a. ASSUME NEW a \in Runners, run[a].step # "idle"
      PROVE  Sound(run[a]) /\ Granted(a, run[a])
  BY <1>a, <1>t DEF AllSound, AllGranted
<1>d. ASSUME NEW a \in Runners, NEW d, run' = [run EXCEPT ![a] = d], d.step # "idle" => Sound(d)
      PROVE  AllSound'
  <2>1. \A b \in Runners : run'[b] = IF b = a THEN d ELSE run[b]
    BY <1>d, <1>t
  <2>2. QED
    BY <2>1, <1>d DEF AllSound
<1>1. CASE (\E e \in Events : Recover(e)) \/ (\E r \in DOMAIN requests : RecoverAfterApproval(r))
  <2>0. PICK a \in Runners : \E e, found, request : Start(a, e, found, request)
    BY <1>1 DEF Recover, RecoverAfterApproval, Runners
  <2>1. PICK e, found, request : Start(a, e, found, request)
    BY <2>0
  <2>2. QED
    BY <2>1, <1>t, <1>d, StartBegins, SoundBegun
<1>2. CASE \E a \in Runners : Authorize(a)
  <2>1. PICK a \in Runners : Authorize(a)
    BY <1>2
  <2>2. PICK d : /\ run' = [run EXCEPT ![a] = d] /\ d.gate = Authorized(a) /\ SameMarks(run[a], d)
                 /\ d.step = IF Authorized(a).go THEN "apply" ELSE "blocked"
    BY <2>1, <1>t, AuthorizeEffect
  <2>3. run[a].step = "authorize"
    BY <2>1 DEF Authorize
  <2>4. Sound(d)
    BY <2>2, <2>3, <1>a, SoundAuthorized
  <2>5. QED
    BY <2>2, <2>4, <1>d
<1>3. CASE \E a \in Runners : BlockedReport(a) \/ Report(a)
  <2>1. PICK a \in Runners, raised \in {"raised", "again"} :
          /\ run[a].step \in {"blocked", "report"} /\ RecordAndReport(a, raised)
          /\ run[a].step = "blocked" => raised # "again"
    BY <1>3 DEF BlockedReport, Report
  <2>2. PICK d : /\ run' = [run EXCEPT ![a] = d] /\ SameCall(run[a], d) /\ Recorded(run[a], d)
                 /\ d.step = "reported" \/ d.step = raised
    BY <2>1, <1>t, RecordEffect
  <2>3. Sound(d)
    BY <2>1, <2>2, <1>a, SoundRecorded
  <2>4. QED
    BY <2>2, <2>3, <1>d
<1>4. CASE \E a \in Runners : Apply(a)
  <2>1. PICK a \in Runners : Apply(a)
    BY <1>4
  <2>2. run[a].step = "apply" /\ run[a].gate.go
    BY <2>1 DEF Apply, Authoritative
  <2> DEFINE k == Choice(run[a].gate.fix)
  <2>3. k \in Int
    BY <2>2, <1>a, <1>t, ChoiceOfFix DEF Granted
  <2>4. PICK d : run' = [run EXCEPT ![a] = d] /\ SameCall(run[a], d) /\ Applied(run[a], d, k)
    BY <2>1, <1>t, ApplyEffect
  <2> HIDE DEF k
  <2>5. Sound(d)
    BY <2>2, <2>3, <2>4, <1>a, SoundApplied
  <2>6. QED
    BY <2>4, <2>5, <1>d
<1>5. CASE \E a \in Runners : ApplyBreaks(a)
  <2>1. PICK a \in Runners : ApplyBreaks(a)
    BY <1>5
  <2>2. PICK d, done : /\ run' = [run EXCEPT ![a] = d] /\ SameCall(run[a], d)
                       /\ Broken(run[a], d, done)
    BY <2>1, <1>t, BreakEffect
  <2>3. run[a].step = "apply"
    BY <2>1 DEF ApplyBreaks
  <2>4. run[a].gate.go
    BY <2>3, <1>a DEF Sound
  <2>5. Sound(d)
    BY <2>2, <2>3, <2>4, <1>a, SoundBroken
  <2>6. QED
    BY <2>2, <2>5, <1>d
<1>6. CASE \E a \in Runners : Rerun(a)
  <2>1. PICK a \in Runners : Rerun(a)
    BY <1>6
  <2>2. PICK d : run' = [run EXCEPT ![a] = d] /\ SameCall(run[a], d) /\ Reran(run[a], d)
    BY <2>1, <1>t, RerunEffect
  <2>3. run[a].step = "rerun"
    BY <2>1 DEF Rerun
  <2>4. Sound(d)
    BY <2>2, <2>3, <1>a, SoundReran
  <2>5. QED
    BY <2>2, <2>4, <1>d
<1>7. CASE \E a \in Runners : Judge(a) \/ HandleException(a)
  <2>0. PICK a \in Runners : Judge(a) \/ HandleException(a)
    BY <1>7
  <2>1. PICK c, raised : /\ raised \in {"again", "raised"}
                         /\ \/ run[a].step = "judge" /\ c = run[a]
                            \/ run[a].step = "again" /\ c = [run[a] EXCEPT !.again = TRUE]
                         /\ RollBack(a, c, raised)
    <3>1. CASE Judge(a)
      BY <3>1 DEF Judge
    <3>2. CASE HandleException(a)
      BY <3>2, Zenon DEF HandleException
    <3>3. QED
      BY <2>0, <3>1, <3>2
  <2>2. run[a].step # "idle" /\ DOMAIN run[a] = CallFields
    BY <2>1, <1>t DEF InHand
  <2>3. /\ SameCall(run[a], c)
        /\ c.applied = run[a].applied /\ c.rerun = run[a].rerun /\ c.rolled = run[a].rolled
        /\ c.undone = run[a].undone /\ c.wrote = run[a].wrote /\ c.torn = run[a].torn
        /\ c.back = run[a].back
        /\ \/ run[a].step = "judge" /\ c.again = run[a].again
           \/ run[a].step = "again" /\ c.again
    BY <2>1, <2>2 DEF SameCall, CallFields
  <2> DEFINE nr == Taken(ledger[a]).nr
  <2>4. PICK d : /\ run' = [run EXCEPT ![a] = d] /\ SameCall(run[a], d)
                 /\ \/ TookBack(c, d, nr) \/ TookNothing(c, d)
                    \/ SameMarks(run[a], d) /\ d.step = raised
                    \/ SameMarks(c, d) /\ d.step = "report" /\ ~CallsForRollback(c)
    BY <2>1, <2>2, <1>t, RollEffect
  <2>5. run[a].gate.go => project.rollback
    BY <2>2, <1>a DEF Granted
  <2> HIDE DEF nr
  <2>6. Sound(run[a])
    BY <2>2, <1>a
  <2>7. Sound(d)
    BY <2>1, <2>3, <2>4, <2>5, <2>6, SoundRolled
  <2>8. QED
    BY <2>4, <2>7, <1>d
<1>8. CASE \E a \in Runners : End(a) \/ Crash(a)
  BY <1>8, <1>d DEF End, Crash, Idle
<1>9. CASE (\E r \in DOMAIN requests : Decide(r)) \/ EditConfig \/ Tick \/ UNCHANGED vars
  <2>1. run' = run
    BY <1>9 DEF Decide, EditConfig, Tick, vars
  <2>2. QED
    BY <2>1 DEF AllSound
<1>10. QED
  BY <1>1, <1>2, <1>3, <1>4, <1>5, <1>6, <1>7, <1>8, <1>9 DEF Next, Step

LEMMA InitAllSound == Init => AllSound
BY DEF Init, AllSound, Idle

LEMMA SoundInvariant == Spec => [](ApprovalInv /\ GrantInv /\ FileInv /\ AllSound)
<1>1. QED
  BY SoundStep, FileInvariant, InitAllSound, PTL DEF Spec

\* AutoRecoveryResult against what was done, for the recovery that is reported: what is recorded
\* as not run wrote nothing and took nothing back, what is recorded as recovered stands, a failed
\* apply wrote nothing unless it broke, and a rollback took a record back exactly when its
\* result says so, unless it was the second.
THEOREM RecordsAreTrue == Spec => []AuditIsTrue
<1>1. ASSUME NEW c, Sound(c), c.step = "reported"
      PROVE  /\ c.told.execution \in {"not_run_human_approval_required", "not_run_approval_invalid",
                                      "not_run_r15_dry_run", "not_run_r15_gate_blocked"}
                  => ~c.wrote /\ c.back = {}
             /\ c.told.execution = "executed_recovered" => c.applied /\ c.rerun /\ c.back = {}
             /\ c.told.execution = "executed_apply_failed" => c.back = {} /\ (c.wrote => c.torn)
             /\ c.told.rollback = "rollback_succeeded" => c.back # {}
             /\ c.told.rollback = "rollback_failed" /\ ~c.again => c.back = {}
             /\ c.told.execution = "executed_rerun_failed" => c.rolled
  <2>1. c.told.execution = ExecutionResult(c) /\ c.told.rollback = RollbackResult(c)
    BY <1>1 DEF Sound, Audit
  <2>2. CASE ~c.gate.go
    <3>1. Untouched(c)
      BY <1>1, <2>2 DEF Sound
    <3>2. ExecutionResult(c) \in {"not_run_human_approval_required", "not_run_approval_invalid",
                                  "not_run_r15_dry_run", "not_run_r15_gate_blocked"}
      BY <2>2 DEF ExecutionResult
    <3>3. RollbackResult(c) = "not_run_before_execution"
      BY <2>2, <3>1 DEF RollbackResult, Untouched
    <3>4. QED
      BY <2>1, <3>1, <3>2, <3>3 DEF Untouched
  <2>3. CASE c.gate.go
    BY <1>1, <2>1, <2>3 DEF Sound, ExecutionResult, RollbackResult
  <2>4. QED
    BY <2>2, <2>3
<1>2. AllSound => AuditIsTrue
  BY <1>1 DEF AllSound, AuditIsTrue, Active
<1>3. QED
  BY <1>2, SoundInvariant, PTL

\* Until its second rollback, what the call c took back of what it wrote is its own edit; and
\* while that stands and is recorded, the record is the newest of the session's.
Own(c, records) ==
  /\ c.wrote /\ ~c.again => c.back \subseteq {c.nr}
  /\ c.applied /\ c.wrote /\ c.back = {} /\ ~c.again =>
       records # <<>> /\ Taken(records).nr = c.nr

AllOwn == \A a \in Runners : run[a].step # "idle" => Own(run[a], ledger[a])

LEMMA OwnSame ==
  ASSUME NEW c, NEW d, NEW records, Own(c, records), d.nr = c.nr, d.applied = c.applied,
         d.wrote = c.wrote, d.again = c.again, d.back = c.back
  PROVE  Own(d, records)
BY DEF Own

LEMMA OwnStep == GrantInv /\ FileInv /\ AllSound /\ AllOwn /\ [Next]_vars => AllOwn'
<1> SUFFICES ASSUME GrantInv, FileInv, AllSound, AllOwn, [Next]_vars PROVE AllOwn'
  OBVIOUS
<1>t. /\ InHand /\ AllGranted /\ DOMAIN run = Runners /\ IsConfig(content)
      /\ DOMAIN ledger = Runners
  BY DEF GrantInv, InHand, FileInv
<1>a. ASSUME NEW a \in Runners, run[a].step # "idle"
      PROVE  Sound(run[a]) /\ Granted(a, run[a]) /\ Own(run[a], ledger[a])
  BY <1>a, <1>t DEF AllSound, AllGranted, AllOwn
\* It is enough to look at the runner that moves.
<1>d. ASSUME NEW a \in Runners, NEW d, run' = [run EXCEPT ![a] = d],
             \A b \in Runners \ {a} : ledger'[b] = ledger[b],
             d.step # "idle" => Own(d, ledger'[a])
      PROVE  AllOwn'
  <2>1. \A b \in Runners : run'[b] = IF b = a THEN d ELSE run[b]
    BY <1>d, <1>t
  <2>2. QED
    BY <2>1, <1>d DEF AllOwn
<1>1. CASE (\E e \in Events : Recover(e)) \/ (\E r \in DOMAIN requests : RecoverAfterApproval(r))
  <2>0. PICK a \in Runners :
          /\ \E e, found, request : Start(a, e, found, request)
          /\ \A b \in Runners \ {a} : ledger'[b] = ledger[b]
    BY <1>1, <1>t DEF Recover, RecoverAfterApproval, Runners
  <2>1. PICK e, found, request : Start(a, e, found, request)
    BY <2>0
  <2> DEFINE d == Begun(a, e, found, request)
  <2>2. run' = [run EXCEPT ![a] = d] /\ Untouched(d)
    BY <2>1, <1>t, StartBegins
  <2> HIDE DEF d
  <2>3. Own(d, ledger'[a])
    BY <2>2 DEF Own, Untouched
  <2>4. QED
    BY <2>0, <2>2, <2>3, <1>d
<1>2. CASE \E a \in Runners : Authorize(a)
  <2>1. PICK a \in Runners : Authorize(a)
    BY <1>2
  <2>2. PICK d : run' = [run EXCEPT ![a] = d] /\ SameMarks(run[a], d) /\ d.nr = run[a].nr
    BY <2>1, <1>t, AuthorizeEffect
  <2>3. run[a].step = "authorize" /\ ledger' = ledger
    BY <2>1 DEF Authorize
  <2>4. Own(d, ledger[a])
    BY <2>2, <2>3, <1>a, OwnSame DEF SameMarks
  <2>5. QED
    BY <2>2, <2>3, <2>4, <1>d
<1>3. CASE \E a \in Runners : BlockedReport(a) \/ Report(a)
  <2>0. PICK a \in Runners : BlockedReport(a) \/ Report(a)
    BY <1>3
  <2>1. PICK raised : run[a].step # "idle" /\ RecordAndReport(a, raised) /\ ledger' = ledger
    BY <2>0 DEF BlockedReport, Report
  <2>2. PICK d : run' = [run EXCEPT ![a] = d] /\ SameCall(run[a], d) /\ Recorded(run[a], d)
    BY <2>1, <1>t, RecordEffect
  <2>3. Own(d, ledger[a])
    BY <2>1, <2>2, <1>a, OwnSame DEF SameMarks, SameCall, Recorded
  <2>4. QED
    BY <2>1, <2>2, <2>3, <1>d
<1>4. CASE \E a \in Runners : Apply(a)
  <2>1. PICK a \in Runners : Apply(a)
    BY <1>4
  <2> DEFINE k == Choice(run[a].gate.fix)
             new == Append(ledger[a], [nr |-> run[a].nr, before |-> content])
  <2>2. PICK d : run' = [run EXCEPT ![a] = d] /\ SameCall(run[a], d) /\ Applied(run[a], d, k)
    BY <2>1, <1>t, ApplyEffect
  <2>3. /\ run[a].step = "apply" /\ run[a].gate.go
        /\ ledger' = IF k > 0 THEN [ledger EXCEPT ![a] = new] ELSE ledger
    BY <2>1 DEF Apply, Authoritative
  <2>4. Untouched(run[a])
    BY <2>3, <1>a DEF Sound
  <2>5. k > 0 => new # <<>> /\ Taken(new).nr = run[a].nr
    <3>1. /\ run[a].nr \in Nat /\ run[a].nr < count.recoveries /\ count.recoveries \in Nat
          /\ LedgerOK(ledger[a], count.recoveries)
      BY <2>3 DEF FileInv
    <3>2. QED
      BY <3>1, <1>t, AppendLedger DEF Taken
  <2> HIDE DEF k, new
  <2>6. d.back = {} /\ (d.wrote <=> k > 0) /\ d.nr = run[a].nr
    BY <2>2, <2>4 DEF Applied, SameCall, Untouched
  <2>7. CASE k > 0
    <3>1. ledger'[a] = new
      BY <2>3, <2>7, <1>t
    <3>2. Own(d, ledger'[a])
      BY <3>1, <2>5, <2>6, <2>7 DEF Own
    <3>3. \A b \in Runners \ {a} : ledger'[b] = ledger[b]
      BY <2>3, <1>t
    <3>4. QED
      BY <3>2, <3>3, <2>2, <1>d
  <2>8. CASE ~(k > 0)
    <3>1. Own(d, ledger'[a])
      BY <2>6, <2>8 DEF Own
    <3>2. \A b \in Runners \ {a} : ledger'[b] = ledger[b]
      BY <2>3, <2>8
    <3>3. QED
      BY <3>1, <3>2, <2>2, <1>d
  <2>9. QED
    BY <2>7, <2>8
<1>5. CASE \E a \in Runners : ApplyBreaks(a)
  <2>1. PICK a \in Runners : ApplyBreaks(a)
    BY <1>5
  <2>2. PICK d, done : /\ run' = [run EXCEPT ![a] = d] /\ SameCall(run[a], d)
                       /\ Broken(run[a], d, done)
    BY <2>1, <1>t, BreakEffect
  <2>3. run[a].step = "apply" /\ ledger' = ledger
    BY <2>1 DEF ApplyBreaks
  <2>4. Untouched(run[a])
    BY <2>3, <1>a DEF Sound
  <2>5. Own(d, ledger'[a])
    BY <2>2, <2>4 DEF Own, Broken, Untouched
  <2>6. QED
    BY <2>2, <2>3, <2>5, <1>d
<1>6. CASE \E a \in Runners : Rerun(a)
  <2>1. PICK a \in Runners : Rerun(a)
    BY <1>6
  <2>2. PICK d : run' = [run EXCEPT ![a] = d] /\ SameCall(run[a], d) /\ Reran(run[a], d)
    BY <2>1, <1>t, RerunEffect
  <2>3. run[a].step = "rerun" /\ ledger' = ledger
    BY <2>1 DEF Rerun
  <2>4. Own(d, ledger[a])
    BY <2>2, <2>3, <1>a, OwnSame DEF Reran, SameCall
  <2>5. QED
    BY <2>2, <2>3, <2>4, <1>d
<1>7. CASE \E a \in Runners : Judge(a)
  <2>1. PICK a \in Runners : Judge(a)
    BY <1>7
  <2>2. run[a].step = "judge" /\ RollBack(a, run[a], "again")
    BY <2>1 DEF Judge
  <2>3. PICK d :
          /\ run' = [run EXCEPT ![a] = d] /\ SameCall(run[a], d)
          /\ \/ /\ TookBack(run[a], d, Taken(ledger[a]).nr)
                /\ ledger' = [ledger EXCEPT ![a] = Front(@)]
             \/ TookNothing(run[a], d) /\ ledger' = ledger
             \/ SameMarks(run[a], d) /\ ledger' = ledger
    BY <2>2, <1>t, RollEffect
  <2>4. Sound(run[a]) /\ Own(run[a], ledger[a])
    BY <2>2, <1>a
  <2>5. \A b \in Runners \ {a} : ledger'[b] = ledger[b]
    BY <2>3, <1>t
  <2>6. CASE TookBack(run[a], d, Taken(ledger[a]).nr)
    <3>1. d.back = {Taken(ledger[a]).nr} /\ run[a].applied /\ run[a].back = {}
      BY <2>2, <2>4, <2>6 DEF Sound, TookBack
    <3>2. d.wrote = run[a].wrote /\ d.again = run[a].again /\ d.nr = run[a].nr
      BY <2>3, <2>6 DEF TookBack, SameCall
    <3>3. Own(d, ledger'[a])
      BY <3>1, <3>2, <2>4 DEF Own
    <3>4. QED
      BY <3>3, <2>3, <2>5, <1>d
  <2>7. CASE (TookNothing(run[a], d) \/ SameMarks(run[a], d)) /\ ledger' = ledger
    <3>1. Own(d, ledger[a])
      BY <2>3, <2>4, <2>7, OwnSame DEF TookNothing, SameMarks, SameCall
    <3>2. QED
      BY <3>1, <2>3, <2>5, <2>7, <1>d
  <2>8. QED
    BY <2>3, <2>6, <2>7
<1>8. CASE \E a \in Runners : HandleException(a)
  <2>1. PICK a \in Runners : HandleException(a)
    BY <1>8
  <2> DEFINE c == [run[a] EXCEPT !.again = TRUE]
  <2>2. run[a].step = "again" /\ RollBack(a, c, "raised")
    BY <2>1, Zenon DEF HandleException
  <2>3. c.again /\ c.nr = run[a].nr
    BY <2>2, <1>t DEF InHand, CallFields
  <2>4. PICK d :
          /\ run' = [run EXCEPT ![a] = d] /\ SameCall(run[a], d)
          /\ \/ /\ TookBack(c, d, Taken(ledger[a]).nr)
                /\ ledger' = [ledger EXCEPT ![a] = Front(@)]
             \/ TookNothing(c, d) /\ ledger' = ledger
             \/ SameMarks(run[a], d) /\ ledger' = ledger
             \/ SameMarks(c, d) /\ ledger' = ledger
    BY <2>2, <1>t, RollEffect
  <2> HIDE DEF c
  <2>5. \A b \in Runners \ {a} : ledger'[b] = ledger[b]
    BY <2>4, <1>t
  <2>6. CASE SameMarks(run[a], d) /\ ledger' = ledger
    <3>1. Own(d, ledger[a])
      BY <2>2, <2>4, <2>6, <1>a, OwnSame DEF SameMarks, SameCall
    <3>2. QED
      BY <3>1, <2>4, <2>5, <2>6, <1>d
  <2>7. CASE d.again
    <3>1. Own(d, ledger'[a])
      BY <2>7 DEF Own
    <3>2. QED
      BY <3>1, <2>4, <2>5, <1>d
  <2>8. QED
    BY <2>3, <2>4, <2>6, <2>7 DEF TookBack, TookNothing, SameMarks
<1>9. CASE \E a \in Runners : End(a) \/ Crash(a)
  BY <1>9, <1>d, <1>t DEF End, Crash, Idle
<1>10. CASE (\E r \in DOMAIN requests : Decide(r)) \/ EditConfig \/ Tick \/ UNCHANGED vars
  <2>1. run' = run /\ ledger' = ledger
    BY <1>10 DEF Decide, EditConfig, Tick, vars
  <2>2. QED
    BY <2>1 DEF AllOwn
<1>11. QED
  BY <1>1, <1>2, <1>3, <1>4, <1>5, <1>6, <1>7, <1>8, <1>9, <1>10 DEF Next, Step

\* _rollback and rollback_latest: a recovery whose apply made an edit takes back that edit, and not
\* that of an earlier recovery in the same session, if it went through without an exception.
THEOREM RollsBackItsOwn == Spec => []RollbackIsOwn
<1>1. Init => AllOwn
  BY DEF Init, AllOwn, Idle
<1>2. AllOwn => RollbackIsOwn
  BY DEF AllOwn, Own, RollbackIsOwn, Executing, Active
<1>3. QED
  BY <1>1, <1>2, OwnStep, SoundInvariant, PTL DEF Spec

-----------------------------------------------------------------------------
(***************************************************************************)
(* Types.                                                                  *)
(***************************************************************************)
Steps == {"authorize", "blocked", "apply", "rerun", "judge", "again", "report", "reported",
          "raised"}

\* A request nobody may approve stays as it is.
StatusOK(r) ==
  r.status \in IF r.approvable THEN {"pending", "approved", "rejected", "over"}
               ELSE {"not_approvable"}

\* What TypeOK says beyond GrantInv and FileInv.
PlaceInv ==
  /\ project \in Projects /\ now \in 0..MaxTime /\ seen \subseteq Prints
  /\ \A r \in DOMAIN requests : StatusOK(requests[r])
  /\ \A a \in Runners : run[a].step # "idle" => run[a].step \in Steps
  /\ run["monitor"].step # "idle" => run["monitor"].request = 0
  /\ run["approved"].step # "idle" => requests[run["approved"].request].approvable

\* Only a request somebody may approve is decided, and only such a one is closed.
LEMMA StatusStep ==
  ASSUME GrantInv, PlaceInv, [Next]_vars
  PROVE  \A r \in DOMAIN requests' : StatusOK(requests'[r])
<1>1. PICK S : requests \in Seq(S)
  BY DEF GrantInv, RequestsInHand
<1>2. \A r \in DOMAIN requests : StatusOK(requests[r]) /\ DOMAIN requests[r] = RequestFields
  BY DEF PlaceInv, GrantInv, RequestsInHand
<1>s. ASSUME NEW r \in DOMAIN requests, NEW status \in {"approved", "rejected", "over"},
             requests[r].approvable, requests' = [requests EXCEPT ![r].status = status]
      PROVE  \A q \in DOMAIN requests' : StatusOK(requests'[q])
  <2> DEFINE x == [requests[r] EXCEPT !.status = status]
  <2>1. x.status = status /\ x.approvable = requests[r].approvable
    BY <1>2 DEF RequestFields
  <2>2. requests' = [requests EXCEPT ![r] = x]
    BY <1>s, <1>1
  <2> HIDE DEF x
  <2>3. \A q \in DOMAIN requests' :
          q \in DOMAIN requests /\ requests'[q] = IF q = r THEN x ELSE requests[q]
    BY <2>2, <1>1
  <2>4. StatusOK(x)
    BY <2>1, <1>s DEF StatusOK
  <2>5. QED
    BY <2>3, <2>4, <1>2
<1>a. CASE \E a \in Runners : BlockedReport(a)
  <2>1. PICK a \in Runners : File(a)
    BY <1>a DEF BlockedReport
  <2>2. CASE requests' = requests
    BY <2>2, <1>2
  <2>3. CASE requests' # requests
    <3>1. PICK x : requests' = Append(requests, x) /\ StatusOK(x)
      <4> DEFINE approvable == Approvable(run[a].gate, run[a].event)
                 status == IF approvable THEN "pending" ELSE "not_approvable"
                 x == [event |-> run[a].event, fix |-> run[a].gate.fix,
                       approvable |-> approvable, status |-> status]
      <4>1. requests' = Append(requests, x)
        BY <2>1, <2>3, Zenon DEF File
      <4> HIDE DEF approvable
      <4>2. StatusOK(x)
        <5>1. CASE approvable
          BY <5>1 DEF StatusOK
        <5>2. CASE ~approvable
          BY <5>2 DEF StatusOK
        <5>3. QED
          BY <5>1, <5>2
      <4> HIDE DEF x
      <4>3. QED
        BY <4>1, <4>2
    <3>2. QED
      BY <3>1, <1>1, <1>2, AppendKeeps
  <2>4. QED
    BY <2>2, <2>3
<1>b. CASE \E r \in DOMAIN requests : Decide(r)
  <2>1. PICK r \in DOMAIN requests : Decide(r)
    BY <1>b
  <2>2. requests[r].approvable
    BY <2>1, <1>2 DEF Decide, StatusOK
  <2>3. QED
    BY <2>1, <2>2, <1>s DEF Decide
<1>c. CASE \E a \in Runners : End(a)
  <2>1. PICK a \in Runners : End(a)
    BY <1>c
  <2>2. CASE a = "approved"
    <3>1. run["approved"].step # "idle"
      BY <2>1, <2>2 DEF End
    <3>2. /\ run["approved"].request \in DOMAIN requests
          /\ requests[run["approved"].request].approvable
      BY <3>1 DEF GrantInv, RequestsInHand, PlaceInv
    <3>3. requests' = [requests EXCEPT ![run["approved"].request].status = "over"]
      BY <2>1, <2>2 DEF End
    <3>4. QED
      BY <3>2, <3>3, <1>s
  <2>3. CASE a # "approved"
    BY <2>1, <2>3, <1>2 DEF End
  <2>4. QED
    BY <2>2, <2>3
<1>d. CASE \/ (\E e \in Events : Recover(e)) \/ (\E r \in DOMAIN requests : RecoverAfterApproval(r))
           \/ EditConfig \/ Tick \/ UNCHANGED vars
  BY <1>d, <1>2 DEF Recover, RecoverAfterApproval, EditConfig, Tick, vars
<1>e. CASE \E a \in Runners : \/ Authorize(a) \/ Apply(a) \/ ApplyBreaks(a) \/ Rerun(a) \/ Judge(a)
                               \/ HandleException(a) \/ Report(a) \/ Crash(a)
  BY <1>e, <1>2 DEF Authorize, Apply, ApplyBreaks, Rerun, Judge, HandleException, Report, Crash
<1>f. QED
  BY <1>a, <1>b, <1>c, <1>d, <1>e DEF Next, Step

\* The runners keep to the steps of a recovery, and the worker to its request.
LEMMA CallsStep ==
  ASSUME GrantInv, PlaceInv, [Next]_vars
  PROVE  /\ \A a \in Runners : run'[a].step # "idle" => run'[a].step \in Steps
         /\ run'["monitor"].step # "idle" => run'["monitor"].request = 0
         /\ run'["approved"].step # "idle" => requests'[run'["approved"].request].approvable
<1> DEFINE Kept == /\ \A a \in Runners : run'[a].step # "idle" => run'[a].step \in Steps
                   /\ run'["monitor"].step # "idle" => run'["monitor"].request = 0
                   /\ run'["approved"].step # "idle" =>
                        requests'[run'["approved"].request].approvable
<1>t. /\ InHand /\ RequestsInHand
      /\ DOMAIN run = Runners /\ Runners = {"monitor", "approved"}
      /\ \A a \in Runners : run[a].step # "idle" => run[a].step \in Steps
      /\ run["monitor"].step # "idle" => run["monitor"].request = 0
      /\ run["approved"].step # "idle" =>
           /\ run["approved"].request \in DOMAIN requests
           /\ requests[run["approved"].request].approvable
  BY DEF GrantInv, PlaceInv, InHand, Runners, RequestsInHand
<1>r. \A r \in DOMAIN requests : requests'[r].approvable = requests[r].approvable
  BY <1>t, RequestsStep DEF SameRequests
<1>d. ASSUME NEW a \in Runners, NEW d, run' = [run EXCEPT ![a] = d],
             d.step # "idle" =>
               /\ d.step \in Steps
               /\ a = "monitor" => d.request = 0
               /\ a = "approved" => d.request \in DOMAIN requests /\ requests[d.request].approvable
      PROVE  Kept
  <2>1. \A b \in Runners : run'[b] = IF b = a THEN d ELSE run[b]
    BY <1>d, <1>t
  <2>2. \A b \in Runners : run'[b].step # "idle" => run'[b].step \in Steps
    BY <2>1, <1>d, <1>t
  <2>3. run'["monitor"].step # "idle" => run'["monitor"].request = 0
    BY <2>1, <1>d, <1>t
  <2>4. run'["approved"].step # "idle" =>
          /\ run'["approved"].request \in DOMAIN requests
          /\ requests[run'["approved"].request].approvable
    BY <2>1, <1>d, <1>t
  <2>5. QED
    BY <2>2, <2>3, <2>4, <1>r
\* A step of a call keeps its request.
<1>k. ASSUME NEW a \in Runners, NEW d, run' = [run EXCEPT ![a] = d], run[a].step # "idle",
             d.request = run[a].request, d.step \in Steps
      PROVE  Kept
  BY <1>k, <1>d, <1>t
<1>1. CASE \E e \in Events : Recover(e)
  <2>1. PICK e \in Events : Start("monitor", e, e, 0)
    BY <1>1 DEF Recover
  <2>2. QED
    BY <2>1, <1>d, <1>t, StartBegins DEF Steps
<1>2. CASE \E r \in DOMAIN requests : RecoverAfterApproval(r)
  <2>0. PICK r \in DOMAIN requests : RecoverAfterApproval(r)
    BY <1>2
  <2>1. PICK e : Start("approved", e, requests[r].event, r)
    BY <2>0 DEF RecoverAfterApproval
  <2>2. requests[r].approvable
    BY <2>0 DEF RecoverAfterApproval, PlaceInv, StatusOK
  <2>3. QED
    BY <2>1, <2>2, <1>d, <1>t, StartBegins DEF Steps
<1>3. CASE \E a \in Runners : Authorize(a)
  <2>1. PICK a \in Runners : Authorize(a)
    BY <1>3
  <2>2. PICK d : /\ run' = [run EXCEPT ![a] = d] /\ d.request = run[a].request
                 /\ d.step = IF Authorized(a).go THEN "apply" ELSE "blocked"
    BY <2>1, <1>t, AuthorizeEffect
  <2>3. d.step \in Steps /\ run[a].step # "idle"
    BY <2>1, <2>2 DEF Steps, Authorize
  <2>4. QED
    BY <2>2, <2>3, <1>k
<1>4. CASE \E a \in Runners : BlockedReport(a) \/ Report(a)
  <2>1. PICK a \in Runners, raised \in {"raised", "again"} :
          run[a].step # "idle" /\ RecordAndReport(a, raised)
    BY <1>4 DEF BlockedReport, Report
  <2>2. PICK d : /\ run' = [run EXCEPT ![a] = d] /\ SameCall(run[a], d)
                 /\ d.step = "reported" \/ d.step = raised
    BY <2>1, <1>t, RecordEffect
  <2>3. QED
    BY <2>1, <2>2, <1>k DEF SameCall, Steps
<1>5. CASE \E a \in Runners : Apply(a)
  <2>1. PICK a \in Runners : Apply(a)
    BY <1>5
  <2>2. PICK d : /\ run' = [run EXCEPT ![a] = d] /\ SameCall(run[a], d)
                 /\ Applied(run[a], d, Choice(run[a].gate.fix))
    BY <2>1, <1>t, ApplyEffect
  <2>3. run[a].step # "idle"
    BY <2>1 DEF Apply
  <2>4. d.step \in Steps
    BY <2>2 DEF Applied, Steps
  <2>5. QED
    BY <2>2, <2>3, <2>4, <1>k DEF SameCall
<1>6. CASE \E a \in Runners : ApplyBreaks(a)
  <2>1. PICK a \in Runners : ApplyBreaks(a)
    BY <1>6
  <2>2. PICK d, done : /\ run' = [run EXCEPT ![a] = d] /\ SameCall(run[a], d)
                       /\ Broken(run[a], d, done)
    BY <2>1, <1>t, BreakEffect
  <2>3. run[a].step # "idle"
    BY <2>1 DEF ApplyBreaks
  <2>4. QED
    BY <2>2, <2>3, <1>k DEF SameCall, Broken, Steps
<1>7. CASE \E a \in Runners : Rerun(a)
  <2>1. PICK a \in Runners : Rerun(a)
    BY <1>7
  <2>2. PICK d : run' = [run EXCEPT ![a] = d] /\ SameCall(run[a], d) /\ Reran(run[a], d)
    BY <2>1, <1>t, RerunEffect
  <2>3. run[a].step # "idle"
    BY <2>1 DEF Rerun
  <2>4. QED
    BY <2>2, <2>3, <1>k DEF SameCall, Reran, Steps
<1>8. CASE \E a \in Runners : Judge(a) \/ HandleException(a)
  <2>0. PICK a \in Runners : Judge(a) \/ HandleException(a)
    BY <1>8
  <2>1. PICK c, raised : /\ c = run[a] \/ c = [run[a] EXCEPT !.again = TRUE]
                         /\ RollBack(a, c, raised) /\ raised \in {"again", "raised"}
                         /\ run[a].step # "idle"
    BY <2>0 DEF Judge, HandleException
  <2>2. PICK d : /\ run' = [run EXCEPT ![a] = d] /\ SameCall(run[a], d)
                 /\ \/ TookBack(c, d, Taken(ledger[a]).nr) \/ TookNothing(c, d)
                    \/ d.step = raised \/ d.step = "report"
    BY <2>1, <1>t, RollEffect
  <2>3. d.step \in Steps
    BY <2>1, <2>2 DEF TookBack, TookNothing, Steps
  <2>4. QED
    BY <2>1, <2>2, <2>3, <1>k DEF SameCall
<1>9. CASE \E a \in Runners : End(a) \/ Crash(a)
  BY <1>9, <1>d DEF End, Crash, Idle
<1>10. CASE (\E r \in DOMAIN requests : Decide(r)) \/ EditConfig \/ Tick \/ UNCHANGED vars
  <2>1. run' = run
    BY <1>10 DEF Decide, EditConfig, Tick, vars
  <2>2. QED
    BY <2>1, <1>t, <1>r
<1>11. QED
  BY <1>1, <1>2, <1>3, <1>4, <1>5, <1>6, <1>7, <1>8, <1>9, <1>10 DEF Next, Step

\* The clock has a bound; what is seen was found.
LEMMA SeenStep ==
  ASSUME GrantInv, PlaceInv, [Next]_vars
  PROVE  now' \in 0..MaxTime /\ seen' \subseteq Prints
<1>1. now' \in 0..MaxTime
  <2>1. now \in 0..MaxTime
    BY DEF PlaceInv
  <2>2. CASE Tick
    BY <2>1, <2>2, LimitsAssumption DEF Tick
  <2>3. CASE now' = now
    BY <2>1, <2>3
  <2>4. QED
    BY ZenonT(40), <2>2, <2>3 DEF Next, Step, Recover, RecoverAfterApproval, Decide, Authorize, BlockedReport,
       Apply, ApplyBreaks, Rerun, Judge, HandleException, Report, End, Crash, EditConfig, vars
<1>2. seen' \subseteq Prints
  <2>1. seen \subseteq Prints
    BY DEF PlaceInv
  <2>2. CASE \E a \in Runners : End(a)
    <3>1. PICK a \in Runners : End(a)
      BY <2>2
    <3>2. CASE seen' # seen
      <4>1. a = "monitor" /\ run[a].step = "reported" /\ seen' = seen \cup {run[a].event.print}
        BY <3>1, <3>2 DEF End
      <4>2. run[a].event \in Events
        BY <4>1 DEF GrantInv, AllGranted, Granted
      <4>3. QED
        BY <4>1, <4>2, <2>1 DEF Prints
    <3>3. QED
      BY <3>2, <2>1
  <2>3. CASE \E a \in Runners : Crash(a)
    BY <2>1, <2>3 DEF Crash
  <2>4. CASE seen' = seen
    BY <2>1, <2>4
  <2>5. QED
    BY <2>2, <2>3, <2>4 DEF Next, Step, Recover, RecoverAfterApproval, Decide, Authorize,
       BlockedReport, Apply, ApplyBreaks, Rerun, Judge, HandleException, Report, EditConfig, Tick,
       vars
<1>3. QED
  BY <1>1, <1>2

LEMMA PlaceStep == GrantInv /\ PlaceInv /\ [Next]_vars => PlaceInv'
<1> SUFFICES ASSUME GrantInv, PlaceInv, [Next]_vars PROVE PlaceInv'
  OBVIOUS
<1>1. project' \in Projects
  BY ProjectStays DEF PlaceInv
<1>2. QED
  BY <1>1, StatusStep, CallsStep, SeenStep DEF PlaceInv

\* The variables of RecoveryRunner hold what their readers expect, and the worker works on a
\* request that was filed.
THEOREM TypesOK == Spec => []TypeOK
<1>1. Init => PlaceInv
  <2> SUFFICES ASSUME Init PROVE PlaceInv
    OBVIOUS
  <2>1. \A a \in Runners : run[a].step = "idle"
    BY DEF Init, Idle
  <2>2. DOMAIN requests = {}
    BY DEF Init
  <2>3. now \in 0..MaxTime /\ seen \subseteq Prints /\ project \in Projects
    BY LimitsAssumption DEF Init
  <2>4. QED
    BY <2>1, <2>2, <2>3 DEF PlaceInv, Runners
<1>2. ApprovalInv /\ GrantInv /\ FileInv /\ PlaceInv => TypeOK
  <2> SUFFICES ASSUME ApprovalInv, GrantInv, FileInv, PlaceInv PROVE TypeOK
    OBVIOUS
  <2>1. \A r \in DOMAIN requests :
          /\ requests[r].event \in Events
          /\ requests[r].status \in IF requests[r].approvable
                                   THEN {"pending", "approved", "rejected", "over"}
                                   ELSE {"not_approvable"}
    BY DEF GrantInv, RequestEvents, PlaceInv, StatusOK
  <2>2. \A a \in Runners : \A i \in DOMAIN ledger[a] :
          IsConfig(ledger[a][i].before) /\ ledger[a][i].nr < count.recoveries
    BY DEF FileInv, LedgerOK
  <2>3. ASSUME NEW a \in Active
        PROVE  run[a].step \in Steps /\ run[a].nr < count.recoveries
    BY DEF Active, PlaceInv, FileInv
  <2>4. ASSUME NEW a \in Active PROVE run[a].request \in 0..Len(requests)
    <3>1. PICK S : requests \in Seq(S)
      BY DEF GrantInv, RequestsInHand
    <3>2. run[a].request = 0 \/ run[a].request \in DOMAIN requests
      BY DEF Active, Runners, PlaceInv, GrantInv, RequestsInHand
    <3>3. QED
      BY <3>1, <3>2
  <2>5. project \in Projects /\ now \in 0..MaxTime /\ seen \subseteq Prints /\ IsConfig(content)
    BY DEF PlaceInv, FileInv
  <2>6. QED
    BY <2>1, <2>2, <2>3, <2>4, <2>5 DEF TypeOK, Steps
<1>3. QED
  BY <1>1, <1>2, PlaceStep, FileInvariant, PTL DEF Spec
=============================================================================
