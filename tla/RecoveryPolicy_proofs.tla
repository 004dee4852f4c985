----------------------- MODULE RecoveryPolicy_proofs -----------------------
(***************************************************************************)
(* What the functions of RecoveryPolicy promise for every project, event   *)
(* and file: what a gate that says go has checked, what the executors may  *)
(* write, and that the three places that judge a change agree.  And what   *)
(* the tables behind them are: every window of log lines is reported by    *)
(* the rules of the detector, and the tables that are shipped agree.       *)
(***************************************************************************)
EXTENDS RegistryGovernance, FiniteSetTheorems, WellFoundedInduction, SequenceTheorems, TLAPS

-----------------------------------------------------------------------------
(***************************************************************************)
(* Numbers and sequences.                                                  *)
(***************************************************************************)

\* The order of the naturals is well-founded: 0..n loses an element at every step down.
LEMMA LeastNumber ==
  ASSUME NEW S \in SUBSET Nat, S # {}
  PROVE  \E m \in S : \A n \in S : m <= n
<1> DEFINE Upto == {0..n : n \in S}
           Less == StrictSubsetOrdering(Nat)
<1>0. \A n \in Nat : 0..n \in FiniteSubsetsOf(Nat)
  BY FS_Interval DEF FiniteSubsetsOf
<1>1. Upto \subseteq FiniteSubsetsOf(Nat) /\ Upto # {}
  BY <1>0
<1>2. IsWellFoundedOn(Less, FiniteSubsetsOf(Nat))
  BY FS_StrictSubsetOrderingWellFounded
<1> HIDE DEF Upto, Less
<1>3. PICK low \in Upto : \A u \in Upto : <<u, low>> \notin Less
  BY <1>1, <1>2, WFMin
<1>4. PICK m \in S : low = 0..m
  BY DEF Upto
<1>5. ASSUME NEW n \in S, n < m PROVE FALSE
  <2>1. /\ 0..n \subseteq 0..m /\ m \in 0..m /\ m \notin 0..n
        /\ 0..n \in SUBSET Nat /\ 0..m \in SUBSET Nat
    BY <1>5
  <2>2. <<0..n, 0..m>> \in Less
    BY <2>1 DEF Less, StrictSubsetOrdering
  <2>3. 0..n \in Upto
    BY DEF Upto
  <2>4. QED
    BY <2>2, <2>3, <1>3, <1>4
<1>6. QED
  BY <1>5

LEMMA FirstOfLeast ==
  ASSUME NEW ks \in SUBSET Nat, ks # {}
  PROVE  FirstOf(ks) \in ks /\ \A k \in ks : FirstOf(ks) <= k
BY LeastNumber DEF FirstOf

\* A tuple is a sequence.
LEMMA TupleOfOne == ASSUME NEW a PROVE <<a>> \in Seq({a})
OBVIOUS

LEMMA TupleOfFour ==
  ASSUME NEW a, NEW b, NEW c, NEW d
  PROVE  \E S : <<a, b, c, d>> \in Seq(S)
<1>1. <<a, b, c, d>> \in Seq({a, b, c, d})
  OBVIOUS
<1>2. QED
  BY <1>1

LEMMA TupleOfFive ==
  ASSUME NEW a, NEW b, NEW c, NEW d, NEW f
  PROVE  \E S : <<a, b, c, d, f>> \in Seq(S)
<1>1. <<a, b, c, d, f>> \in Seq({a, b, c, d, f})
  OBVIOUS
<1>2. QED
  BY <1>1

LEMMA TupleOfSix ==
  ASSUME NEW a, NEW b, NEW c, NEW d, NEW f, NEW g
  PROVE  \E S : <<a, b, c, d, f, g>> \in Seq(S)
<1>1. <<a, b, c, d, f, g>> \in Seq({a, b, c, d, f, g})
  OBVIOUS
<1>2. QED
  BY <1>1

LEMMA TupleOfSeven ==
  ASSUME NEW a, NEW b, NEW c, NEW d, NEW f, NEW g, NEW h
  PROVE  \E S : <<a, b, c, d, f, g, h>> \in Seq(S)
<1>1. <<a, b, c, d, f, g, h>> \in Seq({a, b, c, d, f, g, h})
  OBVIOUS
<1>2. QED
  BY <1>1

LEMMA TupleOfEight ==
  ASSUME NEW a, NEW b, NEW c, NEW d, NEW f, NEW g, NEW h, NEW k
  PROVE  \E S : <<a, b, c, d, f, g, h, k>> \in Seq(S)
<1>1. <<a, b, c, d, f, g, h, k>> \in Seq({a, b, c, d, f, g, h, k})
  OBVIOUS
<1>2. QED
  BY <1>1

\* The elements of two sequences one after the other.
LEMMA ConcatElements ==
  ASSUME NEW S, NEW T, NEW s \in Seq(S), NEW t \in Seq(T)
  PROVE  /\ s \o t \in Seq(S \cup T)
         /\ \A i \in DOMAIN s : i \in DOMAIN (s \o t) /\ (s \o t)[i] = s[i]
         /\ \A i \in DOMAIN t : Len(s) + i \in DOMAIN (s \o t) /\ (s \o t)[Len(s) + i] = t[i]
         /\ \A i \in DOMAIN (s \o t) : \/ i \in DOMAIN s /\ (s \o t)[i] = s[i]
                                       \/ i - Len(s) \in DOMAIN t /\ (s \o t)[i] = t[i - Len(s)]
<1>1. s \in Seq(S \cup T) /\ t \in Seq(S \cup T)
  OBVIOUS
<1>2. /\ Len(s \o t) = Len(s) + Len(t) /\ s \o t \in Seq(S \cup T)
      /\ \A i \in 1..Len(s \o t) : (s \o t)[i] = IF i <= Len(s) THEN s[i] ELSE t[i - Len(s)]
  BY <1>1, ConcatProperties
<1>3. /\ DOMAIN s = 1..Len(s) /\ DOMAIN t = 1..Len(t) /\ DOMAIN (s \o t) = 1..Len(s \o t)
      /\ Len(s) \in Nat /\ Len(t) \in Nat
  BY <1>1, <1>2
<1>4. \A i \in DOMAIN s : i \in DOMAIN (s \o t) /\ (s \o t)[i] = s[i]
  BY <1>2, <1>3
<1>5. \A i \in DOMAIN t : Len(s) + i \in DOMAIN (s \o t) /\ (s \o t)[Len(s) + i] = t[i]
  BY <1>2, <1>3
<1>6. \A i \in DOMAIN (s \o t) : \/ i \in DOMAIN s /\ (s \o t)[i] = s[i]
                                 \/ i - Len(s) \in DOMAIN t /\ (s \o t)[i] = t[i - Len(s)]
  BY <1>2, <1>3
<1>7. QED
  BY <1>2, <1>4, <1>5, <1>6

\* Rows one after the other hold nothing if neither part does.
LEMMA HoldingConcat ==
  ASSUME NEW S, NEW T, NEW s \in Seq(S), NEW t \in Seq(T), Holding(s \o t) = {}
  PROVE  Holding(s) = {} /\ Holding(t) = {}
<1>1. \A i \in DOMAIN s : i \in DOMAIN (s \o t) /\ (s \o t)[i] = s[i]
  BY ConcatElements
<1>2. \A i \in DOMAIN t : Len(s) + i \in DOMAIN (s \o t) /\ (s \o t)[Len(s) + i] = t[i]
  BY ConcatElements
<1>3. QED
  BY <1>1, <1>2 DEF Holding

-----------------------------------------------------------------------------
(***************************************************************************)
(* A gate that says go.                                                    *)
(***************************************************************************)

\* None of the rows of a short sequence of rows holds.
LEMMA NoneOfOne ==
  ASSUME NEW r1, Holding(<<r1>>) = {}
  PROVE  ~r1[1]
<1>1. 1 \in DOMAIN <<r1>> /\ <<r1>>[1] = r1
  OBVIOUS
<1>2. QED
  BY <1>1 DEF Holding

LEMMA NoneOfSix ==
  ASSUME NEW r1, NEW r2, NEW r3, NEW r4, NEW r5, NEW r6,
         Holding(<<r1, r2, r3, r4, r5, r6>>) = {}
  PROVE  ~r1[1] /\ ~r2[1] /\ ~r3[1] /\ ~r4[1] /\ ~r5[1] /\ ~r6[1]
<1> DEFINE r == <<r1, r2, r3, r4, r5, r6>>
<1>1. DOMAIN r = 1..6 /\ r[1] = r1 /\ r[2] = r2 /\ r[3] = r3 /\ r[4] = r4 /\ r[5] = r5 /\ r[6] = r6
  OBVIOUS
<1> HIDE DEF r
<1>2. Holding(r) = {}
  BY DEF r
<1>3. \A i \in 1..6 : ~r[i][1]
  BY <1>1, <1>2 DEF Holding
<1>4. QED
  BY <1>1, <1>3

LEMMA NoneOfEight ==
  ASSUME NEW r1, NEW r2, NEW r3, NEW r4, NEW r5, NEW r6, NEW r7, NEW r8,
         Holding(<<r1, r2, r3, r4, r5, r6, r7, r8>>) = {}
  PROVE  ~r1[1] /\ ~r2[1] /\ ~r3[1] /\ ~r4[1] /\ ~r5[1] /\ ~r6[1] /\ ~r7[1] /\ ~r8[1]
<1> DEFINE r == <<r1, r2, r3, r4, r5, r6, r7, r8>>
<1>1. /\ DOMAIN r = 1..8 /\ r[1] = r1 /\ r[2] = r2 /\ r[3] = r3 /\ r[4] = r4 /\ r[5] = r5
      /\ r[6] = r6 /\ r[7] = r7 /\ r[8] = r8
  OBVIOUS
<1> HIDE DEF r
<1>2. Holding(r) = {}
  BY DEF r
<1>3. \A i \in 1..8 : ~r[i][1]
  BY <1>1, <1>2 DEF Holding
<1>4. QED
  BY <1>1, <1>3

LEMMA ProjectRowsClear ==
  ASSUME NEW project, NEW e, NEW fix
  PROVE  /\ \E S : ProjectRows(project, e, fix) \in Seq(S)
         /\ Holding(ProjectRows(project, e, fix)) = {} =>
               /\ project.auto /\ project.dir /\ e.text /\ project.rollback
               /\ e.issue \notin project.escalate
               /\ SafeFixOf(e.type) = fix /\ fix # "" /\ fix \in project.allow
<1> DEFINE r1 == <<~project.auto, "project_auto_recover_disabled">>
           r2 == <<e.issue \in project.escalate, "project_escalation_required">>
           r3 == <<SafeFixOf(e.type) \notin {"", fix}, "target_fix_mismatch">>
           r4 == <<SafeFixOf(e.type) = "", "event_type_not_existing_safe_candidate">>
           r5 == <<fix # "" /\ fix \notin project.allow, "fix_id_not_in_project_allowlist">>
           r6 == <<~project.dir, "project_dir_missing">>
           r7 == <<~e.text, "insufficient_evidence">>
           r8 == <<~project.rollback, "rollback_disabled">>
           rows == <<r1, r2, r3, r4, r5, r6, r7, r8>>
<1>1. ProjectRows(project, e, fix) = rows
  BY Zenon DEF ProjectRows
<1>2. /\ \E S : rows \in Seq(S)
      /\ Holding(rows) = {} =>
            ~r1[1] /\ ~r2[1] /\ ~r3[1] /\ ~r4[1] /\ ~r5[1] /\ ~r6[1] /\ ~r7[1] /\ ~r8[1]
  <2> HIDE DEF r1, r2, r3, r4, r5, r6, r7, r8
  <2>1. \E S : rows \in Seq(S)
    BY TupleOfEight
  <2>2. QED
    BY <2>1, NoneOfEight
<1>3. ~r1[1] /\ ~r2[1] /\ ~r3[1] /\ ~r4[1] /\ ~r5[1] /\ ~r6[1] /\ ~r7[1] /\ ~r8[1] =>
            /\ project.auto /\ project.dir /\ e.text /\ project.rollback
            /\ e.issue \notin project.escalate
            /\ SafeFixOf(e.type) = fix /\ fix # "" /\ fix \in project.allow
  OBVIOUS
<1> HIDE DEF r1, r2, r3, r4, r5, r6, r7, r8, rows
<1>4. QED
  BY <1>1, <1>2, <1>3

LEMMA FixRowsClear ==
  ASSUME NEW project, NEW e, NEW fix, NEW world
  PROVE  /\ \E S : FixRows(project, e, fix, world) \in Seq(S)
         /\ Holding(FixRows(project, e, fix, world)) = {} =>
               /\ fix \in SafeFixes
               /\ SpecOfFix(fix).event = e.type
               /\ world.reading \in {"read_ok", "remote_deferred_no_write"}
               /\ RollbackPlan(project, fix)
<1>1. CASE fix \notin SafeFixes
  <2> DEFINE r1 == <<TRUE, "fix_safety_spec_missing">>
  <2>1. FixRows(project, e, fix, world) = <<r1>>
    BY <1>1, Zenon DEF FixRows
  <2>2. <<r1>> \in Seq({r1}) /\ (Holding(<<r1>>) = {} => ~r1[1])
    <3> HIDE DEF r1
    <3>1. QED
      BY NoneOfOne, TupleOfOne
  <2>3. r1[1]
    OBVIOUS
  <2>4. QED
    BY <2>1, <2>2, <2>3, Zenon
<1>2. CASE fix \in SafeFixes
  <2> DEFINE planned == Planned(SpecOfFix(fix), world)
             r1 == <<SpecOfFix(fix).event # e.type, "fix_event_type_mismatch">>
             r2 == <<~project.dir, "project_dir_missing">>
             r3 == <<world.reading \notin {"read_ok", "remote_deferred_no_write"}, world.reading>>
             r4 == <<world.reading = "read_ok" /\ DOMAIN planned = {},
                     "target_config_field_missing">>
             r5 == <<OfStatus(planned, "unsafe") # {} /\ Actionable(planned) = {},
                     "unsafe_semantic_transition">>
             r6 == <<~RollbackPlan(project, fix), "rollback_plan_unavailable">>
             rows == <<r1, r2, r3, r4, r5, r6>>
  <2>1. FixRows(project, e, fix, world) = rows
    BY <1>2, Zenon DEF FixRows
  <2>2. /\ \E S : rows \in Seq(S)
        /\ Holding(rows) = {} => ~r1[1] /\ ~r2[1] /\ ~r3[1] /\ ~r4[1] /\ ~r5[1] /\ ~r6[1]
    <3> HIDE DEF r1, r2, r3, r4, r5, r6
    <3>1. \E S : rows \in Seq(S)
      BY TupleOfSix
    <3>2. QED
      BY <3>1, NoneOfSix
  <2>3. ~r1[1] /\ ~r3[1] /\ ~r6[1] =>
           /\ SpecOfFix(fix).event = e.type
           /\ world.reading \in {"read_ok", "remote_deferred_no_write"}
           /\ RollbackPlan(project, fix)
    OBVIOUS
  <2>4. QED
    BY <1>2, <2>1, <2>2, <2>3, Zenon
<1>3. QED
  BY <1>1, <1>2

LEMMA ReasonRowsClear ==
  ASSUME NEW project, NEW e, NEW fix, NEW world, Holding(ReasonRows(project, e, fix, world)) = {}
  PROVE  /\ ~Ambiguous(e, fix)
         /\ Holding(FixRows(project, e, fix, world)) = {}
         /\ Holding(ProjectRows(project, e, fix)) = {}
<1> DEFINE r1 == <<Ambiguous(e, fix), "ambiguous_event_evidence">>
           first == <<r1>>
           middle == FixRows(project, e, fix, world)
           last == ProjectRows(project, e, fix)
<1>1. \E S : middle \in Seq(S)
  BY FixRowsClear
<1>2. \E S : last \in Seq(S)
  BY ProjectRowsClear
<1>3. Holding((first \o middle) \o last) = {}
  BY Zenon DEF ReasonRows
<1>4. ~r1[1] /\ Holding(middle) = {} /\ Holding(last) = {}
  <2> HIDE DEF r1, middle, last
  <2>1. first \in Seq({r1})
    OBVIOUS
  <2>2. PICK S : middle \in Seq(S)
    BY <1>1
  <2>3. PICK T : last \in Seq(T)
    BY <1>2
  <2> HIDE DEF first
  <2>4. first \o middle \in Seq({r1} \cup S)
    BY <2>1, <2>2, ConcatElements
  <2>5. Holding(first \o middle) = {} /\ Holding(last) = {}
    BY <1>3, <2>3, <2>4, HoldingConcat
  <2>6. Holding(first) = {} /\ Holding(middle) = {}
    BY <2>1, <2>2, <2>5, HoldingConcat
  <2>7. QED
    BY <2>5, <2>6, NoneOfOne DEF first
<1>5. QED
  BY <1>4

\* What Resolve hands on when it allows a fix.
LEMMA ResolveAllowed ==
  ASSUME NEW policy, NEW event, NEW confidence, NEW fix,
         Resolve(policy, event, confidence, fix).allowed
  PROVE  /\ event \in DOMAIN policy.events
         /\ policy.events[event].layer = "safe_auto_recover"
         /\ ~(confidence < policy.events[event].confidence)
         /\ Resolve(policy, event, confidence, fix).layer = "safe_auto_recover"
         /\ Resolve(policy, event, confidence, fix).dry
              <=> EffectiveDry(policy, policy.events[event])
BY DEF Resolve, Refusal

\* A gate that says go has checked everything it says it checks, about the
\* event and the fix it names.
THEOREM GateChecked ==
  ASSUME NEW project, NEW e, NEW world, NEW cool, Gate(project, e, world, cool).go
  PROVE  LET gate == Gate(project, e, world, cool)
             planned == Planned(SpecOfFix(gate.fix), world)
         IN  /\ project.enabled /\ project.auto /\ project.rollback /\ project.dir /\ ~project.dry
             /\ cool /\ e.sure /\ e.text /\ e.issue \notin project.escalate
             /\ gate.fix = SafeFixOf(e.type) /\ gate.fix \in SafeFixes \cap project.allow
             /\ SpecOfFix(gate.fix).event = e.type
             /\ ~Ambiguous(e, gate.fix)
             /\ world.reading \in {"read_ok", "remote_deferred_no_write"}
             /\ Cardinality(Actionable(planned)) > 0
             /\ gate.allowed /\ gate.plan /\ ~gate.dry /\ gate.reasons = {}
             /\ gate.layer = "safe_auto_recover"
<1> DEFINE policy == RuntimePolicy(project)
           sure == IF e.sure THEN 10 ELSE 0
           fix == FixOfEvent(e.type)
           d == Resolve(policy, e.type, sure, fix)
           rows == ReasonRows(project, e, d.fix, world)
           planned == IF d.fix \in SafeFixes THEN Planned(SpecOfFix(d.fix), world) ELSE <<>>
           count == Cardinality(Actionable(planned))
           plan == RollbackPlan(project, d.fix)
           ambiguous == Ambiguous(e, d.fix)
           failed == IF d.reason # "" THEN d.reason
                     ELSE FirstFailed(rows, NoOp(planned), count, cool, plan)
           operator == d.operator \/ ambiguous
           gate == Gate(project, e, world, cool)
           ep == policy.events[e.type]
<1>1. /\ project.enabled
      /\ gate = [layer |-> IF d.layer = "safe_auto_recover" /\ (ambiguous \/ ~d.allowed)
                           THEN "manual_escalation" ELSE d.layer,
              dry |-> d.dry, allowed |-> d.allowed, operator |-> operator, fix |-> d.fix,
              go |-> /\ d.allowed /\ ~d.dry /\ Holding(rows) = {} /\ count > 0 /\ ~NoOp(planned)
                     /\ cool /\ plan /\ ~operator,
              reason |-> IF d.allowed /\ d.dry /\ failed = "" THEN "r15_dry_run" ELSE failed,
              reasons |-> Reasons(rows), plan |-> plan, count |-> count,
              unsafe |-> OfStatus(planned, "unsafe") # {}]
  <2>1. ~Blocked(e, "r15_policy_disabled").go /\ ~Blocked(e, "r15_policy_validation_failed").go
    BY DEF Blocked
  <2>2. gate.go
    OBVIOUS
  <2>3. project.enabled /\ ValidPolicy(policy)
    BY <2>1, <2>2, Zenon DEF Gate
  <2>4. QED
    BY <2>3, Zenon DEF Gate
<1>2. /\ d.allowed /\ ~d.dry /\ Holding(rows) = {} /\ count > 0 /\ cool /\ plan /\ ~operator
      /\ gate.allowed = d.allowed /\ gate.dry = d.dry /\ gate.fix = d.fix /\ gate.plan = plan
      /\ gate.reasons = Reasons(rows)
      /\ gate.layer = IF d.layer = "safe_auto_recover" /\ (ambiguous \/ ~d.allowed)
                      THEN "manual_escalation" ELSE d.layer
  <2> HIDE DEF d, rows, planned, count, plan, ambiguous, failed, operator
  <2>1. gate.go
    BY DEF gate
  <2> HIDE DEF gate
  <2>2. QED
    BY <1>1, <2>1
<1>3. /\ e.type \in DOMAIN policy.events /\ ep.layer = "safe_auto_recover"
      /\ ~(sure < ep.confidence)
      /\ d.layer = "safe_auto_recover" /\ (d.dry <=> EffectiveDry(policy, ep))
  <2>1. Resolve(policy, e.type, sure, fix).allowed
    BY <1>2
  <2>2. d = Resolve(policy, e.type, sure, fix)
    OBVIOUS
  <2> HIDE DEF policy, rows, planned, count, plan, ambiguous, failed, operator, gate, sure, fix, d
  <2>3. /\ e.type \in DOMAIN policy.events /\ ep.layer = "safe_auto_recover"
        /\ ~(sure < ep.confidence)
        /\ Resolve(policy, e.type, sure, fix).layer = "safe_auto_recover"
        /\ Resolve(policy, e.type, sure, fix).dry <=> EffectiveDry(policy, ep)
    BY <2>1, ResolveAllowed
  <2>4. QED
    BY <2>2, <2>3
<1>4. e.sure /\ ~project.dry
  <2>1. /\ ep = EventPolicyOf(project, DomainOf(e.type))
    BY <1>3 DEF RuntimePolicy
  <2>2. ep.layer = DomainOf(e.type).layer
    BY <2>1 DEF EventPolicyOf
  <2>3. ep.confidence = 8
    BY <1>3, <2>1, <2>2 DEF EventPolicyOf
  <2>4. ep.dry = IF project.dry THEN "yes" ELSE "no"
    BY <1>3, <2>1, <2>2 DEF EventPolicyOf
  <2>5. ~EffectiveDry(policy, ep)
    BY <1>2, <1>3
  <2> HIDE DEF policy
  <2>6. ~project.dry
    BY <2>4, <2>5 DEF EffectiveDry
  <2>7. QED
    BY <1>3, <2>3, <2>6
<1>5. /\ ~Ambiguous(e, d.fix)
      /\ d.fix \in SafeFixes /\ SpecOfFix(d.fix).event = e.type
      /\ world.reading \in {"read_ok", "remote_deferred_no_write"}
      /\ project.auto /\ project.dir /\ e.text /\ project.rollback
      /\ e.issue \notin project.escalate
      /\ SafeFixOf(e.type) = d.fix /\ d.fix \in project.allow
  <2> HIDE DEF d, planned, count, plan, ambiguous, failed, operator, gate, policy
  <2>1. /\ ~Ambiguous(e, d.fix)
        /\ Holding(FixRows(project, e, d.fix, world)) = {}
        /\ Holding(ProjectRows(project, e, d.fix)) = {}
    BY <1>2, ReasonRowsClear
  <2>2. /\ d.fix \in SafeFixes /\ SpecOfFix(d.fix).event = e.type
        /\ world.reading \in {"read_ok", "remote_deferred_no_write"}
    BY <2>1, FixRowsClear
  <2>3. /\ project.auto /\ project.dir /\ e.text /\ project.rollback
        /\ e.issue \notin project.escalate
        /\ SafeFixOf(e.type) = d.fix /\ d.fix \in project.allow
    BY <2>1, ProjectRowsClear
  <2>4. QED
    BY <2>1, <2>2, <2>3
<1>6. Reasons(rows) = {}
  <2> HIDE DEF rows
  <2>1. QED
    BY <1>2 DEF Reasons
<1>7. planned = Planned(SpecOfFix(d.fix), world)
  BY <1>5
<1> HIDE DEF d, rows, planned, count, plan, ambiguous, failed, operator, gate, policy
<1>8. Cardinality(Actionable(Planned(SpecOfFix(d.fix), world))) > 0
  BY <1>2, <1>7 DEF count
<1>9. gate.layer = "safe_auto_recover"
  BY <1>2, <1>3 DEF operator
<1>10. QED
  BY <1>1, <1>2, <1>3, <1>4, <1>5, <1>6, <1>8, <1>9 DEF gate

-----------------------------------------------------------------------------
(***************************************************************************)
(* The registry.                                                           *)
(***************************************************************************)

\* The shapes a change in the registry has.
IsCandidate(c) ==
    \/ c = Off(c.field)
    \/ \E n \in Nat : c = Lower(c.field, n)
    \/ \E s \in DowngradeValues : c = Degrade(c.field, s)
    \/ c = Port("metrics_port", 9101)

Registered(cs) ==
    /\ \E S : cs \in Seq(S)
    /\ \A k \in DOMAIN cs : IsCandidate(cs[k])

LEMMA Shapes ==
  /\ \A f : IsCandidate(Off(f))
  /\ \A f : \A n \in Nat : IsCandidate(Lower(f, n))
  /\ \A f : \A s \in DowngradeValues : IsCandidate(Degrade(f, s))
  /\ IsCandidate(Port("metrics_port", 9101))
<1>1. \A f : IsCandidate(Off(f))
  BY DEF IsCandidate, Off
<1>2. \A f : \A n \in Nat : IsCandidate(Lower(f, n))
  BY DEF IsCandidate, Lower
<1>3. \A f : \A s \in DowngradeValues : IsCandidate(Degrade(f, s))
  BY DEF IsCandidate, Degrade
<1>4. IsCandidate(Port("metrics_port", 9101))
  BY DEF IsCandidate
<1>5. QED
  BY <1>1, <1>2, <1>3, <1>4

LEMMA RegisteredMany ==
  ASSUME NEW S, NEW fields \in Seq(S), NEW n \in Nat
  PROVE  Registered(Offs(fields)) /\ Registered(Lowers(fields, n))
<1>1. Offs(fields) \in Seq({Off(fields[i]) : i \in DOMAIN fields})
  BY DEF Offs
<1>2. Lowers(fields, n) \in Seq({Lower(fields[i], n) : i \in DOMAIN fields})
  BY DEF Lowers
<1>3. \A i \in DOMAIN Offs(fields) : Offs(fields)[i] = Off(fields[i])
  BY Zenon DEF Offs
<1>4. \A i \in DOMAIN Lowers(fields, n) : Lowers(fields, n)[i] = Lower(fields[i], n)
  BY Zenon DEF Lowers
<1>5. QED
  BY <1>1, <1>2, <1>3, <1>4, Shapes DEF Registered

LEMMA RegisteredConcat ==
  ASSUME NEW cs, NEW ds, Registered(cs), Registered(ds)
  PROVE  Registered(cs \o ds)
<1>1. PICK S : cs \in Seq(S)
  BY DEF Registered
<1>2. PICK T : ds \in Seq(T)
  BY DEF Registered
<1>3. cs \o ds \in Seq(S \cup T)
  BY <1>1, <1>2, ConcatElements
<1>4. ASSUME NEW k \in DOMAIN (cs \o ds) PROVE IsCandidate((cs \o ds)[k])
  <2>1. \/ k \in DOMAIN cs /\ (cs \o ds)[k] = cs[k]
        \/ k - Len(cs) \in DOMAIN ds /\ (cs \o ds)[k] = ds[k - Len(cs)]
    BY <1>1, <1>2, ConcatElements
  <2>2. QED
    BY <2>1 DEF Registered
<1>5. QED
  BY <1>3, <1>4 DEF Registered

LEMMA RegisteredOne ==
  ASSUME NEW a,
         IsCandidate(a)
  PROVE  Registered(<<a>>)
<1>1. /\ <<a>> \in Seq({a})
      /\ \A k \in DOMAIN <<a>> : <<a>>[k] \in {a}
  OBVIOUS
<1>2. QED
  BY <1>1 DEF Registered

LEMMA RegisteredTwo ==
  ASSUME NEW a, NEW b,
         IsCandidate(a), IsCandidate(b)
  PROVE  Registered(<<a, b>>)
<1>1. /\ <<a, b>> \in Seq({a, b})
      /\ \A k \in DOMAIN <<a, b>> : <<a, b>>[k] \in {a, b}
  OBVIOUS
<1>2. QED
  BY <1>1 DEF Registered

LEMMA RegisteredThree ==
  ASSUME NEW a, NEW b, NEW c,
         IsCandidate(a), IsCandidate(b), IsCandidate(c)
  PROVE  Registered(<<a, b, c>>)
<1>1. /\ <<a, b, c>> \in Seq({a, b, c})
      /\ \A k \in DOMAIN <<a, b, c>> : <<a, b, c>>[k] \in {a, b, c}
  OBVIOUS
<1>2. QED
  BY <1>1 DEF Registered

LEMMA RegisteredSix ==
  ASSUME NEW a, NEW b, NEW c, NEW d, NEW f, NEW g,
         IsCandidate(a), IsCandidate(b), IsCandidate(c), IsCandidate(d), IsCandidate(f),
         IsCandidate(g)
  PROVE  Registered(<<a, b, c, d, f, g>>)
<1>1. /\ <<a, b, c, d, f, g>> \in Seq({a, b, c, d, f, g})
      /\ \A k \in DOMAIN <<a, b, c, d, f, g>> : <<a, b, c, d, f, g>>[k] \in {a, b, c, d, f, g}
  OBVIOUS
<1>2. QED
  BY <1>1 DEF Registered

LEMMA SpecCandidates ==
  ASSUME NEW event, NEW issue, NEW fix, NEW cs, Registered(cs)
  PROVE  Registered(SafeSpec(event, issue, fix, cs).candidates)
BY DEF SafeSpec

AllRegistered(specs) ==
    /\ \E S : specs \in Seq(S)
    /\ \A i \in DOMAIN specs : Registered(specs[i].candidates)

LEMMA AllRegisteredConcat ==
  ASSUME NEW cs, NEW ds, AllRegistered(cs), AllRegistered(ds)
  PROVE  AllRegistered(cs \o ds)
<1>1. PICK S : cs \in Seq(S)
  BY DEF AllRegistered
<1>2. PICK T : ds \in Seq(T)
  BY DEF AllRegistered
<1>3. cs \o ds \in Seq(S \cup T)
  BY <1>1, <1>2, ConcatElements
<1>4. ASSUME NEW k \in DOMAIN (cs \o ds) PROVE Registered((cs \o ds)[k].candidates)
  <2>1. \/ k \in DOMAIN cs /\ (cs \o ds)[k] = cs[k]
        \/ k - Len(cs) \in DOMAIN ds /\ (cs \o ds)[k] = ds[k - Len(cs)]
    BY <1>1, <1>2, ConcatElements
  <2>2. QED
    BY <2>1 DEF AllRegistered
<1>5. QED
  BY <1>3, <1>4 DEF AllRegistered

LEMMA HostRegistered == AllRegistered(HostSpecs)
<1> DEFINE few1 == <<Port("metrics_port", 9101)>>
           c1 == few1
           s1 == SafeSpec("network_port", "network_port", "fix-network-1", c1)
           fields2 == <<"batch_size", "train_batch_size", "per_device_train_batch_size",
                        "samples_per_gpu", "training.batch_size", "model.batch_size">>
           c2 == Lowers(fields2, 4)
           s2 == SafeSpec("gpu_oom", "gpu", "fix-gpu-1", c2)
<1>0. HostSpecs = <<s1, s2>>
  BY Zenon DEF HostSpecs
<1>1. Registered(c1)
  <2>1. Registered(few1)
    BY Shapes, RegisteredOne
  <2>2. QED
    BY <2>1
<1>2. Registered(c2)
  <2>1. \E S : fields2 \in Seq(S)
    BY TupleOfSix
  <2> HIDE DEF fields2
  <2>2. Registered(Lowers(fields2, 4))
    BY <2>1, RegisteredMany
  <2>3. QED
    BY <2>2
<1> HIDE DEF c1, c2
<1>3. Registered(s1.candidates) /\ Registered(s2.candidates)
  BY <1>1, <1>2, SpecCandidates
<1> HIDE DEF s1, s2
<1>4. /\ <<s1, s2>> \in Seq({s1, s2})
      /\ \A i \in DOMAIN <<s1, s2>> : <<s1, s2>>[i] \in {s1, s2}
  OBVIOUS
<1>5. QED
  BY <1>0, <1>3, <1>4 DEF AllRegistered

LEMMA OptionalRegistered == AllRegistered(OptionalSpecs)
<1> DEFINE fields1 == <<"cache_enabled", "feature_cache_enabled", "cache.write_enabled",
                        "simulate_cache_write_failed", "simulate_disk_full">>
           c1 == Offs(fields1)
           s1 == SafeSpec("cache_write_failed", "cache", "fix-cache-1", c1)
           fields2 == <<"optional_dependency_enabled",
                        "optional_dependencies.internal_risk_sdk.enabled",
                        "plugins.internal_risk_sdk.enabled", "risk_sdk_enabled",
                        "simulate_python_env_mismatch">>
           c2 == Offs(fields2)
           s2 == SafeSpec("optional_dependency_missing", "optional_dependency",
                          "fix-optional-dep-1", c2)
           fields3 == <<"optional_webhook_enabled", "risk_sdk_enabled",
                        "enrichment_client_enabled", "optional_integrations.risk_sdk.enabled",
                        "optional_integrations.enrichment.enabled",
                        "simulate_optional_integration_failed">>
           c3 == Offs(fields3)
           s3 == SafeSpec("optional_integration_failed", "optional_integration",
                          "fix-optional-integration-1", c3)
<1>0. OptionalSpecs = <<s1, s2, s3>>
  BY Zenon DEF OptionalSpecs
<1>1. Registered(c1)
  <2>1. \E S : fields1 \in Seq(S)
    BY TupleOfFive
  <2> HIDE DEF fields1
  <2>2. Registered(Offs(fields1))
    BY <2>1, RegisteredMany
  <2>3. QED
    BY <2>2
<1>2. Registered(c2)
  <2>1. \E S : fields2 \in Seq(S)
    BY TupleOfFive
  <2> HIDE DEF fields2
  <2>2. Registered(Offs(fields2))
    BY <2>1, RegisteredMany
  <2>3. QED
    BY <2>2
<1>3. Registered(c3)
  <2>1. \E S : fields3 \in Seq(S)
    BY TupleOfSix
  <2> HIDE DEF fields3
  <2>2. Registered(Offs(fields3))
    BY <2>1, RegisteredMany
  <2>3. QED
    BY <2>2
<1> HIDE DEF c1, c2, c3
<1>4. Registered(s1.candidates) /\ Registered(s2.candidates) /\ Registered(s3.candidates)
  BY <1>1, <1>2, <1>3, SpecCandidates
<1> HIDE DEF s1, s2, s3
<1>5. /\ <<s1, s2, s3>> \in Seq({s1, s2, s3})
      /\ \A i \in DOMAIN <<s1, s2, s3>> : <<s1, s2, s3>>[i] \in {s1, s2, s3}
  OBVIOUS
<1>6. QED
  BY <1>0, <1>4, <1>5 DEF AllRegistered

LEMMA ServiceRegistered == AllRegistered(ServiceSpecs)
<1> DEFINE fields1 == <<"cache.redis_enabled", "cache.write_enabled", "feature_cache_enabled",
                        "simulate_optional_cache_backend_failed">>
           few1 == <<Degrade("cache.backend", "memory"), Degrade("cache.mode", "memory")>>
           c1 == few1 \o Offs(fields1)
           s1 == SafeSpec("optional_cache_backend_failed", "optional_cache_backend",
                          "fix-cache-backend-1", c1)
           fields2 == <<"optional_services.enrichment.enabled",
                        "optional_services.recommendation.enabled",
                        "optional_services.risk_scoring.enabled", "enrichment_enabled",
                        "recommendation_enabled", "external_risk_scoring_enabled",
                        "simulate_optional_service_unavailable">>
           c2 == Offs(fields2)
           s2 == SafeSpec("optional_service_unavailable", "optional_service",
                          "fix-optional-service-1", c2)
           fields3 == <<"notification.webhook_enabled", "notifications.webhook.enabled",
                        "notification.remote_sink_enabled",
                        "notification_sink.webhook_enabled",
                        "simulate_notification_sink_failed">>
           c3 == Offs(fields3)
           s3 == SafeSpec("notification_sink_failed", "notification_sink",
                          "fix-notification-sink-1", c3)
<1>0. ServiceSpecs = <<s1, s2, s3>>
  BY Zenon DEF ServiceSpecs
<1>1. Registered(c1)
  <2>1. Registered(few1)
    BY Shapes, RegisteredTwo DEF DowngradeValues
  <2>2. \E S : fields1 \in Seq(S)
    BY TupleOfFour
  <2> HIDE DEF fields1, few1
  <2>3. Registered(Offs(fields1))
    BY <2>2, RegisteredMany
  <2>4. QED
    BY <2>1, <2>3, RegisteredConcat
<1>2. Registered(c2)
  <2>1. \E S : fields2 \in Seq(S)
    BY TupleOfSeven
  <2> HIDE DEF fields2
  <2>2. Registered(Offs(fields2))
    BY <2>1, RegisteredMany
  <2>3. QED
    BY <2>2
<1>3. Registered(c3)
  <2>1. \E S : fields3 \in Seq(S)
    BY TupleOfFive
  <2> HIDE DEF fields3
  <2>2. Registered(Offs(fields3))
    BY <2>1, RegisteredMany
  <2>3. QED
    BY <2>2
<1> HIDE DEF c1, c2, c3
<1>4. Registered(s1.candidates) /\ Registered(s2.candidates) /\ Registered(s3.candidates)
  BY <1>1, <1>2, <1>3, SpecCandidates
<1> HIDE DEF s1, s2, s3
<1>5. /\ <<s1, s2, s3>> \in Seq({s1, s2, s3})
      /\ \A i \in DOMAIN <<s1, s2, s3>> : <<s1, s2, s3>>[i] \in {s1, s2, s3}
  OBVIOUS
<1>6. QED
  BY <1>0, <1>4, <1>5 DEF AllRegistered

LEMMA LoadRegistered == AllRegistered(LoadSpecs)
<1> DEFINE fields1 == <<"observability.remote_exporter_enabled",
                        "metrics.remote_exporter_enabled", "tracing.remote_exporter_enabled",
                        "simulate_observability_export_failed">>
           few1 == <<Degrade("observability.exporter_mode", "local"),
                     Degrade("observability.metrics_sink", "file"),
                     Degrade("observability.tracing_sink", "console")>>
           c1 == few1 \o Offs(fields1)
           s1 == SafeSpec("observability_export_failed", "observability_export",
                          "fix-observability-export-1", c1)
           few2 == <<Lower("prefetch_count", 2), Lower("max_inflight", 10),
                     Lower("consumer_workers", 2), Lower("queue.prefetch_count", 2),
                     Lower("queue.max_inflight", 10), Lower("queue.consumer_workers", 2)>>
           c2 == few2
           s2 == SafeSpec("queue_backpressure", "queue_backpressure",
                          "fix-queue-backpressure-1", c2)
           fields3 == <<"worker_concurrency", "workers", "max_workers", "consumer_workers",
                        "worker.concurrency", "server.workers">>
           c3 == Lowers(fields3, 2)
           s3 == SafeSpec("worker_overload", "worker_overload", "fix-worker-1", c3)
<1>0. LoadSpecs = <<s1, s2, s3>>
  BY Zenon DEF LoadSpecs
<1>1. Registered(c1)
  <2>1. Registered(few1)
    BY Shapes, RegisteredThree DEF DowngradeValues
  <2>2. \E S : fields1 \in Seq(S)
    BY TupleOfFour
  <2> HIDE DEF fields1, few1
  <2>3. Registered(Offs(fields1))
    BY <2>2, RegisteredMany
  <2>4. QED
    BY <2>1, <2>3, RegisteredConcat
<1>2. Registered(c2)
  <2>1. Registered(few2)
    BY Shapes, RegisteredSix
  <2>2. QED
    BY <2>1
<1>3. Registered(c3)
  <2>1. \E S : fields3 \in Seq(S)
    BY TupleOfSix
  <2> HIDE DEF fields3
  <2>2. Registered(Lowers(fields3, 2))
    BY <2>1, RegisteredMany
  <2>3. QED
    BY <2>2
<1> HIDE DEF c1, c2, c3
<1>4. Registered(s1.candidates) /\ Registered(s2.candidates) /\ Registered(s3.candidates)
  BY <1>1, <1>2, <1>3, SpecCandidates
<1> HIDE DEF s1, s2, s3
<1>5. /\ <<s1, s2, s3>> \in Seq({s1, s2, s3})
      /\ \A i \in DOMAIN <<s1, s2, s3>> : <<s1, s2, s3>>[i] \in {s1, s2, s3}
  OBVIOUS
<1>6. QED
  BY <1>0, <1>4, <1>5 DEF AllRegistered

LEMMA SpecsRegistered == \A spec \in Range(SafeSpecs) : Registered(spec.candidates)
<1>1. AllRegistered(SafeSpecs)
  <2>1. AllRegistered(HostSpecs \o OptionalSpecs)
    BY HostRegistered, OptionalRegistered, AllRegisteredConcat
  <2>2. AllRegistered((HostSpecs \o OptionalSpecs) \o ServiceSpecs)
    BY <2>1, ServiceRegistered, AllRegisteredConcat
  <2>3. AllRegistered(((HostSpecs \o OptionalSpecs) \o ServiceSpecs) \o LoadSpecs)
    BY <2>2, LoadRegistered, AllRegisteredConcat
  <2>4. QED
    BY <2>3, Zenon DEF SafeSpecs
<1>2. QED
  BY <1>1 DEF AllRegistered, Range

LEMMA SafeSpecOfFix ==
  ASSUME NEW fix \in SafeFixes
  PROVE  SpecOfFix(fix) \in Range(SafeSpecs) /\ SpecOfFix(fix).fix = fix
BY Zenon DEF SafeFixes, SpecOfFix

-----------------------------------------------------------------------------
(***************************************************************************)
(* What is written.                                                        *)
(***************************************************************************)

\* The two transcriptions of the rules agree on what the registry has.
LEMMA SameTransition ==
  ASSUME NEW c, IsCandidate(c), NEW old, IsValue(old), NEW port \in {"free", "taken"}
  PROVE  /\ Transition(c.rule, old, c.new, port) =
              RemoteTransition(c.rule, old, c.new, port = "free")
         /\ Transition(c.rule, old, c.new, port) \in {"no_op", "actionable", "unsafe"}
<1>1. CASE PyEqual(old, c.new)
  BY <1>1 DEF Transition, RemoteTransition
<1>2. CASE ~PyEqual(old, c.new)
  <2>1. CASE c = Off(c.field)
    <3>0. PICK f : c = Off(f)
      BY <2>1, Zenon
    <3>1. c.rule = "disable_bool" /\ c.new = Bool(FALSE)
      BY <3>0 DEF Off
    <3>2. CASE old = Bool(TRUE)
      BY <1>2, <3>1, <3>2 DEF Transition, RemoteTransition
    <3>3. CASE old # Bool(TRUE)
      BY <1>2, <3>1, <3>3 DEF Transition, RemoteTransition
    <3>4. QED
      BY <3>2, <3>3
  <2>2. ASSUME NEW n \in Nat, c = Lower(c.field, n)
        PROVE  /\ Transition(c.rule, old, c.new, port)
                    = RemoteTransition(c.rule, old, c.new, port = "free")
               /\ Transition(c.rule, old, c.new, port) \in {"no_op", "actionable", "unsafe"}
    <3>1. c.rule = "lower_int"
      BY <2>2 DEF Lower
    <3>2. CASE old.kind = "int" /\ c.new.kind = "int" /\ old.it > c.new.it
      BY <1>2, <3>1, <3>2 DEF Transition, RemoteTransition
    <3>3. CASE ~(old.kind = "int" /\ c.new.kind = "int" /\ old.it > c.new.it)
      BY <1>2, <3>1, <3>3 DEF Transition, RemoteTransition
    <3>4. QED
      BY <3>2, <3>3
  <2>3. ASSUME NEW s \in DowngradeValues, c = Degrade(c.field, s)
        PROVE  /\ Transition(c.rule, old, c.new, port)
                    = RemoteTransition(c.rule, old, c.new, port = "free")
               /\ Transition(c.rule, old, c.new, port) \in {"no_op", "actionable", "unsafe"}
    <3>1. c.rule = "safe_enum_downgrade"
      BY <2>3 DEF Degrade
    <3>2. CASE old.kind = "str" /\ c.new.kind = "str" /\ c.new.it \in DowngradeValues
      BY <1>2, <3>1, <3>2 DEF Transition, RemoteTransition
    <3>3. CASE ~(old.kind = "str" /\ c.new.kind = "str" /\ c.new.it \in DowngradeValues)
      BY <1>2, <3>1, <3>3 DEF Transition, RemoteTransition
    <3>4. QED
      BY <3>2, <3>3
  <2>4. CASE c = Port("metrics_port", 9101)
    <3>1. c.rule = "port_available" /\ c.new.kind = "int"
      BY <2>4 DEF Port, Num
    <3>2. CASE port = "free"
      BY <1>2, <3>1, <3>2 DEF Transition, RemoteTransition
    <3>3. CASE port = "taken"
      BY <1>2, <3>1, <3>3 DEF Transition, RemoteTransition
    <3>4. QED
      BY <3>2, <3>3
  <2>5. QED
    BY <2>1, <2>2, <2>3, <2>4 DEF IsCandidate
<1>3. QED
  BY <1>1, <1>2

\* The candidates whose field the file has.
There(spec, content) ==
    {k \in DOMAIN spec.candidates : spec.candidates[k].field \in DOMAIN content}

\* What the rule of the candidate k says.
Verdict(spec, content, port, k) ==
    Transition(spec.candidates[k].rule, content[spec.candidates[k].field],
               spec.candidates[k].new, port)

LEMMA PlannedReads ==
  ASSUME NEW spec, NEW world, world.reading = "read_ok"
  PROVE  /\ DOMAIN Planned(spec, world) = There(spec, world.content)
         /\ \A k \in There(spec, world.content) :
              Planned(spec, world)[k] = Verdict(spec, world.content, world.port, k)
<1>1. Planned(spec, world) = [k \in There(spec, world.content) |->
                                Verdict(spec, world.content, world.port, k)]
  BY DEF Planned, There, Verdict
<1>2. QED
  BY <1>1

\* What the local executor takes, without the record of a world.
LEMMA LocalChoiceReads ==
  ASSUME NEW spec, NEW content, NEW port,
         \A k \in There(spec, content) :
           Verdict(spec, content, port, k) \in {"no_op", "actionable", "unsafe"}
  PROVE  LET there == There(spec, content)
             act == {k \in there : Verdict(spec, content, port, k) = "actionable"}
         IN  LocalChoice(spec, content, port)
               = IF act # {} THEN FirstOf(act)
                 ELSE IF \E k \in there : Verdict(spec, content, port, k) = "no_op" THEN 0 ELSE -1
<1> DEFINE there == There(spec, content)
           act == {k \in there : Verdict(spec, content, port, k) = "actionable"}
           world == [reading |-> "read_ok", content |-> content, port |-> port]
           planned == Planned(spec, world)
<1>1. world.reading = "read_ok" /\ world.content = content /\ world.port = port
  OBVIOUS
<1> HIDE DEF world
<1>2. DOMAIN planned = there /\ \A k \in there : planned[k] = Verdict(spec, content, port, k)
  BY <1>1, PlannedReads
<1>3. LocalChoice(spec, content, port)
        = IF Actionable(planned) # {} THEN FirstOf(Actionable(planned))
          ELSE IF OfStatus(planned, "no_op") # {} THEN 0 ELSE -1
  BY Zenon DEF LocalChoice, world
<1> HIDE DEF planned, there
<1>4. Actionable(planned) = act
  BY <1>2 DEF Actionable, there
<1>5. OfStatus(planned, "no_op") # {} <=> \E k \in there : Verdict(spec, content, port, k) = "no_op"
  BY <1>2 DEF OfStatus
<1>6. QED
  BY <1>3, <1>4, <1>5 DEF there

LEMMA VerdictsAgree ==
  ASSUME NEW spec \in Range(SafeSpecs), NEW content, IsConfig(content),
         NEW port \in {"free", "taken"}, NEW k \in There(spec, content)
  PROVE  /\ Verdict(spec, content, port, k)
              = RemoteTransition(spec.candidates[k].rule, content[spec.candidates[k].field],
                                 spec.candidates[k].new, port = "free")
         /\ Verdict(spec, content, port, k) \in {"no_op", "actionable", "unsafe"}
         /\ k \in Nat /\ k > 0
         /\ IsCandidate(spec.candidates[k]) /\ IsValue(content[spec.candidates[k].field])
<1>1. k \in DOMAIN spec.candidates /\ spec.candidates[k].field \in DOMAIN content
  BY DEF There
<1>2. Registered(spec.candidates)
  BY SpecsRegistered
<1>3. IsCandidate(spec.candidates[k])
  BY <1>1, <1>2 DEF Registered
<1>4. IsValue(content[spec.candidates[k].field])
  BY <1>1 DEF IsConfig
<1>5. k \in Nat /\ k > 0
  <2>1. PICK S : spec.candidates \in Seq(S)
    BY <1>2 DEF Registered
  <2>2. QED
    BY <2>1, <1>1
<1>6. QED
  BY <1>3, <1>4, <1>5, SameTransition DEF Verdict

\* _update_first_safe_registry_field and the remote editor: the fix writes the same field of a
\* file wherever the file is.
THEOREM SameChoice ==
  ASSUME NEW spec \in Range(SafeSpecs), NEW content, IsConfig(content),
         NEW port \in {"free", "taken"}
  PROVE  LocalChoice(spec, content, port) = RemoteChoice(spec, content, port = "free")
<1> DEFINE there == There(spec, content)
           Says(k) == RemoteTransition(spec.candidates[k].rule, content[spec.candidates[k].field],
                                       spec.candidates[k].new, port = "free")
           act == {k \in there : Verdict(spec, content, port, k) = "actionable"}
           far == {k \in there : Says(k) = "actionable"}
<1>1. \A k \in there : /\ Verdict(spec, content, port, k) = Says(k)
                       /\ Verdict(spec, content, port, k) \in {"no_op", "actionable", "unsafe"}
  BY VerdictsAgree
<1>2. LocalChoice(spec, content, port)
        = IF act # {} THEN FirstOf(act)
          ELSE IF \E k \in there : Verdict(spec, content, port, k) = "no_op" THEN 0 ELSE -1
  BY <1>1, LocalChoiceReads
<1>3. RemoteChoice(spec, content, port = "free")
        = IF \E k \in there : Says(k) = "actionable" THEN FirstOf(far)
          ELSE IF \E k \in there : Says(k) = "no_op" THEN 0 ELSE -1
  BY Zenon DEF RemoteChoice, There
<1> HIDE DEF Says, there
<1>4. act = far
  BY <1>1
<1>5. QED
  BY <1>1, <1>2, <1>3, <1>4

\* What a positive choice is.
LEMMA ChoiceIsActionable ==
  ASSUME NEW spec \in Range(SafeSpecs), NEW content, IsConfig(content),
         NEW port \in {"free", "taken"}
  PROVE  LET k == LocalChoice(spec, content, port)
         IN  \/ k = 0 \/ k = -1
             \/ k \in There(spec, content) /\ Verdict(spec, content, port, k) = "actionable"
<1> DEFINE act == {k \in There(spec, content) : Verdict(spec, content, port, k) = "actionable"}
<1>1. \A k \in There(spec, content) :
        k \in Nat /\ Verdict(spec, content, port, k) \in {"no_op", "actionable", "unsafe"}
  BY VerdictsAgree
<1>2. LocalChoice(spec, content, port)
        = IF act # {} THEN FirstOf(act)
          ELSE IF \E k \in There(spec, content) : Verdict(spec, content, port, k) = "no_op"
               THEN 0 ELSE -1
  BY <1>1, LocalChoiceReads
<1>3. act # {} => FirstOf(act) \in act
  <2>1. act \in SUBSET Nat
    BY <1>1
  <2> HIDE DEF act
  <2>2. QED
    BY <2>1, FirstOfLeast
<1>4. QED
  BY <1>2, <1>3

\* The values a rule lets pass, by what the registry has.
LEMMA ActionableMeans ==
  ASSUME NEW c, IsCandidate(c), NEW old, IsValue(old), NEW port \in {"free", "taken"},
         Transition(c.rule, old, c.new, port) = "actionable"
  PROVE  /\ IsValue(c.new) /\ Degrades(c.field, old, c.new)
         /\ c.rule = "port_available" => port = "free"
<1>0. ~PyEqual(old, c.new)
  BY DEF Transition
<1>1. CASE c = Off(c.field)
  <2>0. PICK f : c = Off(f)
    BY <1>1, Zenon
  <2>1. c.rule = "disable_bool" /\ c.new = Bool(FALSE)
    BY <2>0 DEF Off
  <2>2. old = Bool(TRUE)
    BY <1>0, <2>1 DEF Transition
  <2>3. IsValue(Bool(FALSE))
    BY DEF Bool, IsValue
  <2>4. Degrades(c.field, old, c.new)
    BY <2>1, <2>2 DEF Degrades
  <2>5. c.rule # "port_available"
    BY <2>1
  <2> QED
    BY <2>1, <2>3, <2>4, <2>5
<1>2. ASSUME NEW n \in Nat, c = Lower(c.field, n)
      PROVE  /\ IsValue(c.new) /\ Degrades(c.field, old, c.new)
             /\ c.rule # "port_available"
  <2>1. c.rule = "lower_int" /\ c.new = Num(n)
    BY <1>2 DEF Lower
  <2>2. old.kind = "int" /\ c.new.kind = "int" /\ old.it > c.new.it
    BY <1>0, <2>1 DEF Transition
  <2>3. old.it \in Int /\ c.new.it = n
    BY <2>1, <2>2 DEF IsValue, Num
  <2>4. IsValue(Num(n))
    BY DEF Num, IsValue
  <2>5. Degrades(c.field, old, c.new)
    BY <2>2, <2>3 DEF Degrades
  <2>6. c.rule # "port_available"
    BY <2>1
  <2> QED
    BY <2>1, <2>4, <2>5, <2>6
<1>3. ASSUME NEW s \in DowngradeValues, c = Degrade(c.field, s)
      PROVE  /\ IsValue(c.new) /\ Degrades(c.field, old, c.new)
             /\ c.rule # "port_available"
  <2>1. c.new = Str(s) /\ c.rule = "safe_enum_downgrade"
    BY <1>3 DEF Degrade
  <2>2. c.new.kind = "str" /\ c.new.it = s
    BY <2>1 DEF Str
  <2>3. IsValue(c.new) /\ Degrades(c.field, old, c.new)
    BY <2>2 DEF IsValue, Degrades
  <2>4. c.rule # "port_available"
    BY <2>1
  <2>5. QED
    BY <2>3, <2>4
<1>4. CASE c = Port("metrics_port", 9101)
  <2>1. c.new = Num(9101)
    BY <1>4 DEF Port
  <2>2. c.rule = "port_available"
    BY <1>4 DEF Port
  <2>3. c.field = "metrics_port"
    BY <1>4 DEF Port
  <2>4. c.new.kind = "int" /\ IsValue(c.new)
    BY <2>1 DEF Num, IsValue
  <2>5. port = "free"
    BY <1>0, <2>2 DEF Transition
  <2>6. Degrades(c.field, old, c.new)
    BY <2>3, <2>4, Zenon DEF Degrades
  <2>7. QED
    BY <2>4, <2>5, <2>6
<1>5. QED
  BY <1>1, <1>2, <1>3, <1>4 DEF IsCandidate

\* What the executor writes is one field the file has; its new value is smaller, off, a fallback
\* or the port of the metrics; and the fix that was written is not written again.
THEOREM ChoiceIsSafe ==
  ASSUME NEW spec \in Range(SafeSpecs), NEW content, IsConfig(content),
         NEW port \in {"free", "taken"}, LocalChoice(spec, content, port) > 0
  PROVE  LET k == LocalChoice(spec, content, port)
             field == spec.candidates[k].field
             written == WrittenBy(spec, content, k)
         IN  /\ field \in DOMAIN content
             /\ IsConfig(written) /\ DOMAIN written = DOMAIN content
             /\ \A f \in DOMAIN content \ {field} : written[f] = content[f]
             /\ Degrades(field, content[field], written[field])
             /\ LocalChoice(spec, written, port) # k
<1> DEFINE k == LocalChoice(spec, content, port)
           c == spec.candidates[k]
           written == WrittenBy(spec, content, k)
<1>1. k \in There(spec, content) /\ Verdict(spec, content, port, k) = "actionable"
  BY ChoiceIsActionable
<1> HIDE DEF k
<1>2. IsCandidate(c) /\ IsValue(content[c.field]) /\ k > 0
  BY <1>1, VerdictsAgree
<1>3. c.field \in DOMAIN content
  BY <1>1 DEF There
<1>4. Transition(c.rule, content[c.field], c.new, port) = "actionable"
  BY <1>1 DEF Verdict
<1>5. /\ IsValue(c.new)
      /\ Degrades(c.field, content[c.field], c.new)
  BY <1>2, <1>4, ActionableMeans
<1>6. written = [content EXCEPT ![c.field] = c.new]
  BY <1>2 DEF WrittenBy
<1>7. /\ IsConfig(written) /\ DOMAIN written = DOMAIN content
      /\ written[c.field] = c.new
      /\ \A f \in DOMAIN content \ {c.field} : written[f] = content[f]
  BY <1>3, <1>5, <1>6 DEF IsConfig
<1>8. Verdict(spec, written, port, k) = "no_op"
  <2>1. PyEqual(c.new, c.new)
    BY DEF PyEqual
  <2> HIDE DEF written
  <2>2. QED
    BY <1>7, <2>1 DEF Verdict, Transition
<1>9. LocalChoice(spec, written, port) # k
  <2> HIDE DEF written
  <2>1. LocalChoice(spec, written, port) = k => Verdict(spec, written, port, k) = "actionable"
    BY <1>2, <1>7, ChoiceIsActionable
  <2>2. QED
    BY <1>8, <2>1
<1>10. QED
  BY <1>3, <1>5, <1>7, <1>9 DEF k

\* Where the gate says go for a file it could read, the executor finds something to write in it.
THEOREM GateFindsAnEdit ==
  ASSUME NEW project, NEW e, NEW world, NEW cool, Gate(project, e, world, cool).go,
         world.reading = "read_ok", IsConfig(world.content), world.port \in {"free", "taken"}
  PROVE  LocalChoice(SpecOfFix(Gate(project, e, world, cool).fix), world.content, world.port) > 0
<1> DEFINE spec == SpecOfFix(Gate(project, e, world, cool).fix)
           there == There(spec, world.content)
           planned == Planned(spec, world)
           act == {k \in there : Verdict(spec, world.content, world.port, k) = "actionable"}
<1>1. spec \in Range(SafeSpecs) /\ Cardinality(Actionable(planned)) > 0
  BY GateChecked, SafeSpecOfFix
<1> HIDE DEF spec
<1>2. \A k \in there :
        /\ k \in Nat /\ k > 0
        /\ Verdict(spec, world.content, world.port, k) \in {"no_op", "actionable", "unsafe"}
  BY <1>1, VerdictsAgree
<1>3. DOMAIN planned = there
      /\ \A k \in there : planned[k] = Verdict(spec, world.content, world.port, k)
  BY PlannedReads
<1>4. Actionable(planned) = act
  <2> HIDE DEF there, planned
  <2>1. QED
    BY <1>2, <1>3 DEF Actionable
<1>5. act # {}
  BY <1>1, <1>4, FS_EmptySet
<1>6. LocalChoice(spec, world.content, world.port) = FirstOf(act)
  BY <1>2, <1>5, LocalChoiceReads
<1>7. FirstOf(act) \in act
  <2>1. act \in SUBSET Nat
    BY <1>2
  <2> HIDE DEF act
  <2>2. QED
    BY <1>5, <2>1, FirstOfLeast
<1>8. QED
  BY <1>2, <1>6, <1>7 DEF spec

-----------------------------------------------------------------------------
(***************************************************************************)
(* A finite set with a strict total order has a sorting, and every         *)
(* sorting has all of its elements.                                        *)
(***************************************************************************)
Strict(S, above) ==
  /\ above \in SUBSET (S \X S)
  /\ \A x \in S : <<x, x>> \notin above
  /\ \A x, y, z \in S : <<x, y>> \in above /\ <<y, z>> \in above => <<x, z>> \in above

Sorting(s, S, above) ==
  /\ s \in [1..Cardinality(S) -> S]
  /\ \A i, j \in 1..Cardinality(S) : i < j => <<s[i], s[j]>> \in above

LEMMA SortingExists ==
  ASSUME NEW S, IsFiniteSet(S), NEW above, Strict(S, above),
         \A x, y \in S : x = y \/ <<x, y>> \in above \/ <<y, x>> \in above
  PROVE  \E s : Sorting(s, S, above)
<1> DEFINE n == Cardinality(S)
           over(x) == {y \in S : <<y, x>> \in above}
           place == [x \in S |-> Cardinality(over(x)) + 1]
<1>1. n \in Nat
  BY FS_CardinalityType
<1>2. \A x \in S : over(x) \in SUBSET S /\ x \notin over(x)
  <2>1. \A x \in S : <<x, x>> \notin above
    BY Zenon DEF Strict
  <2>2. \A x \in S : x \notin over(x)
    BY <2>1, Zenon
  <2>3. \A x \in S : over(x) \in SUBSET S
    OBVIOUS
  <2> HIDE DEF over
  <2>4. QED
    BY <2>2, <2>3
<1>3. \A x, y \in S : <<x, y>> \in above => over(x) \in SUBSET over(y) /\ over(x) # over(y)
  <2>1. SUFFICES ASSUME NEW x \in S, NEW y \in S, <<x, y>> \in above
                 PROVE  over(x) \in SUBSET over(y) /\ over(x) # over(y)
    OBVIOUS
  <2>2. \A z \in over(x) : z \in over(y)
    BY <2>1 DEF Strict
  <2>3. x \in over(y) /\ x \notin over(x)
    BY <1>2, <2>1
  <2> HIDE DEF over
  <2>4. QED
    BY <2>2, <2>3
<1> HIDE DEF over
<1>4. \A x \in S : IsFiniteSet(over(x)) /\ Cardinality(over(x)) \in Nat /\ Cardinality(over(x)) < n
  <2>1. TAKE x \in S
  <2>2. IsFiniteSet(over(x)) /\ Cardinality(over(x)) <= n /\ (n = Cardinality(over(x)) => S = over(x))
    BY <1>2, FS_Subset
  <2>3. S # over(x)
    BY <1>2
  <2>4. Cardinality(over(x)) \in Nat
    BY <2>2, FS_CardinalityType
  <2> HIDE DEF n
  <2>5. QED
    BY <1>1, <2>2, <2>3, <2>4
<1>5. \A x, y \in S : <<x, y>> \in above => place[x] < place[y]
  <2>1. SUFFICES ASSUME NEW x \in S, NEW y \in S, <<x, y>> \in above
                 PROVE  Cardinality(over(x)) < Cardinality(over(y))
    BY <1>4
  <2>2. over(x) \in SUBSET over(y) /\ over(x) # over(y)
    BY <1>3, <2>1
  <2>3. Cardinality(over(x)) <= Cardinality(over(y)) /\ Cardinality(over(x)) # Cardinality(over(y))
    BY <1>4, <2>2, FS_Subset
  <2>4. QED
    BY <1>4, <2>3
<1>6. place \in [S -> 1..n]
  <2> HIDE DEF n
  <2>1. \A x \in S : Cardinality(over(x)) + 1 \in 1..n
    BY <1>1, <1>4
  <2>2. QED
    BY <2>1
<1> HIDE DEF place
<1>7. \A x \in S : place[x] \in Int
  BY <1>1, <1>6
<1>8. \A x, y \in S : place[x] = place[y] => x = y
  <2>1. SUFFICES ASSUME NEW x \in S, NEW y \in S, place[x] = place[y], x # y PROVE FALSE
    OBVIOUS
  <2>2. <<x, y>> \in above \/ <<y, x>> \in above
    BY <2>1
  <2>3. place[x] < place[y] \/ place[y] < place[x]
    BY <1>5, <2>1, <2>2
  <2>4. place[x] \in Int /\ place[y] \in Int
    BY <1>7
  <2>5. QED
    BY <2>1, <2>3, <2>4
<1>9. place \in Injection(S, 1..n)
  BY <1>6, <1>8 DEF Injection, IsInjective
<1>10. IsFiniteSet(1..n) /\ Cardinality(1..n) = n
  BY <1>1, FS_Interval
<1>11. place \in Surjection(S, 1..n)
  BY <1>9, <1>10, FS_Injection
<1>12. \A k \in 1..n : \E x \in S : place[x] = k
  BY <1>11 DEF Surjection
<1> DEFINE s == [k \in 1..n |-> CHOOSE x \in S : place[x] = k]
<1>13. \A k \in 1..n : s[k] \in S /\ place[s[k]] = k
  BY <1>12
<1>14. s \in [1..n -> S]
  BY <1>13
<1> HIDE DEF s
<1>15. ASSUME NEW i \in 1..n, NEW j \in 1..n, i < j PROVE <<s[i], s[j]>> \in above
  <2>1. s[i] \in S /\ s[j] \in S /\ place[s[i]] = i /\ place[s[j]] = j
    BY <1>13
  <2>2. i \in Int /\ j \in Int
    BY <1>1
  <2>3. s[i] # s[j]
    BY <1>15, <2>1, <2>2
  <2>4. ~(<<s[j], s[i]>> \in above)
    <3>1. SUFFICES ASSUME <<s[j], s[i]>> \in above PROVE FALSE
      OBVIOUS
    <3>2. place[s[j]] < place[s[i]]
      BY <1>5, <2>1, <3>1
    <3>3. QED
      BY <1>15, <2>1, <2>2, <3>2
  <2>5. QED
    BY <2>1, <2>3, <2>4
<1>16. Sorting(s, S, above)
  BY <1>14, <1>15 DEF Sorting
<1>17. QED
  BY <1>16

LEMMA SortingIsFull ==
  ASSUME NEW S, IsFiniteSet(S), NEW above, Strict(S, above), NEW s, Sorting(s, S, above)
  PROVE  /\ s \in Seq(S) /\ Len(s) = Cardinality(S)
         /\ \A x \in S : \E i \in 1..Len(s) : s[i] = x
         /\ \A i, j \in 1..Len(s) : s[i] = s[j] => i = j
<1> DEFINE n == Cardinality(S)
<1>1. n \in Nat
  BY FS_CardinalityType
<1>2. s \in [1..n -> S] /\ \A i, j \in 1..n : i < j => <<s[i], s[j]>> \in above
  BY DEF Sorting
<1> HIDE DEF n
<1>3. s \in Seq(S) /\ Len(s) = n
  BY <1>1, <1>2
<1>4. ASSUME NEW i \in 1..n, NEW j \in 1..n, s[i] = s[j] PROVE i = j
  <2>1. i \in Int /\ j \in Int /\ s[i] \in S
    BY <1>1, <1>2
  <2>2. <<s[i], s[i]>> \notin above
    BY <2>1 DEF Strict
  <2>3. ~(i < j) /\ ~(j < i)
    BY <1>2, <1>4, <2>2
  <2>4. QED
    BY <2>1, <2>3
<1>5. IsFiniteSet(1..n) /\ Cardinality(1..n) = n
  BY <1>1, FS_Interval
<1>6. s \in Injection(1..n, S)
  BY <1>2, <1>4 DEF Injection, IsInjective
<1>7. s \in Surjection(1..n, S)
  BY <1>5, <1>6, FS_Injection DEF n
<1>8. \A x \in S : \E i \in 1..n : s[i] = x
  BY <1>7 DEF Surjection
<1>9. QED
  BY <1>3, <1>4, <1>8 DEF n

-----------------------------------------------------------------------------
(***************************************************************************)
(* Loops: the folds of the library, as steps.                              *)
(***************************************************************************)
\* What holds before a loop and is kept by each of its steps holds after it.
LEMMA UptoInduction ==
  ASSUME NEW n \in Nat, NEW Good, 0 \in Good, \A k \in 1..n : k - 1 \in Good => k \in Good
  PROVE  0..n \subseteq Good
<1> DEFINE Bad == {k \in 0..n : k \notin Good}
<1>1. SUFFICES ASSUME Bad # {} PROVE FALSE
  OBVIOUS
<1>2. Bad \in SUBSET Nat
  OBVIOUS
<1>3. PICK m \in Bad : \A k \in Bad : m <= k
  BY <1>1, <1>2, LeastNumber
<1>4. m # 0 /\ m \in 1..n /\ m - 1 \in 0..n
  BY <1>3
<1>5. m - 1 \notin Bad
  BY <1>3, <1>4
<1>6. QED
  BY <1>3, <1>4, <1>5

Largest(S) == CHOOSE x \in S : \A y \in S : x >= y

LEMMA LargestIs ==
  ASSUME NEW S, NEW m \in S, S \subseteq Int, \A y \in S : m >= y
  PROVE  Largest(S) = m
<1>1. /\ Largest(S) \in S /\ \A y \in S : Largest(S) >= y
  BY DEF Largest
<1>2. Largest(S) >= m /\ m >= Largest(S) /\ Largest(S) \in Int /\ m \in Int
  BY <1>1
<1>3. QED
  BY <1>2

LEMMA SomeLargest ==
  ASSUME NEW n \in Nat, NEW S \in SUBSET (1..n), S # {}
  PROVE  Largest(S) \in S
<1> DEFINE Bounds == {b \in 0..n : \A y \in S : y <= b}
<1>1. n \in Bounds /\ Bounds \in SUBSET Nat
  OBVIOUS
<1>2. PICK m \in Bounds : \A b \in Bounds : m <= b
  BY <1>1, LeastNumber
<1>3. m \in S
  <2>1. SUFFICES ASSUME m \notin S PROVE FALSE
    OBVIOUS
  <2>2. m # 0 /\ m \in Nat /\ m <= n
    <3>1. PICK y : y \in S
      OBVIOUS
    <3>2. y >= 1 /\ y <= m /\ y \in Int /\ m \in Nat /\ m <= n
      BY <1>2, <3>1
    <3>3. QED
      BY <3>1, <3>2
  <2>3. \A y \in S : y \in Int /\ y <= m /\ y # m
    BY <1>2, <2>1
  <2>4. m - 1 \in Bounds
    BY <2>2, <2>3
  <2>5. QED
    BY <1>2, <2>2, <2>4
<1>4. \A y \in S : m >= y
  BY <1>2
<1>5. S \subseteq Int
  OBVIOUS
<1>6. QED
  BY <1>3, <1>4, <1>5, LargestIs

\* The function a fold is made of: what the steps so far make of the first value.
Folds(g, n, first, next) ==
  \A S \in SUBSET (1..n) :
    g[S] = IF S = {} THEN first ELSE next[<<g[S \ {Largest(S)}], Largest(S)>>]

LEMMA FoldExists ==
  ASSUME NEW Y, NEW first \in Y, NEW n \in Nat, NEW next \in [Y \X (1..n) -> Y]
  PROVE  \E g \in [SUBSET (1..n) -> Y] : Folds(g, n, first, next)
<1> DEFINE Good == {k \in 0..n : \E g \in [SUBSET (1..k) -> Y] : Folds(g, k, first, next)}
<1>1. 0 \in Good
  <2> DEFINE g == [S \in SUBSET (1..0) |-> first]
  <2>1. g \in [SUBSET (1..0) -> Y]
    OBVIOUS
  <2>2. \A S \in SUBSET (1..0) : S = {} /\ g[S] = first
    OBVIOUS
  <2> HIDE DEF g
  <2>3. Folds(g, 0, first, next)
    BY <2>2 DEF Folds
  <2>4. 0 \in 0..n
    OBVIOUS
  <2>5. QED
    BY <2>1, <2>3, <2>4, Zenon
<1>2. ASSUME NEW k \in 1..n, k - 1 \in Good
      PROVE  k \in Good
  <2>1. PICK h \in [SUBSET (1..(k - 1)) -> Y] : Folds(h, k - 1, first, next)
    BY <1>2
  <2> DEFINE g == [S \in SUBSET (1..k) |-> IF k \in S THEN next[<<h[S \ {k}], k>>] ELSE h[S]]
  <2>2. ASSUME NEW S \in SUBSET (1..k)
        PROVE  /\ k \in S => S \ {k} \in SUBSET (1..(k - 1)) /\ Largest(S) = k
               /\ k \notin S => S \in SUBSET (1..(k - 1))
    <3>1. \A y \in S : y \in Int /\ y <= k
      OBVIOUS
    <3>2. k \in S => Largest(S) = k
      BY <3>1, LargestIs
    <3>3. QED
      BY <3>1, <3>2
  <2>3. \A S \in SUBSET (1..k) : g[S] \in Y
    BY <2>2
  <2>4. g \in [SUBSET (1..k) -> Y]
    BY <2>3
  <2>5. \A S \in SUBSET (1..k) : g[S] = IF k \in S THEN next[<<h[S \ {k}], k>>] ELSE h[S]
    OBVIOUS
  <2> HIDE DEF g
  <2>6. ASSUME NEW S \in SUBSET (1..k)
        PROVE  g[S] = IF S = {} THEN first ELSE next[<<g[S \ {Largest(S)}], Largest(S)>>]
    <3>1. CASE k \in S
      <4>1. S \ {k} \in SUBSET (1..k) /\ k \notin S \ {k}
        OBVIOUS
      <4>2. g[S \ {k}] = h[S \ {k}]
        BY <2>5, <4>1
      <4>3. QED
        BY <2>2, <2>5, <3>1, <4>2
    <3>2. CASE k \notin S /\ S # {}
      <4>1. S \in SUBSET (1..(k - 1))
        BY <2>2, <3>2
      <4>2. h[S] = next[<<h[S \ {Largest(S)}], Largest(S)>>]
        BY <2>1, <3>2, <4>1 DEF Folds
      <4>3. S \ {Largest(S)} \in SUBSET (1..k) /\ k \notin S \ {Largest(S)}
        BY <3>2
      <4>4. g[S \ {Largest(S)}] = h[S \ {Largest(S)}] /\ g[S] = h[S]
        BY <2>5, <3>2, <4>3
      <4>5. QED
        BY <3>2, <4>2, <4>4
    <3>3. CASE S = {}
      <4>1. {} \in SUBSET (1..(k - 1)) /\ k \notin {}
        OBVIOUS
      <4>2. h[{}] = first
        BY <2>1, <4>1 DEF Folds
      <4>3. QED
        BY <2>5, <3>3, <4>2
    <3>4. QED
      BY <3>1, <3>2, <3>3
  <2>7. Folds(g, k, first, next)
    BY <2>6 DEF Folds
  <2>8. QED
    BY <2>4, <2>7
<1> HIDE DEF Good
<1>3. n \in Good
  BY <1>1, <1>2, UptoInduction
<1>4. QED
  BY <1>3 DEF Good

LEMMA LargestUpto ==
  ASSUME NEW k \in Nat, k > 0
  PROVE  Largest(1..k) = k /\ (1..k) \ {k} = 1..(k - 1)
<1>1. k \in 1..k /\ 1..k \subseteq Int /\ \A y \in 1..k : k >= y
  OBVIOUS
<1>2. Largest(1..k) = k
  BY <1>1, LargestIs
<1>3. QED
  BY <1>2

\* Without repetition: the same elements, each of them once, and the first one first.
NoRepeats(s) == \A i, j \in DOMAIN s : s[i] = s[j] => i = j

LEMMA AppendNoRepeats ==
  ASSUME NEW A, NEW s \in Seq(A), NEW x \in A
  PROVE  /\ Append(s, x) \in Seq(A)
         /\ Range(Append(s, x)) = Range(s) \cup {x}
         /\ NoRepeats(s) /\ x \notin Range(s) => NoRepeats(Append(s, x))
         /\ s # <<>> => Append(s, x)[1] = s[1]
         /\ s = <<>> => Append(s, x)[1] = x
         /\ Append(s, x) # <<>>
<1> DEFINE t == Append(s, x)
<1>1. /\ t \in Seq(A) /\ Len(s) \in Nat /\ DOMAIN s = 1..Len(s) /\ DOMAIN t = 1..(Len(s) + 1)
      /\ \A i \in 1..Len(s) : t[i] = s[i]
      /\ t[Len(s) + 1] = x
      /\ t # <<>>
  OBVIOUS
<1>2. (s = <<>> <=> Len(s) = 0) /\ (Len(s) # 0 => 1 \in 1..Len(s))
  <2>1. s = <<>> <=> Len(s) = 0
    BY EmptySeq
  <2>2. QED
    BY <1>1, <2>1
<1> HIDE DEF t
<1>3. \A i \in 1..(Len(s) + 1) : i \in 1..Len(s) \/ i = Len(s) + 1
  BY <1>1
<1>4. Len(s) + 1 \in 1..(Len(s) + 1) /\ \A i \in 1..Len(s) : i \in 1..(Len(s) + 1)
  BY <1>1
<1>5. Range(t) = Range(s) \cup {x}
  BY <1>1, <1>3, <1>4 DEF Range
<1>6. ASSUME NoRepeats(s), x \notin Range(s), NEW i \in DOMAIN t, NEW j \in DOMAIN t, t[i] = t[j]
      PROVE  i = j
  <2>1. \A k \in 1..Len(s) : t[k] # x
    BY <1>1, <1>6 DEF Range
  <2>2. CASE i \in 1..Len(s) /\ j \in 1..Len(s)
    BY <1>1, <1>6, <2>2 DEF NoRepeats
  <2>3. QED
    BY <1>1, <1>3, <1>6, <2>1, <2>2
<1>7. s # <<>> => t[1] = s[1]
  BY <1>1, <1>2
<1>8. s = <<>> => t[1] = x
  BY <1>1, <1>2
<1>9. QED
  BY <1>1, <1>5, <1>6, <1>7, <1>8 DEF t, NoRepeats

-----------------------------------------------------------------------------
(***************************************************************************)
(* The registry has one safe fix for an event.                             *)
(***************************************************************************)
Named(specs, events) ==
  /\ \E S : specs \in Seq(S)
  /\ \A i \in DOMAIN specs : specs[i].event \in events
  /\ \A i, j \in DOMAIN specs : specs[i].event = specs[j].event => i = j

LEMMA NamedConcat ==
  ASSUME NEW cs, NEW ds, NEW E, NEW F, Named(cs, E), Named(ds, F), E \cap F = {}
  PROVE  Named(cs \o ds, E \cup F)
<1>1. PICK S : cs \in Seq(S)
  BY DEF Named
<1>2. PICK T : ds \in Seq(T)
  BY DEF Named
<1>3. cs \o ds \in Seq(S \cup T)
  BY <1>1, <1>2, ConcatElements
<1> DEFINE both == cs \o ds
           Left(k) == k \in DOMAIN cs /\ both[k] = cs[k]
           Right(k) == k - Len(cs) \in DOMAIN ds /\ both[k] = ds[k - Len(cs)]
<1>4. \A k \in DOMAIN both : Left(k) \/ Right(k)
  BY <1>1, <1>2, ConcatElements
<1>5. \A k \in DOMAIN both : k \in Int /\ Len(cs) \in Int
  BY <1>1, <1>3
<1> HIDE DEF both
<1>6. ASSUME NEW i \in DOMAIN both, NEW j \in DOMAIN both, both[i].event = both[j].event
      PROVE  i = j
  <2>1. CASE Left(i) /\ Left(j)
    BY <1>6, <2>1 DEF Named
  <2>2. CASE Right(i) /\ Right(j)
    BY <1>5, <1>6, <2>2 DEF Named
  <2>3. CASE Left(i) /\ Right(j)
    BY <1>6, <2>3 DEF Named
  <2>4. CASE Right(i) /\ Left(j)
    BY <1>6, <2>4 DEF Named
  <2>5. QED
    BY <1>4, <2>1, <2>2, <2>3, <2>4
<1>7. \A k \in DOMAIN both : both[k].event \in E \cup F
  BY <1>4 DEF Named
<1>8. QED
  BY <1>3, <1>6, <1>7 DEF both, Named

LEMMA HostEvents == Named(HostSpecs, {"network_port", "gpu_oom"})
<1> DEFINE c1 == <<Port("metrics_port", 9101)>>
           c2 == Lowers(<<"batch_size", "train_batch_size", "per_device_train_batch_size",
                 "samples_per_gpu", "training.batch_size", "model.batch_size">>, 4)
           s1 == SafeSpec("network_port", "network_port", "fix-network-1", c1)
           s2 == SafeSpec("gpu_oom", "gpu", "fix-gpu-1", c2)
           specs == <<s1, s2>>
<1>1. HostSpecs = specs
  BY Zenon DEF HostSpecs
<1> HIDE DEF c1, c2
<1>2. /\ s1.event = "network_port"
      /\ s2.event = "gpu_oom"
  BY DEF SafeSpec
<1> HIDE DEF s1, s2
<1>3. /\ specs \in Seq({s1, s2})
      /\ DOMAIN specs = 1..2
      /\ specs[1] = s1
      /\ specs[2] = s2
  OBVIOUS
<1> HIDE DEF specs
<1>4. \A i \in DOMAIN specs : i \in {1, 2}
  BY <1>3
<1>5. QED
  BY SMTT(30), <1>1, <1>2, <1>3, <1>4 DEF Named

LEMMA OptionalEvents ==
  Named(OptionalSpecs, {"cache_write_failed", "optional_dependency_missing",
                        "optional_integration_failed"})
<1> DEFINE c1 == Offs(<<"cache_enabled", "feature_cache_enabled", "cache.write_enabled",
                 "simulate_cache_write_failed", "simulate_disk_full">>)
           c2 == Offs(<<"optional_dependency_enabled",
                 "optional_dependencies.internal_risk_sdk.enabled",
                 "plugins.internal_risk_sdk.enabled", "risk_sdk_enabled",
                 "simulate_python_env_mismatch">>)
           c3 == Offs(<<"optional_webhook_enabled", "risk_sdk_enabled",
                 "enrichment_client_enabled", "optional_integrations.risk_sdk.enabled",
                 "optional_integrations.enrichment.enabled",
                 "simulate_optional_integration_failed">>)
           s1 == SafeSpec("cache_write_failed", "cache", "fix-cache-1", c1)
           s2 == SafeSpec("optional_dependency_missing", "optional_dependency", "fix-optional-dep-1", c2)
           s3 == SafeSpec("optional_integration_failed", "optional_integration", "fix-optional-integration-1", c3)
           specs == <<s1, s2, s3>>
<1>1. OptionalSpecs = specs
  BY Zenon DEF OptionalSpecs
<1> HIDE DEF c1, c2, c3
<1>2. /\ s1.event = "cache_write_failed"
      /\ s2.event = "optional_dependency_missing"
      /\ s3.event = "optional_integration_failed"
  BY DEF SafeSpec
<1> HIDE DEF s1, s2, s3
<1>3. /\ specs \in Seq({s1, s2, s3})
      /\ DOMAIN specs = 1..3
      /\ specs[1] = s1
      /\ specs[2] = s2
      /\ specs[3] = s3
  OBVIOUS
<1> HIDE DEF specs
<1>4. \A i \in DOMAIN specs : i \in {1, 2, 3}
  BY <1>3
<1>5. QED
  BY <1>1, <1>2, <1>3, <1>4 DEF Named

LEMMA ServiceEvents ==
  Named(ServiceSpecs, {"optional_cache_backend_failed", "optional_service_unavailable",
                     "notification_sink_failed"})
<1> DEFINE c1 == <<Degrade("cache.backend", "memory"), Degrade("cache.mode", "memory")>> \o
                 Offs(<<"cache.redis_enabled", "cache.write_enabled",
                 "feature_cache_enabled", "simulate_optional_cache_backend_failed">>)
           c2 == Offs(<<"optional_services.enrichment.enabled",
                 "optional_services.recommendation.enabled",
                 "optional_services.risk_scoring.enabled", "enrichment_enabled",
                 "recommendation_enabled", "external_risk_scoring_enabled",
                 "simulate_optional_service_unavailable">>)
           c3 == Offs(<<"notification.webhook_enabled", "notifications.webhook.enabled",
                 "notification.remote_sink_enabled", "notification_sink.webhook_enabled",
                 "simulate_notification_sink_failed">>)
           s1 == SafeSpec("optional_cache_backend_failed", "optional_cache_backend", "fix-cache-backend-1", c1)
           s2 == SafeSpec("optional_service_unavailable", "optional_service", "fix-optional-service-1", c2)
           s3 == SafeSpec("notification_sink_failed", "notification_sink", "fix-notification-sink-1", c3)
           specs == <<s1, s2, s3>>
<1>1. ServiceSpecs = specs
  BY Zenon DEF ServiceSpecs
<1> HIDE DEF c1, c2, c3
<1>2. /\ s1.event = "optional_cache_backend_failed"
      /\ s2.event = "optional_service_unavailable"
      /\ s3.event = "notification_sink_failed"
  BY DEF SafeSpec
<1> HIDE DEF s1, s2, s3
<1>3. /\ specs \in Seq({s1, s2, s3})
      /\ DOMAIN specs = 1..3
      /\ specs[1] = s1
      /\ specs[2] = s2
      /\ specs[3] = s3
  OBVIOUS
<1> HIDE DEF specs
<1>4. \A i \in DOMAIN specs : i \in {1, 2, 3}
  BY <1>3
<1>5. QED
  BY <1>1, <1>2, <1>3, <1>4 DEF Named

LEMMA LoadEvents ==
  Named(LoadSpecs, {"observability_export_failed", "queue_backpressure",
                  "worker_overload"})
<1> DEFINE c1 == <<Degrade("observability.exporter_mode", "local"),
                 Degrade("observability.metrics_sink", "file"),
                 Degrade("observability.tracing_sink", "console")>> \o
                 Offs(<<"observability.remote_exporter_enabled",
                 "metrics.remote_exporter_enabled", "tracing.remote_exporter_enabled",
                 "simulate_observability_export_failed">>)
           c2 == <<Lower("prefetch_count", 2), Lower("max_inflight", 10),
                 Lower("consumer_workers", 2), Lower("queue.prefetch_count", 2),
                 Lower("queue.max_inflight", 10), Lower("queue.consumer_workers", 2)>>
           c3 == Lowers(<<"worker_concurrency", "workers", "max_workers", "consumer_workers",
                 "worker.concurrency", "server.workers">>, 2)
           s1 == SafeSpec("observability_export_failed", "observability_export", "fix-observability-export-1", c1)
           s2 == SafeSpec("queue_backpressure", "queue_backpressure", "fix-queue-backpressure-1", c2)
           s3 == SafeSpec("worker_overload", "worker_overload", "fix-worker-1", c3)
           specs == <<s1, s2, s3>>
<1>1. LoadSpecs = specs
  BY Zenon DEF LoadSpecs
<1> HIDE DEF c1, c2, c3
<1>2. /\ s1.event = "observability_export_failed"
      /\ s2.event = "queue_backpressure"
      /\ s3.event = "worker_overload"
  BY DEF SafeSpec
<1> HIDE DEF s1, s2, s3
<1>3. /\ specs \in Seq({s1, s2, s3})
      /\ DOMAIN specs = 1..3
      /\ specs[1] = s1
      /\ specs[2] = s2
      /\ specs[3] = s3
  OBVIOUS
<1> HIDE DEF specs
<1>4. \A i \in DOMAIN specs : i \in {1, 2, 3}
  BY <1>3
<1>5. QED
  BY <1>1, <1>2, <1>3, <1>4 DEF Named

LEMMA EventsOfSpecsDiffer ==
  \A i, j \in DOMAIN SafeSpecs : SafeSpecs[i].event = SafeSpecs[j].event => i = j
<1> DEFINE E1 == {"network_port", "gpu_oom"}
           E2 == {"cache_write_failed", "optional_dependency_missing", "optional_integration_failed"}
           E3 == {"optional_cache_backend_failed", "optional_service_unavailable",
                  "notification_sink_failed"}
           E4 == {"observability_export_failed", "queue_backpressure", "worker_overload"}
<1>1. /\ E1 \cap E2 = {} /\ (E1 \cup E2) \cap E3 = {} /\ ((E1 \cup E2) \cup E3) \cap E4 = {}
      /\ Named(HostSpecs, E1) /\ Named(OptionalSpecs, E2)
      /\ Named(ServiceSpecs, E3) /\ Named(LoadSpecs, E4)
  BY HostEvents, OptionalEvents, ServiceEvents, LoadEvents
<1> HIDE DEF E1, E2, E3, E4
<1>2. Named(HostSpecs \o OptionalSpecs, E1 \cup E2)
  BY <1>1, NamedConcat
<1>3. Named((HostSpecs \o OptionalSpecs) \o ServiceSpecs, (E1 \cup E2) \cup E3)
  BY <1>1, <1>2, NamedConcat
<1>4. Named(((HostSpecs \o OptionalSpecs) \o ServiceSpecs) \o LoadSpecs,
            ((E1 \cup E2) \cup E3) \cup E4)
  BY <1>1, <1>3, NamedConcat
<1>5. QED
  BY <1>4, Zenon DEF SafeSpecs, Named

LEMMA OneFixForAnEvent ==
  \A s, t \in Range(SafeSpecs) : s.event = t.event => s = t
BY EventsOfSpecsDiffer DEF Range

-----------------------------------------------------------------------------
(***************************************************************************)
(* What the validator of the tables has checked when it finds nothing.     *)
(***************************************************************************)
\* What no issue of the validator says of its parts.
LEMMA NothingFound ==
  ASSUME NEW s, Governance(s) = {}
  PROVE  /\ SafeRegistryShape(s.safe) = {}
         /\ DomainRegistryShape(s.domains, s.safe) = {}
         /\ DetectorCoverage(s.domains, s.detector) = {}
         /\ s.safeEvents = Range(Column(s.safe, "event"))
         /\ s.manualEvents = EventsOf(s.domains, {"manual_escalation"})
         /\ RemediationMapping(s.domains, s.remediation) = {}
         /\ RuntimePolicies(s.domains, s.runtime) = {}
         /\ PrecheckSpecs(s.safe, s.precheck) = {}
         /\ s.local = Range(FixByEvent(s.safe))
         /\ s.remote = Range(FixByEvent(s.safe))
<1> DEFINE fixes == Range(FixByEvent(s.safe))
           detected == Range(Column(s.domains, "event")) \ SyntheticEvents
           a1 == Unless(s.safe # <<>>, "safe_registry_empty")
           a2 == SafeRegistryShape(s.safe)
           a3 == DomainRegistryShape(s.domains, s.safe)
           a4 == DetectorCoverage(s.domains, s.detector)
           a5 == UnlessSame(s.safeEvents, Range(Column(s.safe, "event")), "policy_safe_event_types")
           a6 == UnlessSame(s.manualEvents, EventsOf(s.domains, {"manual_escalation"}),
                            "policy_manual_event_types")
           a7 == ManualConstants(s.domains, s.manualConstants, s.manualIssues)
           a8 == RemediationMapping(s.domains, s.remediation)
           a9 == RuntimePolicies(s.domains, s.runtime)
           a10 == PrecheckSpecs(s.safe, s.precheck)
           a11 == GuardedCandidates(s.safe, s.guarded)
           a12 == UnlessSame(s.local, fixes, "local_executor_supported_fix_ids")
           a13 == UnlessSame(s.remote, fixes, "remote_executor_supported_fix_ids")
           a14 == Unless(detected \subseteq s.regression, "regression_expected_case_missing")
           a15 == Unless(Cardinality(Range(Column(s.safe, "issue"))) = Len(s.safe),
                         "registry_duplicate_issue_type_mapping")
<1>1. s.domains # <<>>
  <2>1. "registry_empty" \in {"registry_empty"}
    OBVIOUS
  <2>2. s.domains = <<>> => Governance(s) = {"registry_empty"}
    BY Zenon DEF Governance
  <2>3. QED
    BY <2>1, <2>2
<1>2. Governance(s) = a1 \cup a2 \cup a3 \cup a4 \cup a5 \cup a6 \cup a7 \cup a8 \cup a9
                        \cup a10 \cup a11 \cup a12 \cup a13 \cup a14 \cup a15
  BY <1>1, Zenon DEF Governance
<1> HIDE DEF a1, a2, a3, a4, a5, a6, a7, a8, a9, a10, a11, a12, a13, a14, a15
<1>3. a2 = {} /\ a3 = {} /\ a4 = {} /\ a5 = {} /\ a6 = {}
  BY <1>2
<1>4. a8 = {} /\ a9 = {} /\ a10 = {} /\ a12 = {} /\ a13 = {}
  BY <1>2
<1>5. s.safeEvents = Range(Column(s.safe, "event"))
  BY <1>3 DEF a5, UnlessSame, Unless
<1>6. s.manualEvents = EventsOf(s.domains, {"manual_escalation"})
  BY <1>3 DEF a6, UnlessSame, Unless
<1>7. s.local = fixes /\ s.remote = fixes
  BY <1>4 DEF a12, a13, UnlessSame, Unless
<1>8. QED
  BY <1>3, <1>4, <1>5, <1>6, <1>7 DEF a2, a3, a4, a8, a9, a10

\* A sequence of specs, and the fix of an event.
LEMMA FixOfSpec ==
  ASSUME NEW S, NEW specs \in Seq(S), Distinct(Column(specs, "event")), NEW i \in DOMAIN specs
  PROVE  /\ specs[i].event \in DOMAIN FixByEvent(specs)
         /\ FixByEvent(specs)[specs[i].event] = specs[i].fix
<1> DEFINE event == specs[i].event
           IsLast(k) == /\ specs[k].event = event
                      /\ \A j \in DOMAIN specs : specs[j].event = event => j <= k
           last == CHOOSE k \in DOMAIN specs : IsLast(k)
<1>1. /\ DOMAIN Column(specs, "event") = DOMAIN specs
      /\ \A k \in DOMAIN specs : Column(specs, "event")[k] = specs[k].event
  BY DEF Column
<1>2. \A j \in DOMAIN specs : specs[j].event = event => j = i
  BY <1>1 DEF Distinct
<1>3. event \in Range(Column(specs, "event"))
  BY <1>1 DEF Range
<1>4. FixByEvent(specs)[event] = specs[last].fix /\ event \in DOMAIN FixByEvent(specs)
  BY <1>3 DEF FixByEvent
<1>5. last = i
  <2>1. i \in Nat /\ i <= i
    OBVIOUS
  <2>2. IsLast(i)
    BY <1>2, <2>1
  <2>3. last \in DOMAIN specs /\ IsLast(last)
    BY <2>2
  <2>4. QED
    BY <1>2, <2>3
<1>6. QED
  BY <1>4, <1>5

LEMMA EventsHaveFixes ==
  ASSUME NEW S, NEW specs \in Seq(S), NEW event \in DOMAIN FixByEvent(specs)
  PROVE  \E i \in DOMAIN specs : specs[i].event = event
<1>1. DOMAIN FixByEvent(specs) = Range(Column(specs, "event"))
  BY DEF FixByEvent
<1>2. QED
  BY <1>1 DEF Range, Column

\* The rows of the safe domains are made of the safe specs (registry.py, RECOVERY_DOMAIN_SPECS).
SafeRowsAreSpecs(s) ==
  \A d \in Range(s.domains), spec \in Range(s.safe) :
    d.layer = "safe_auto_recover" /\ d.event = spec.event => d.issue = spec.issue

\* A name that is missing.
Nameless(name) == name = ""

\* What the validator has checked of a safe row and of the policy of its event.
LEMMA SafeRowChecked ==
  ASSUME NEW s, Governance(s) = {}, NEW d \in Range(s.domains), d.event \in DOMAIN s.runtime,
         s.runtime[d.event].layer = "safe_auto_recover"
  PROVE  LET ep == s.runtime[d.event]
         IN  /\ d.layer = "safe_auto_recover"
             /\ ep.fixes = <<d.fix>> /\ ep.precheck /\ ep.rollback /\ ~ep.confirm
             /\ d.event \in DOMAIN FixByEvent(s.safe)
             /\ d.fix = FixByEvent(s.safe)[d.event]
             /\ ~Nameless(d.fix) => /\ d.event \in DOMAIN s.remediation
                                 /\ s.remediation[d.event] = d.fix
             /\ d.event \notin SyntheticEvents => s.detector[d.event] = d.issue
             /\ d.event \notin s.manualEvents
<1> DEFINE ep == s.runtime[d.event]
<1>1. /\ DomainRegistryShape(s.domains, s.safe) = {}
      /\ DetectorCoverage(s.domains, s.detector) = {}
      /\ s.manualEvents = EventsOf(s.domains, {"manual_escalation"})
      /\ RemediationMapping(s.domains, s.remediation) = {}
      /\ RuntimePolicies(s.domains, s.runtime) = {}
  BY NothingFound
<1>2. EventPolicyIssues(d, ep) = {}
  <2> DEFINE found(x) == IF x.event \notin DOMAIN s.runtime THEN {"runtime_policy_missing"}
                         ELSE EventPolicyIssues(x, s.runtime[x.event])
  <2>1. UNION {found(x) : x \in Range(s.domains)} = {}
    BY <1>1, Zenon DEF RuntimePolicies, All
  <2>2. found(d) = {}
    BY <2>1
  <2>3. QED
    BY <2>2
<1>3. /\ ep.layer = d.layer /\ ep.fixes = (IF d.layer = "safe_auto_recover" THEN <<d.fix>> ELSE <<>>)
      /\ d.layer = "safe_auto_recover" => ep.precheck
      /\ d.layer = "safe_auto_recover" => ep.rollback
      /\ d.layer = "safe_auto_recover" => ~ep.confirm
  BY <1>2 DEF EventPolicyIssues, UnlessSame, Unless
<1>4. DomainIssues(d, FixByEvent(s.safe)) = {}
  BY <1>1 DEF DomainRegistryShape, All
<1>5. d.layer = "safe_auto_recover" => /\ d.event \in DOMAIN FixByEvent(s.safe)
                                       /\ d.fix = FixByEvent(s.safe)[d.event]
  <2> DEFINE fixes == FixByEvent(s.safe)
             safe == d.layer = "safe_auto_recover"
             known == d.event \in DOMAIN fixes
             u1 == Unless(safe => known, "domain_registry_safe_without_safe_spec")
             u2 == Unless(safe /\ known => d.fix = fixes[d.event], "domain_registry_safe_fix_mismatch")
  <2>1. u1 \subseteq DomainIssues(d, fixes) /\ u2 \subseteq DomainIssues(d, fixes)
    BY Zenon DEF DomainIssues
  <2>2. u1 = {} /\ u2 = {}
    BY <1>4, <2>1
  <2>3. QED
    BY <2>2 DEF Unless
<1>6. ~Nameless(d.fix) => d.event \in DOMAIN s.remediation /\ s.remediation[d.event] = d.fix
  <2> DEFINE found(x) == Unless(x.event \in DOMAIN s.remediation /\ s.remediation[x.event] = x.fix,
                                "remediation_mapping_mismatch")
  <2>1. UNION {found(x) : x \in {y \in Range(s.domains) : ~Nameless(y.fix)}} = {}
    BY <1>1, Zenon DEF RemediationMapping, All, Nameless
  <2>2. ~Nameless(d.fix) => found(d) = {}
    BY <2>1
  <2>3. QED
    BY <2>2 DEF Unless
<1>7. d.event \notin SyntheticEvents => s.detector[d.event] = d.issue
  <2>1. d.event \in Range(Column(s.domains, "event"))
    BY DEF Range, Column
  <2> DEFINE expected == Range(Column(s.domains, "event")) \ SyntheticEvents
             found(x) == Unless(x.event \in DOMAIN s.detector, "detector_missing_event_type")
                         \cup Unless(x.event \in DOMAIN s.detector => s.detector[x.event] = x.issue,
                                     "detector_issue_type_mismatch")
  <2>2. UNION {found(x) : x \in {r \in Range(s.domains) : r.event \in expected}} = {}
    BY <1>1, Zenon DEF DetectorCoverage, All
  <2>3. d.event \notin SyntheticEvents => d.event \in expected
    BY <2>1
  <2> HIDE DEF expected
  <2>4. d.event \notin SyntheticEvents => found(d) = {}
    BY <2>2, <2>3
  <2>5. QED
    BY <2>4 DEF Unless
<1>8. d.event \notin s.manualEvents
  <2>1. Distinct(Column(s.domains, "event"))
    BY <1>1 DEF DomainRegistryShape, Unless
  <2>2. SUFFICES ASSUME NEW r \in Range(s.domains), r.layer = "manual_escalation", r.event = d.event
                 PROVE  r = d
    BY <1>1, <1>3, <2>2 DEF EventsOf
  <2>3. QED
    BY <2>1, <2>2 DEF Distinct, Column, Range
<1>9. QED
  BY <1>3, <1>5, <1>6, <1>7, <1>8

\* Of a known event, only a fix that is on its list is allowed.
LEMMA AllowedIsListed ==
  ASSUME NEW policy, NEW event, NEW confidence, NEW fix,
         Resolve(policy, event, confidence, fix).allowed
  PROVE  ~Nameless(fix) /\ fix \in Range(policy.events[event].fixes)
<1> DEFINE known == event \in DOMAIN policy.events
           ep == policy.events[event]
           forbidden == policy.forbidden \cup (IF known THEN ep.forbidden ELSE {})
           named == ~Nameless(fix)
           listed == Range(ep.fixes)
           yes == [layer |-> "safe_auto_recover", allowed |-> TRUE, fix |-> fix, reason |-> "",
                   dry |-> EffectiveDry(policy, ep), operator |-> ep.confirm]
<1>1. Resolve(policy, event, confidence, fix)
        = CASE named /\ fix \in forbidden -> Refusal("disabled", "candidate_fix_id_forbidden")
            [] ~known /\ fix \notin forbidden -> Refusal(policy.unknown, "unknown_event_type")
            [] OTHER ->
                  IF ep.layer # "safe_auto_recover" THEN Refusal(ep.layer, "layer")
                  ELSE IF confidence < ep.confidence THEN Refusal(ep.fallback, "confidence")
                  ELSE IF ~named \/ fix \notin listed THEN Refusal(ep.fallback, "fix")
                  ELSE IF policy.allow # {} /\ fix \notin policy.allow
                       THEN Refusal(ep.fallback, "allowlist")
                  ELSE yes
  BY Zenon DEF Resolve, Nameless
<1>2. \A layer, reason : ~Refusal(layer, reason).allowed
  BY Zenon DEF Refusal
<1> HIDE DEF known, forbidden, named, listed, yes
<1>3. named /\ fix \in listed
  BY <1>1, <1>2
<1>4. QED
  BY <1>3 DEF named, listed

-----------------------------------------------------------------------------
(***************************************************************************)
(* The rules of the detector have different events.                        *)
(***************************************************************************)
LEMMA NamedFive ==
  ASSUME NEW s1, NEW s2, NEW s3, NEW s4, NEW s5,
         s1.event \notin {s2.event, s3.event, s4.event, s5.event},
         s2.event \notin {s3.event, s4.event, s5.event},
         s3.event \notin {s4.event, s5.event},
         s4.event \notin {s5.event}
  PROVE  Named(<<s1, s2, s3, s4, s5>>, {s1.event, s2.event, s3.event, s4.event, s5.event})
<1> DEFINE specs == <<s1, s2, s3, s4, s5>>
<1>1. /\ specs \in Seq({s1, s2, s3, s4, s5}) /\ DOMAIN specs = 1..5
      /\ specs[1] = s1 /\ specs[2] = s2 /\ specs[3] = s3 /\ specs[4] = s4 /\ specs[5] = s5
  OBVIOUS
<1> HIDE DEF specs
<1>2. \A i \in DOMAIN specs : i \in {1, 2, 3, 4, 5}
  BY <1>1
<1>3. \A i \in DOMAIN specs : specs[i].event \in {s1.event, s2.event, s3.event, s4.event, s5.event}
  BY <1>1, <1>2
<1>4. \A i, j \in DOMAIN specs : specs[i].event = specs[j].event => i = j
  BY <1>1, <1>2
<1>5. QED
  BY <1>1, <1>3, <1>4 DEF Named, specs

LEMMA NamedSeven ==
  ASSUME NEW s1, NEW s2, NEW s3, NEW s4, NEW s5, NEW s6, NEW s7,
         s1.event \notin {s2.event, s3.event, s4.event, s5.event, s6.event, s7.event},
         s2.event \notin {s3.event, s4.event, s5.event, s6.event, s7.event},
         s3.event \notin {s4.event, s5.event, s6.event, s7.event},
         s4.event \notin {s5.event, s6.event, s7.event},
         s5.event \notin {s6.event, s7.event},
         s6.event \notin {s7.event}
  PROVE  Named(<<s1, s2, s3, s4, s5, s6, s7>>, {s1.event, s2.event, s3.event, s4.event, s5.event, s6.event, s7.event})
<1> DEFINE specs == <<s1, s2, s3, s4, s5, s6, s7>>
<1>1. /\ specs \in Seq({s1, s2, s3, s4, s5, s6, s7}) /\ DOMAIN specs = 1..7
      /\ specs[1] = s1 /\ specs[2] = s2 /\ specs[3] = s3 /\ specs[4] = s4 /\ specs[5] = s5 /\ specs[6] = s6 /\ specs[7] = s7
  OBVIOUS
<1> HIDE DEF specs
<1>2. \A i \in DOMAIN specs : i \in {1, 2, 3, 4, 5, 6, 7}
  BY <1>1
<1>3. \A i \in DOMAIN specs : specs[i].event \in {s1.event, s2.event, s3.event, s4.event, s5.event, s6.event, s7.event}
  BY <1>1, <1>2
<1>4. \A i, j \in DOMAIN specs : specs[i].event = specs[j].event => i = j
  BY <1>1, <1>2
<1>5. QED
  BY <1>1, <1>3, <1>4 DEF Named, specs

LEMMA StorageRulesEvents ==
  Named(Detector!StorageRules,
        {"gpu_oom", "cache_write_failed", "optional_cache_backend_failed", "disk_full",
         "network_port"})
<1>1. PICK p1, p2, p3, p4, p5 :
        Detector!StorageRules = <<
          Detector!Rule("gpu_oom", "gpu", "high", p1),
          Detector!Rule("cache_write_failed", "cache", "medium", p2),
          Detector!Rule("optional_cache_backend_failed", "optional_cache_backend", "medium", p3),
          Detector!Rule("disk_full", "disk", "high", p4),
          Detector!Rule("network_port", "network_port", "medium", p5) >>
  BY Zenon DEF Detector!StorageRules
<1> DEFINE s1 == Detector!Rule("gpu_oom", "gpu", "high", p1)
           s2 == Detector!Rule("cache_write_failed", "cache", "medium", p2)
           s3 == Detector!Rule("optional_cache_backend_failed", "optional_cache_backend", "medium", p3)
           s4 == Detector!Rule("disk_full", "disk", "high", p4)
           s5 == Detector!Rule("network_port", "network_port", "medium", p5)
<1>2. /\ s1.event = "gpu_oom"
      /\ s2.event = "cache_write_failed"
      /\ s3.event = "optional_cache_backend_failed"
      /\ s4.event = "disk_full"
      /\ s5.event = "network_port"
  BY DEF Detector!Rule
<1> HIDE DEF s1, s2, s3, s4, s5
<1>3. Named(<<s1, s2, s3, s4, s5>>, {s1.event, s2.event, s3.event, s4.event, s5.event})
  BY <1>2, NamedFive
<1>4. QED
  BY <1>1, <1>2, <1>3 DEF s1, s2, s3, s4, s5

LEMMA OptionalRulesEvents ==
  Named(Detector!OptionalRules,
        {"optional_dependency_missing", "optional_integration_failed",
         "notification_sink_failed", "optional_service_unavailable", "python_env"})
<1>1. PICK p1, p2, p3, p4, p5 :
        Detector!OptionalRules = <<
          Detector!Rule("optional_dependency_missing", "optional_dependency", "medium", p1),
          Detector!Rule("optional_integration_failed", "optional_integration", "medium", p2),
          Detector!Rule("notification_sink_failed", "notification_sink", "medium", p3),
          Detector!Rule("optional_service_unavailable", "optional_service", "medium", p4),
          Detector!Rule("python_env", "python_env", "medium", p5) >>
  BY Zenon DEF Detector!OptionalRules
<1> DEFINE s1 == Detector!Rule("optional_dependency_missing", "optional_dependency", "medium", p1)
           s2 == Detector!Rule("optional_integration_failed", "optional_integration", "medium", p2)
           s3 == Detector!Rule("notification_sink_failed", "notification_sink", "medium", p3)
           s4 == Detector!Rule("optional_service_unavailable", "optional_service", "medium", p4)
           s5 == Detector!Rule("python_env", "python_env", "medium", p5)
<1>2. /\ s1.event = "optional_dependency_missing"
      /\ s2.event = "optional_integration_failed"
      /\ s3.event = "notification_sink_failed"
      /\ s4.event = "optional_service_unavailable"
      /\ s5.event = "python_env"
  BY DEF Detector!Rule
<1> HIDE DEF s1, s2, s3, s4, s5
<1>3. Named(<<s1, s2, s3, s4, s5>>, {s1.event, s2.event, s3.event, s4.event, s5.event})
  BY <1>2, NamedFive
<1>4. QED
  BY <1>1, <1>2, <1>3 DEF s1, s2, s3, s4, s5

LEMMA LoadRulesEvents ==
  Named(Detector!LoadRules,
        {"queue_backpressure", "observability_export_failed", "worker_overload", "slurm",
         "process_crash", "container_k8s", "host_resource"})
<1>1. PICK p1, p2, p3, p4, p5, p6, p7 :
        Detector!LoadRules = <<
          Detector!Rule("queue_backpressure", "queue_backpressure", "medium", p1),
          Detector!Rule("observability_export_failed", "observability_export", "medium", p2),
          Detector!Rule("worker_overload", "worker_overload", "medium", p3),
          Detector!Rule("slurm", "slurm", "high", p4),
          Detector!Rule("process_crash", "process", "high", p5),
          Detector!Rule("container_k8s", "container_k8s", "high", p6),
          Detector!Rule("host_resource", "host_resource", "high", p7) >>
  BY Zenon DEF Detector!LoadRules
<1> DEFINE s1 == Detector!Rule("queue_backpressure", "queue_backpressure", "medium", p1)
           s2 == Detector!Rule("observability_export_failed", "observability_export", "medium", p2)
           s3 == Detector!Rule("worker_overload", "worker_overload", "medium", p3)
           s4 == Detector!Rule("slurm", "slurm", "high", p4)
           s5 == Detector!Rule("process_crash", "process", "high", p5)
           s6 == Detector!Rule("container_k8s", "container_k8s", "high", p6)
           s7 == Detector!Rule("host_resource", "host_resource", "high", p7)
<1>2. /\ s1.event = "queue_backpressure"
      /\ s2.event = "observability_export_failed"
      /\ s3.event = "worker_overload"
      /\ s4.event = "slurm"
      /\ s5.event = "process_crash"
      /\ s6.event = "container_k8s"
      /\ s7.event = "host_resource"
  BY DEF Detector!Rule
<1> HIDE DEF s1, s2, s3, s4, s5, s6, s7
<1>3. Named(<<s1, s2, s3, s4, s5, s6, s7>>, {s1.event, s2.event, s3.event, s4.event, s5.event, s6.event, s7.event})
  BY <1>2, NamedSeven
<1>4. QED
  BY <1>1, <1>2, <1>3 DEF s1, s2, s3, s4, s5, s6, s7

LEMMA ServiceRulesEvents ==
  Named(Detector!ServiceRules,
        {"network_connectivity", "dependency_service", "process_kill", "config_path",
         "model_path"})
<1>1. PICK p1, p2, p3, p4, p5 :
        Detector!ServiceRules = <<
          Detector!Rule("network_connectivity", "network_connectivity", "medium", p1),
          Detector!Rule("dependency_service", "dependency_service", "high", p2),
          Detector!Rule("process_kill", "process", "high", p3),
          Detector!Rule("config_path", "config_path", "medium", p4),
          Detector!Rule("model_path", "model_path", "medium", p5) >>
  BY Zenon DEF Detector!ServiceRules
<1> DEFINE s1 == Detector!Rule("network_connectivity", "network_connectivity", "medium", p1)
           s2 == Detector!Rule("dependency_service", "dependency_service", "high", p2)
           s3 == Detector!Rule("process_kill", "process", "high", p3)
           s4 == Detector!Rule("config_path", "config_path", "medium", p4)
           s5 == Detector!Rule("model_path", "model_path", "medium", p5)
<1>2. /\ s1.event = "network_connectivity"
      /\ s2.event = "dependency_service"
      /\ s3.event = "process_kill"
      /\ s4.event = "config_path"
      /\ s5.event = "model_path"
  BY DEF Detector!Rule
<1> HIDE DEF s1, s2, s3, s4, s5
<1>3. Named(<<s1, s2, s3, s4, s5>>, {s1.event, s2.event, s3.event, s4.event, s5.event})
  BY <1>2, NamedFive
<1>4. QED
  BY <1>1, <1>2, <1>3 DEF s1, s2, s3, s4, s5

LEMMA PersonRulesEvents ==
  Named(Detector!PersonRules,
        {"sudo_required", "config_error", "auth_cert", "permission_denied", "traceback"})
<1>1. PICK p1, p2, p3, p4, p5 :
        Detector!PersonRules = <<
          Detector!Rule("sudo_required", "system", "high", p1),
          Detector!Rule("config_error", "config", "high", p2),
          Detector!Rule("auth_cert", "auth_cert", "high", p3),
          Detector!Rule("permission_denied", "permission", "high", p4),
          Detector!Rule("traceback", "log", "medium", p5) >>
  BY Zenon DEF Detector!PersonRules
<1> DEFINE s1 == Detector!Rule("sudo_required", "system", "high", p1)
           s2 == Detector!Rule("config_error", "config", "high", p2)
           s3 == Detector!Rule("auth_cert", "auth_cert", "high", p3)
           s4 == Detector!Rule("permission_denied", "permission", "high", p4)
           s5 == Detector!Rule("traceback", "log", "medium", p5)
<1>2. /\ s1.event = "sudo_required"
      /\ s2.event = "config_error"
      /\ s3.event = "auth_cert"
      /\ s4.event = "permission_denied"
      /\ s5.event = "traceback"
  BY DEF Detector!Rule
<1> HIDE DEF s1, s2, s3, s4, s5
<1>3. Named(<<s1, s2, s3, s4, s5>>, {s1.event, s2.event, s3.event, s4.event, s5.event})
  BY <1>2, NamedFive
<1>4. QED
  BY <1>1, <1>2, <1>3 DEF s1, s2, s3, s4, s5

\* RULES: a sequence of rules, no two with the same event.
LEMMA RulesAreNamed == \E events : Named(Detector!RULES, events)
<1> DEFINE E1 == {"gpu_oom", "cache_write_failed", "optional_cache_backend_failed", "disk_full",
                  "network_port"}
           E2 == {"optional_dependency_missing", "optional_integration_failed",
                  "notification_sink_failed", "optional_service_unavailable", "python_env"}
           E3 == {"queue_backpressure", "observability_export_failed", "worker_overload", "slurm",
                  "process_crash", "container_k8s", "host_resource"}
           E4 == {"network_connectivity", "dependency_service", "process_kill", "config_path",
                  "model_path"}
           E5 == {"sudo_required", "config_error", "auth_cert", "permission_denied", "traceback"}
<1>1. /\ Named(Detector!StorageRules, E1) /\ Named(Detector!OptionalRules, E2)
      /\ Named(Detector!LoadRules, E3) /\ Named(Detector!ServiceRules, E4)
      /\ Named(Detector!PersonRules, E5)
  BY StorageRulesEvents, OptionalRulesEvents, LoadRulesEvents, ServiceRulesEvents, PersonRulesEvents
<1>2. /\ E1 \cap E2 = {} /\ (E1 \cup E2) \cap E3 = {} /\ (E1 \cup E2 \cup E3) \cap E4 = {}
      /\ (E1 \cup E2 \cup E3 \cup E4) \cap E5 = {}
  OBVIOUS
<1> DEFINE r1 == Detector!StorageRules
           r2 == Detector!OptionalRules
           r3 == Detector!LoadRules
           r4 == Detector!ServiceRules
           r5 == Detector!PersonRules
<1> HIDE DEF E1, E2, E3, E4, E5, r1, r2, r3, r4, r5
<1>3. Named(r1 \o r2, E1 \cup E2)
  BY <1>1, <1>2, NamedConcat DEF r1, r2
<1>4. Named((r1 \o r2) \o r3, (E1 \cup E2) \cup E3)
  BY <1>1, <1>2, <1>3, NamedConcat DEF r3
<1>5. Named(((r1 \o r2) \o r3) \o r4, (E1 \cup E2 \cup E3) \cup E4)
  BY <1>1, <1>2, <1>4, NamedConcat DEF r4
<1>6. Named((((r1 \o r2) \o r3) \o r4) \o r5, (E1 \cup E2 \cup E3 \cup E4) \cup E5)
  BY <1>1, <1>2, <1>5, NamedConcat DEF r5
<1>7. Detector!RULES = (((r1 \o r2) \o r3) \o r4) \o r5
  BY Zenon DEF Detector!RULES, r1, r2, r3, r4, r5
<1>8. QED
  BY <1>6, <1>7, Zenon

-----------------------------------------------------------------------------
(***************************************************************************)
(* From the lines a rule matches to its blocks.                            *)
(***************************************************************************)
IsWindow(lines) ==
  /\ \E S : lines \in Seq(S)
  /\ \A n \in DOMAIN lines : lines[n].marked => lines[n].id # Detector!NoId

\* What Blocks does with line n.
BlockStep(blocks, n, matched, lines) ==
  LET marker == Detector!Marker(lines[n])
      fresh == [lines |-> <<n>>, marker |-> marker]
      open == Detector!Last(blocks)
      nearby == n - Detector!Last(open.lines) <= Detector!BLOCK_GAP_LINES
      changed == marker # Detector!NoId /\ open.marker # Detector!NoId /\ marker # open.marker
  IN  IF n \notin matched THEN blocks
      ELSE IF blocks = <<>> THEN <<fresh>>
      ELSE IF nearby /\ ~changed
           THEN Detector!Front(blocks) \o <<Detector!AppendToBlock(open, n, marker)>>
           ELSE Append(blocks, fresh)

Markers(lines) == {Detector!Marker(lines[n]) : n \in DOMAIN lines} \cup {Detector!NoId}

BlocksUpto(n, lines) == [lines : Seq(1..n), marker : Markers(lines)]

\* Line k is one more of the last block.
Longer(c, b, k, marker) ==
  /\ c.lines = Append(b.lines, k)
  /\ c.marker = IF b.marker = Detector!NoId THEN marker ELSE b.marker
  /\ marker = Detector!NoId \/ b.marker = Detector!NoId \/ marker = b.marker

Joined(new, old, k, marker) ==
  /\ Len(old) # 0 /\ Len(new) = Len(old)
  /\ \A i \in 1..Len(old) : i # Len(old) => new[i] = old[i]
  /\ Longer(new[Len(old)], old[Len(old)], k, marker)

\* A line may belong to no block, join the last block, or be the first one of the next.
LEMMA BlockStepIs ==
  ASSUME NEW S, NEW lines \in Seq(S), NEW matched, NEW k \in DOMAIN lines,
         NEW blocks \in Seq(BlocksUpto(Len(lines), lines))
  PROVE  LET marker == Detector!Marker(lines[k])
             next == BlockStep(blocks, k, matched, lines)
         IN  /\ next \in Seq(BlocksUpto(Len(lines), lines))
             /\ \/ k \notin matched /\ next = blocks
                \/ k \in matched /\ Joined(next, blocks, k, marker)
                \/ k \in matched /\ next = Append(blocks, [lines |-> <<k>>, marker |-> marker])
<1> DEFINE n == Len(lines)
           marker == Detector!Marker(lines[k])
           fresh == [lines |-> <<k>>, marker |-> marker]
           open == Detector!Last(blocks)
           longer == Detector!AppendToBlock(open, k, marker)
           joined == Detector!Front(blocks) \o <<longer>>
           next == BlockStep(blocks, k, matched, lines)
           B == BlocksUpto(n, lines)
<1>1. n \in Nat /\ k \in 1..n
  OBVIOUS
<1>2. marker \in Markers(lines)
  BY DEF Markers
<1> HIDE DEF n, marker
<1>3. fresh \in B
  <2>1. <<k>> \in Seq(1..n)
    BY <1>1
  <2>2. QED
    BY <1>2, <2>1 DEF BlocksUpto
<1>4. \/ k \notin matched /\ next = blocks
      \/ k \in matched /\ blocks = <<>> /\ next = <<fresh>>
      \/ k \in matched /\ blocks # <<>> /\ next = Append(blocks, fresh)
      \/ /\ k \in matched /\ blocks # <<>> /\ next = joined
         /\ marker = Detector!NoId \/ open.marker = Detector!NoId \/ marker = open.marker
  BY Zenon DEF BlockStep, marker
<1>5. CASE k \notin matched /\ next = blocks
  BY <1>5 DEF n, marker
<1>6. CASE k \in matched /\ blocks = <<>> /\ next = <<fresh>>
  <2>1. <<fresh>> = Append(<<>>, fresh)
    OBVIOUS
  <2>2. <<fresh>> \in Seq(B)
    BY <1>3
  <2> HIDE DEF fresh, next, B
  <2>3. QED
    BY <1>6, <2>1, <2>2 DEF n, marker, fresh, next, B
<1>7. CASE k \in matched /\ blocks # <<>> /\ next = Append(blocks, fresh)
  <2> HIDE DEF fresh, next
  <2>1. Append(blocks, fresh) \in Seq(B)
    BY <1>3 DEF n
  <2> HIDE DEF B
  <2>2. QED
    BY <1>7, <2>1 DEF n, marker, fresh, next, B
<1>8. CASE /\ k \in matched /\ blocks # <<>> /\ next = joined
           /\ marker = Detector!NoId \/ open.marker = Detector!NoId \/ marker = open.marker
  <2> HIDE DEF next
  <2>1. /\ Len(blocks) \in Nat /\ Len(blocks) # 0 /\ blocks \in Seq(B)
        /\ \A i \in 1..Len(blocks) : blocks[i] \in B
    BY <1>8, EmptySeq DEF n
  <2>2. open \in B /\ open = blocks[Len(blocks)]
    BY <2>1 DEF Detector!Last
  <2> HIDE DEF open
  <2>3. open.lines \in Seq(1..n) /\ open.marker \in Markers(lines)
    BY <2>2 DEF BlocksUpto
  <2>4. /\ longer.lines = Append(open.lines, k)
        /\ longer.marker = IF open.marker = Detector!NoId THEN marker ELSE open.marker
        /\ longer = [lines |-> longer.lines, marker |-> longer.marker]
    <3> DEFINE a == Append(open.lines, k)
               m == IF open.marker = Detector!NoId THEN marker ELSE open.marker
    <3>1. longer = [open EXCEPT !.lines = a, !.marker = m]
      BY Zenon DEF Detector!AppendToBlock
    <3>2. open = [lines |-> open.lines, marker |-> open.marker]
      BY <2>2 DEF BlocksUpto
    <3> HIDE DEF a, m, longer
    <3>3. longer = [lines |-> a, marker |-> m]
      BY <3>1, <3>2
    <3>4. longer.lines = a /\ longer.marker = m
      BY <3>3
    <3>5. QED
      BY <3>3, <3>4 DEF a, m
  <2> HIDE DEF longer
  <2>5. longer \in B
    <3>1. longer.lines \in Seq(1..n)
      BY <1>1, <2>3, <2>4
    <3>2. longer.marker \in Markers(lines)
      BY <1>2, <2>3, <2>4
    <3>3. QED
      BY <2>4, <3>1, <3>2 DEF BlocksUpto
  <2> HIDE DEF B
  <2>6. /\ joined \in Seq(B) /\ Len(joined) = Len(blocks)
        /\ \A i \in 1..Len(blocks) : i # Len(blocks) => joined[i] = blocks[i]
        /\ joined[Len(blocks)] = longer
    <3> DEFINE front == Detector!Front(blocks)
    <3>1. /\ front \in Seq(B) /\ Len(front) = Len(blocks) - 1
          /\ \A i \in 1..(Len(blocks) - 1) : front[i] = blocks[i]
      <4>1. front = SubSeq(blocks, 1, Len(blocks) - 1)
        BY DEF Detector!Front
      <4>2. Len(blocks) - 1 \in Nat
        BY <2>1
      <4> HIDE DEF front
      <4> DEFINE m == Len(blocks) - 1
      <4>3. 1 \in Int /\ m \in Nat /\ \A i \in 1..m : blocks[i] \in B
        BY <2>1
      <4>4. front = SubSeq(blocks, 1, m)
        BY <4>1
      <4> HIDE DEF m, front
      <4>5. front \in Seq(B)
        BY <4>3, <4>4, SubSeqProperties
      <4>6. Len(front) = IF 1 <= m THEN m - 1 + 1 ELSE 0
        BY <4>3, <4>4, SubSeqProperties
      <4>7. \A i \in 1..(m - 1 + 1) : front[i] = blocks[1 + i - 1]
        BY <4>3, <4>4, SubSeqProperties
      <4>8. Len(front) = m /\ m - 1 + 1 = m /\ \A i \in 1..m : 1 + i - 1 = i
        BY <4>3, <4>6
      <4>9. \A i \in 1..m : front[i] = blocks[i]
        BY <4>7, <4>8
      <4>10. QED
        BY <4>5, <4>8, <4>9 DEF m
    <3> HIDE DEF front
    <3> DEFINE both == front \o <<longer>>
    <3>2. <<longer>> \in Seq(B) /\ Len(<<longer>>) = 1 /\ <<longer>>[1] = longer
      BY <2>5
    <3>3. /\ both \in Seq(B) /\ Len(both) = Len(front) + 1
          /\ \A i \in 1..Len(front) : both[i] = front[i]
          /\ both[Len(front) + 1] = longer
      BY <3>1, <3>2
    <3> HIDE DEF both
    <3>4. QED
      BY <2>1, <3>1, <3>3 DEF both, front
  <2> HIDE DEF joined
  <2>7. Joined(next, blocks, k, marker)
    <3>1. Longer(longer, open, k, marker)
      BY <1>8, <2>4 DEF Longer
    <3>2. QED
      BY <1>8, <2>1, <2>2, <2>6, <3>1 DEF Joined
  <2>8. QED
    BY <1>8, <2>6, <2>7 DEF n, marker, B, next
<1>9. QED
  BY <1>4, <1>5, <1>6, <1>7, <1>8

LEMMA DetectorLargest == ASSUME NEW S PROVE Detector!Max(S) = Largest(S)
BY Zenon DEF Detector!Max, Largest

\* The blocks, line after line.
LEMMA BlockSteps ==
  ASSUME NEW S, NEW lines \in Seq(S), NEW matched
  PROVE  \E acc : /\ acc[0] = <<>>
                  /\ \A k \in 1..Len(lines) : acc[k] = BlockStep(acc[k - 1], k, matched, lines)
                  /\ acc[Len(lines)] = Detector!Blocks(matched, lines)
<1> DEFINE n == Len(lines)
           ids == [i \in DOMAIN lines |-> i]
           Y == Seq(BlocksUpto(n, lines))
           Step(y, k) == BlockStep(y, k, matched, lines)
           next == [p \in Y \X (1..n) |-> Step(p[1], p[2])]
           Def(g) == g = [T \in SUBSET (DOMAIN ids) |->
                            IF T = {} THEN <<>>
                            ELSE Step(g[T \ {Detector!Max(T)}], ids[Detector!Max(T)])]
           it == CHOOSE g : Def(g)
<1>1. n \in Nat /\ DOMAIN lines = 1..n /\ DOMAIN ids = 1..n /\ <<>> \in Y
      /\ \A k \in 1..n : ids[k] = k
  OBVIOUS
<1>2. Detector!Blocks(matched, lines) = it[DOMAIN ids]
  BY Zenon DEF Detector!Blocks, Detector!FoldLeftDomain, Detector!FoldLeft,
     Detector!MapThenFoldSet, BlockStep
<1>3. \A y \in Y : \A k \in 1..n : Step(y, k) \in Y
  BY <1>1, BlockStepIs
<1> HIDE DEF Y, n, ids, Step
<1>4. next \in [Y \X (1..n) -> Y]
  BY <1>3
<1>5. \A y \in Y : \A k \in 1..n : next[<<y, k>>] = Step(y, k)
  OBVIOUS
<1> HIDE DEF next
<1>6. PICK h \in [SUBSET (1..n) -> Y] : Folds(h, n, <<>>, next)
  BY <1>1, <1>4, FoldExists
<1>7. Def(h)
  <2>1. ASSUME NEW T \in SUBSET (1..n), T # {}
        PROVE  h[T] = Step(h[T \ {Largest(T)}], ids[Largest(T)])
    <3>1. Largest(T) \in 1..n /\ T \ {Largest(T)} \in SUBSET (1..n)
      BY <1>1, <2>1, SomeLargest
    <3>2. h[T] = next[<<h[T \ {Largest(T)}], Largest(T)>>]
      BY <1>6, <2>1 DEF Folds
    <3>3. QED
      BY <1>1, <1>5, <1>6, <3>1, <3>2
  <2>2. h[{}] = <<>>
    <3>1. {} \in SUBSET (1..n)
      OBVIOUS
    <3>2. QED
      BY <1>6, <3>1 DEF Folds
  <2>3. \A T : Detector!Max(T) = Largest(T)
    BY DetectorLargest
  <2>4. QED
    BY <1>1, <1>6, <2>1, <2>2, <2>3
<1>8. Def(it)
  BY <1>7, Zenon
<1> HIDE DEF it
<1>9. ASSUME NEW T \in SUBSET (1..n)
      PROVE  it[T] = IF T = {} THEN <<>> ELSE Step(it[T \ {Largest(T)}], ids[Largest(T)])
  BY <1>1, <1>8, DetectorLargest
<1> DEFINE acc == [k \in 0..n |-> it[1..k]]
<1>10. acc[0] = <<>>
  <2>1. 1..0 = {} /\ {} \in SUBSET (1..n) /\ 0 \in 0..n
    BY <1>1
  <2>2. QED
    BY <1>9, <2>1
<1>11. ASSUME NEW k \in 1..n
       PROVE  acc[k] = Step(acc[k - 1], k)
  <2>1. 1..k \in SUBSET (1..n) /\ 1..k # {} /\ k \in 0..n /\ k - 1 \in 0..n /\ k \in Nat /\ k > 0
    <3>1. k \in 0..n /\ k - 1 \in 0..n /\ k \in Nat /\ k > 0 /\ k \in 1..k
      BY <1>1
    <3>2. \A i \in 1..k : i \in 1..n
      BY <1>1
    <3>3. QED
      BY <3>1, <3>2
  <2>2. Largest(1..k) = k /\ (1..k) \ {k} = 1..(k - 1)
    BY <2>1, LargestUpto
  <2>3. it[1..k] = Step(it[(1..k) \ {k}], k)
    BY <1>1, <1>9, <2>1, <2>2
  <2>4. QED
    BY <2>1, <2>2, <2>3
<1>12. acc[n] = Detector!Blocks(matched, lines)
  BY <1>1, <1>2
<1> HIDE DEF acc
<1>13. QED
  BY <1>10, <1>11, <1>12 DEF n, Step

\* A block of lines up to k: none with a marker of another block.
GoodBlock(b, k, lines) ==
  /\ b.lines \in Seq(1..k) /\ b.lines # <<>>
  /\ \A j \in DOMAIN b.lines : Detector!Marker(lines[b.lines[j]]) \in {Detector!NoId, b.marker}

GoodBlocks(blocks, k, matched, lines) ==
  /\ blocks \in Seq(BlocksUpto(Len(lines), lines))
  /\ \A i \in DOMAIN blocks : GoodBlock(blocks[i], k, lines)
  /\ \A i, j \in DOMAIN blocks : blocks[i].lines[1] = blocks[j].lines[1] => i = j
  /\ blocks = <<>> <=> matched \cap (1..k) = {}

LEMMA BlockStays ==
  ASSUME NEW k \in Nat, k # 0, NEW b, NEW lines, GoodBlock(b, k - 1, lines)
  PROVE  GoodBlock(b, k, lines)
<1>1. 1..(k - 1) \subseteq 1..k
  OBVIOUS
<1>2. b.lines \in Seq(1..k)
  BY <1>1 DEF GoodBlock
<1>3. QED
  BY <1>2 DEF GoodBlock

LEMMA BlockJoins ==
  ASSUME NEW k \in Nat, k # 0, NEW b, NEW c, NEW lines, NEW marker,
         GoodBlock(b, k - 1, lines), marker = Detector!Marker(lines[k]), Longer(c, b, k, marker)
  PROVE  GoodBlock(c, k, lines) /\ c.lines[1] = b.lines[1]
<1> DEFINE s == b.lines
           t == c.lines
<1>1. s \in Seq(1..k) /\ s # <<>> /\ k \in 1..k
  BY BlockStays DEF GoodBlock
<1>2. t = Append(s, k)
  BY DEF Longer
<1>3. \A j \in DOMAIN s : Detector!Marker(lines[s[j]]) \in {Detector!NoId, b.marker}
  BY DEF GoodBlock
<1>4. \A m : m \in {Detector!NoId, b.marker} \/ m = marker => m \in {Detector!NoId, c.marker}
  BY DEF Longer
<1> HIDE DEF s, t
<1>5. /\ t \in Seq(1..k) /\ t # <<>> /\ t[1] = s[1]
      /\ Len(s) \in Nat /\ DOMAIN s = 1..Len(s) /\ DOMAIN t = 1..(Len(s) + 1)
      /\ t[Len(s) + 1] = k /\ \A j \in 1..Len(s) : t[j] = s[j]
  <2>1. Append(s, k) \in Seq(1..k) /\ Append(s, k) # <<>> /\ Append(s, k)[1] = s[1]
    BY <1>1, AppendNoRepeats
  <2>2. /\ Len(s) \in Nat /\ DOMAIN s = 1..Len(s) /\ DOMAIN Append(s, k) = 1..(Len(s) + 1)
        /\ Append(s, k)[Len(s) + 1] = k /\ \A j \in 1..Len(s) : Append(s, k)[j] = s[j]
    BY <1>1
  <2>3. QED
    BY <1>2, <2>1, <2>2
<1>6. ASSUME NEW j \in DOMAIN t
      PROVE  Detector!Marker(lines[t[j]]) \in {Detector!NoId, c.marker}
  <2>1. j \in 1..Len(s) \/ j = Len(s) + 1
    BY <1>5
  <2>2. CASE j \in 1..Len(s)
    BY <1>3, <1>4, <1>5, <2>2
  <2>3. CASE j = Len(s) + 1
    BY <1>4, <1>5, <2>3
  <2>4. QED
    BY <2>1, <2>2, <2>3
<1>7. QED
  BY <1>5, <1>6 DEF GoodBlock, s, t

LEMMA GoodBlocksStay ==
  ASSUME NEW S, NEW lines \in Seq(S), NEW matched, NEW k \in DOMAIN lines, NEW blocks,
         GoodBlocks(blocks, k - 1, matched, lines)
  PROVE  GoodBlocks(BlockStep(blocks, k, matched, lines), k, matched, lines)
<1> DEFINE marker == Detector!Marker(lines[k])
           next == BlockStep(blocks, k, matched, lines)
           fresh == [lines |-> <<k>>, marker |-> marker]
           B == BlocksUpto(Len(lines), lines)
<1>1. k \in Nat /\ k # 0
  OBVIOUS
<1>2. /\ blocks \in Seq(B)
      /\ blocks = <<>> <=> matched \cap (1..(k - 1)) = {}
  BY DEF GoodBlocks
<1>3. /\ next \in Seq(B)
      /\ \/ k \notin matched /\ next = blocks
         \/ k \in matched /\ Joined(next, blocks, k, marker)
         \/ k \in matched /\ next = Append(blocks, fresh)
  BY <1>2, BlockStepIs DEF GoodBlocks
<1> HIDE DEF next, marker, B
<1>4. \A i \in DOMAIN blocks : GoodBlock(blocks[i], k - 1, lines) /\ GoodBlock(blocks[i], k, lines)
  BY <1>1, BlockStays DEF GoodBlocks
<1>5. \A i, j \in DOMAIN blocks : blocks[i].lines[1] = blocks[j].lines[1] => i = j
  BY DEF GoodBlocks
<1>6. 1..k = (1..(k - 1)) \cup {k}
  BY <1>1
<1>7. DOMAIN blocks = 1..Len(blocks) /\ Len(blocks) \in Nat /\ (blocks = <<>> <=> Len(blocks) = 0)
  BY <1>2, EmptySeq
<1>8. CASE k \notin matched /\ next = blocks
  <2>1. matched \cap (1..k) = matched \cap (1..(k - 1))
    BY <1>6, <1>8
  <2>2. QED
    BY <1>2, <1>4, <1>5, <1>8, <2>1 DEF GoodBlocks, next, B
<1>9. CASE k \in matched /\ Joined(next, blocks, k, marker)
  <2> DEFINE m == Len(blocks)
  <2>1. /\ m # 0 /\ Len(next) = m /\ m \in 1..m /\ DOMAIN next = 1..m
        /\ \A i \in 1..m : i # m => next[i] = blocks[i]
    <3>1. m # 0 /\ Len(next) = m /\ \A i \in 1..m : i # m => next[i] = blocks[i]
      BY <1>9 DEF Joined
    <3>2. m \in 1..m
      <4>1. m \in Nat
        BY <1>7
      <4> HIDE DEF m
      <4>2. QED
        BY <3>1, <4>1
    <3>3. DOMAIN next = 1..m
      BY <1>3, <3>1
    <3>4. QED
      BY <3>1, <3>2, <3>3
  <2>2. GoodBlock(next[m], k, lines) /\ next[m].lines[1] = blocks[m].lines[1]
    <3>1. Longer(next[m], blocks[m], k, marker)
      BY <1>9 DEF Joined
    <3>2. GoodBlock(blocks[m], k - 1, lines)
      BY <1>4, <1>7, <2>1
    <3>3. marker = Detector!Marker(lines[k])
      BY DEF marker
    <3> DEFINE b == blocks[m]
               c == next[m]
    <3>4. Longer(c, b, k, marker) /\ GoodBlock(b, k - 1, lines)
      BY <3>1, <3>2
    <3> HIDE DEF b, c
    <3>5. GoodBlock(c, k, lines) /\ c.lines[1] = b.lines[1]
      BY <1>1, <3>3, <3>4, BlockJoins
    <3>6. QED
      BY <3>5 DEF b, c
  <2> HIDE DEF m
  <2>3. \A i \in 1..m : GoodBlock(next[i], k, lines) /\ next[i].lines[1] = blocks[i].lines[1]
    BY <1>4, <1>7, <2>1, <2>2 DEF m
  <2>4. next # <<>> /\ matched \cap (1..k) # {}
    <3>1. next = <<>> => Len(next) = 0
      OBVIOUS
    <3>2. k \in 1..k
      BY <1>1
    <3>3. QED
      BY <1>9, <2>1, <3>1, <3>2
  <2>5. \A i, j \in DOMAIN next : next[i].lines[1] = next[j].lines[1] => i = j
    BY <1>5, <1>7, <2>1, <2>3 DEF m
  <2>6. QED
    BY <1>3, <2>1, <2>3, <2>4, <2>5 DEF GoodBlocks, next, B
<1>10. CASE k \in matched /\ next = Append(blocks, fresh)
  <2> DEFINE m == Len(blocks)
  <2>1. fresh.lines = <<k>> /\ fresh.marker = marker /\ <<k>>[1] = k
    OBVIOUS
  <2>2. GoodBlock(fresh, k, lines)
    <3>1. <<k>> \in Seq(1..k) /\ <<k>> # <<>> /\ DOMAIN <<k>> = {1}
      BY <1>1
    <3> HIDE DEF fresh
    <3>2. QED
      BY <2>1, <3>1 DEF GoodBlock, marker
  <2> HIDE DEF fresh
  <2>3. /\ DOMAIN next = 1..(m + 1) /\ m \in Nat /\ next[m + 1] = fresh /\ next # <<>>
        /\ \A i \in 1..m : next[i] = blocks[i]
    BY <1>2, <1>7, <1>10
  <2>4. \A i \in 1..m : blocks[i].lines[1] \in Int /\ blocks[i].lines[1] # k
    <3>1. ASSUME NEW i \in 1..m
          PROVE  blocks[i].lines[1] \in Int /\ blocks[i].lines[1] # k
      <4>1. blocks[i].lines \in Seq(1..(k - 1)) /\ blocks[i].lines # <<>>
        BY <1>4, <1>7 DEF GoodBlock
      <4>2. Len(blocks[i].lines) # 0
        BY <4>1, EmptySeq
      <4>3. blocks[i].lines[1] \in 1..(k - 1)
        BY <4>1, <4>2
      <4>4. QED
        BY <1>1, <4>3
    <3>2. QED
      BY <3>1
  <2>5. matched \cap (1..k) # {}
    <3>1. k \in 1..k
      BY <1>1
    <3>2. QED
      BY <1>10, <3>1
  <2>6. \A i \in DOMAIN next : i \in 1..m \/ i = m + 1
    BY <2>3
  <2>7. \A i \in DOMAIN next : GoodBlock(next[i], k, lines)
    BY <1>4, <1>7, <2>2, <2>3, <2>6
  <2>8. \A i, j \in DOMAIN next : next[i].lines[1] = next[j].lines[1] => i = j
    BY <1>5, <1>7, <2>1, <2>3, <2>4, <2>6
  <2>9. QED
    BY <1>3, <2>3, <2>5, <2>7, <2>8 DEF GoodBlocks, next, B
<1>11. QED
  BY <1>3, <1>8, <1>9, <1>10

\* _group_rule_line_matches: blocks with lines, markers and first lines of their own, none where
\* nothing is matched.
LEMMA BlocksAre ==
  ASSUME NEW S, NEW lines \in Seq(S), NEW matched
  PROVE  GoodBlocks(Detector!Blocks(matched, lines), Len(lines), matched, lines)
<1> DEFINE n == Len(lines)
<1>1. PICK acc : /\ acc[0] = <<>>
                 /\ \A k \in 1..n : acc[k] = BlockStep(acc[k - 1], k, matched, lines)
                 /\ acc[n] = Detector!Blocks(matched, lines)
  BY BlockSteps
<1> DEFINE Good == {k \in 0..n : GoodBlocks(acc[k], k, matched, lines)}
<1>2. n \in Nat /\ DOMAIN lines = 1..n
  OBVIOUS
<1>3. 0 \in Good
  <2>1. <<>> \in Seq(BlocksUpto(Len(lines), lines)) /\ DOMAIN <<>> = {} /\ matched \cap (1..0) = {}
    OBVIOUS
  <2>2. GoodBlocks(<<>>, 0, matched, lines)
    BY <2>1 DEF GoodBlocks
  <2>3. QED
    BY <1>1, <1>2, <2>2
<1>4. ASSUME NEW k \in 1..n, k - 1 \in Good
      PROVE  k \in Good
  <2>1. GoodBlocks(acc[k - 1], k - 1, matched, lines) /\ k \in 0..n /\ k \in DOMAIN lines
    BY <1>2, <1>4
  <2>2. acc[k] = BlockStep(acc[k - 1], k, matched, lines)
    BY <1>1
  <2>3. QED
    BY <2>1, <2>2, GoodBlocksStay
<1> HIDE DEF Good
<1>5. 0..n \subseteq Good
  BY <1>2, <1>3, <1>4, UptoInduction
<1>6. n \in Good
  BY <1>2, <1>5
<1>7. QED
  BY <1>1, <1>6 DEF Good

-----------------------------------------------------------------------------
(***************************************************************************)
(* From the blocks to the events.                                          *)
(***************************************************************************)
BlocksOf(rule, lines) == Detector!Range(Detector!Blocks(Detector!Matched(rule, lines), lines))

AllEvents(lines) == UNION {Detector!EventsOf(rule, lines) : rule \in Detector!Range(Detector!RULES)}

OneMarker(e, lines) ==
  \A i, j \in e.covers : lines[i].marked /\ lines[j].marked => lines[i].id = lines[j].id

\* The event of a block.
LEMMA EventIs ==
  ASSUME NEW lines, IsWindow(lines), NEW rule, NEW b \in BlocksOf(rule, lines)
  PROVE  LET e == Detector!EventOf(rule, b, lines)
         IN  /\ e.type = rule.event /\ e.line = b.lines[1] /\ e.line \in DOMAIN lines
             /\ OneMarker(e, lines)
<1> DEFINE matched == Detector!Matched(rule, lines)
           blocks == Detector!Blocks(matched, lines)
           e == Detector!EventOf(rule, b, lines)
           s == b.lines
<1>1. PICK S : lines \in Seq(S)
  BY DEF IsWindow
<1>2. GoodBlocks(blocks, Len(lines), matched, lines)
  BY <1>1, BlocksAre
<1>3. PICK i \in DOMAIN blocks : b = blocks[i]
  BY DEF BlocksOf, Detector!Range
<1>4. GoodBlock(b, Len(lines), lines)
  BY <1>2, <1>3 DEF GoodBlocks
<1>5. /\ s \in Seq(DOMAIN lines) /\ s # <<>>
      /\ \A j \in DOMAIN s : Detector!Marker(lines[s[j]]) \in {Detector!NoId, b.marker}
  <2>1. DOMAIN lines = 1..Len(lines)
    BY <1>1
  <2>2. QED
    BY <1>4, <2>1 DEF GoodBlock
<1>6. e.type = rule.event /\ e.line = s[1] /\ e.covers = Detector!Range(s)
  <2> DEFINE excerpt == SubSeq(lines, b.lines[1], Detector!Last(b.lines))
             signature == Detector!Signature(lines[b.lines[1]])
  <2>1. e = [type |-> rule.event, issue |-> rule.issue, severity |-> rule.severity,
             line |-> s[1], covers |-> Detector!Range(s),
             excerpt |-> excerpt, signature |-> signature]
    BY Zenon DEF Detector!EventOf
  <2> HIDE DEF e, excerpt, signature, s
  <2>2. QED
    BY <2>1
<1> HIDE DEF e, s
<1>7. s[1] \in DOMAIN lines
  <2>1. Len(s) # 0 /\ Len(s) \in Nat
    BY <1>5, EmptySeq
  <2>2. QED
    BY <1>5, <2>1
<1>8. ASSUME NEW k \in Detector!Range(s), NEW m \in Detector!Range(s),
             lines[k].marked, lines[m].marked
      PROVE  lines[k].id = lines[m].id
  <2>1. k \in DOMAIN lines /\ m \in DOMAIN lines
    BY <1>5 DEF Detector!Range
  <2>2. /\ Detector!Marker(lines[k]) \in {Detector!NoId, b.marker}
        /\ Detector!Marker(lines[m]) \in {Detector!NoId, b.marker}
    BY <1>5 DEF Detector!Range
  <2>3. lines[k].id # Detector!NoId /\ lines[m].id # Detector!NoId
    BY <1>8, <2>1 DEF IsWindow
  <2>4. Detector!Marker(lines[k]) = lines[k].id /\ Detector!Marker(lines[m]) = lines[m].id
    BY <1>8, Zenon DEF Detector!Marker
  <2>5. QED
    BY <2>2, <2>3, <2>4
<1>9. QED
  BY <1>6, <1>7, <1>8 DEF OneMarker, e, s

\* An event is known by its line and the number of its rule.
LEMMA EventsAre ==
  ASSUME NEW lines, IsWindow(lines)
  PROVE  /\ \A e \in AllEvents(lines) :
              /\ e.line \in DOMAIN lines /\ Detector!RuleNr(e) \in DOMAIN Detector!RULES
              /\ OneMarker(e, lines)
         /\ \A d, e \in AllEvents(lines) :
              d.line = e.line /\ Detector!RuleNr(d) = Detector!RuleNr(e) => d = e
         /\ AllEvents(lines) = {} <=>
              \A rule \in Detector!Range(Detector!RULES) : Detector!Matched(rule, lines) = {}
<1> DEFINE R == Detector!RULES
<1>1. PICK E : Named(R, E)
  BY RulesAreNamed
<1> HIDE DEF R
<1>2. \A i, j \in DOMAIN R : R[i].event = R[j].event => i = j
  BY <1>1 DEF Named
<1>3. PICK S : lines \in Seq(S)
  BY DEF IsWindow
<1>4. ASSUME NEW e \in AllEvents(lines)
      PROVE  \E r \in DOMAIN R : \E b \in BlocksOf(R[r], lines) : e = Detector!EventOf(R[r], b, lines)
  <2>1. PICK rule \in Detector!Range(R) : e \in Detector!EventsOf(rule, lines)
    BY DEF AllEvents, R
  <2>2. PICK r \in DOMAIN R : rule = R[r]
    BY DEF Detector!Range
  <2>3. PICK b \in BlocksOf(rule, lines) : e = Detector!EventOf(rule, b, lines)
    BY <2>1, Zenon DEF Detector!EventsOf, BlocksOf
  <2>4. QED
    BY <2>2, <2>3
<1>5. ASSUME NEW r \in DOMAIN R, NEW b \in BlocksOf(R[r], lines), NEW e,
             e = Detector!EventOf(R[r], b, lines)
      PROVE  /\ e.type = R[r].event /\ e.line = b.lines[1] /\ e.line \in DOMAIN lines
             /\ OneMarker(e, lines) /\ Detector!RuleNr(e) = r
  <2>1. /\ e.type = R[r].event /\ e.line = b.lines[1] /\ e.line \in DOMAIN lines
        /\ OneMarker(e, lines)
    BY <1>5, EventIs
  <2>2. Detector!RuleNr(e) \in DOMAIN R /\ R[Detector!RuleNr(e)].event = e.type
    <3>1. \E k \in DOMAIN R : R[k].event = e.type
      BY <2>1
    <3>2. QED
      BY <3>1, Zenon DEF Detector!RuleNr, R
  <2>3. QED
    BY <1>2, <2>1, <2>2
<1>6. ASSUME NEW d \in AllEvents(lines), NEW e \in AllEvents(lines), d.line = e.line,
             Detector!RuleNr(d) = Detector!RuleNr(e)
      PROVE  d = e
  <2>1. PICK r \in DOMAIN R : \E b \in BlocksOf(R[r], lines) : d = Detector!EventOf(R[r], b, lines)
    BY <1>4
  <2>2. PICK b \in BlocksOf(R[r], lines) : d = Detector!EventOf(R[r], b, lines)
    BY <2>1
  <2>3. PICK q \in DOMAIN R : \E c \in BlocksOf(R[q], lines) : e = Detector!EventOf(R[q], c, lines)
    BY <1>4
  <2>4. PICK c \in BlocksOf(R[q], lines) : e = Detector!EventOf(R[q], c, lines)
    BY <2>3
  <2>5. d.line = b.lines[1] /\ Detector!RuleNr(d) = r
    BY <1>5, <2>2
  <2>6. e.line = c.lines[1] /\ Detector!RuleNr(e) = q
    BY <1>5, <2>4
  <2>7. r = q /\ b.lines[1] = c.lines[1]
    BY <1>6, <2>5, <2>6
  <2>8. b = c
    <3> DEFINE matched == Detector!Matched(R[r], lines)
               blocks == Detector!Blocks(matched, lines)
    <3>1. GoodBlocks(blocks, Len(lines), matched, lines)
      BY <1>3, BlocksAre
    <3>2. BlocksOf(R[r], lines) = Detector!Range(blocks)
      BY DEF BlocksOf
    <3> HIDE DEF matched, blocks
    <3>3. PICK i \in DOMAIN blocks : b = blocks[i]
      BY <3>2 DEF Detector!Range
    <3>4. PICK j \in DOMAIN blocks : c = blocks[j]
      BY <2>7, <3>2 DEF Detector!Range
    <3>5. i = j
      BY <2>7, <3>1, <3>3, <3>4 DEF GoodBlocks
    <3>6. QED
      BY <3>3, <3>4, <3>5
  <2>9. QED
    BY <2>2, <2>4, <2>7, <2>8
<1>7. \A rule : BlocksOf(rule, lines) = {} <=> Detector!Matched(rule, lines) = {}
  <2>1. TAKE rule
  <2> DEFINE matched == Detector!Matched(rule, lines)
             blocks == Detector!Blocks(matched, lines)
  <2>2. GoodBlocks(blocks, Len(lines), matched, lines)
    BY <1>3, BlocksAre
  <2>3. matched \subseteq 1..Len(lines)
    BY <1>3 DEF Detector!Matched
  <2>4. BlocksOf(rule, lines) = Detector!Range(blocks)
    BY DEF BlocksOf
  <2> HIDE DEF matched, blocks
  <2>5. /\ blocks \in Seq(BlocksUpto(Len(lines), lines))
        /\ blocks = <<>> <=> matched = {}
    <3>1. matched \cap (1..Len(lines)) = matched
      BY <2>3
    <3>2. QED
      BY <2>2, <3>1 DEF GoodBlocks
  <2>6. blocks = <<>> <=> DOMAIN blocks = {}
    <3>1. DOMAIN blocks = 1..Len(blocks) /\ Len(blocks) \in Nat
      BY <2>5
    <3>2. blocks = <<>> <=> Len(blocks) = 0
      BY <2>5, EmptySeq
    <3>3. QED
      BY <3>1, <3>2
  <2>7. Detector!Range(blocks) = {} <=> DOMAIN blocks = {}
    BY DEF Detector!Range
  <2>8. QED
    BY <2>4, <2>5, <2>6, <2>7 DEF matched
<1>8. AllEvents(lines) = {} <=>
        \A rule \in Detector!Range(R) : Detector!Matched(rule, lines) = {}
  <2>1. \A rule : Detector!EventsOf(rule, lines) = {} <=> BlocksOf(rule, lines) = {}
    BY DEF Detector!EventsOf, BlocksOf
  <2>2. AllEvents(lines) = {} <=> \A rule \in Detector!Range(R) : Detector!EventsOf(rule, lines) = {}
    BY DEF AllEvents, R
  <2>3. QED
    BY <1>7, <2>1, <2>2
<1>9. \A e \in AllEvents(lines) : /\ e.line \in DOMAIN lines /\ Detector!RuleNr(e) \in DOMAIN R
                                 /\ OneMarker(e, lines)
  BY <1>4, <1>5
<1>10. QED
  BY <1>6, <1>8, <1>9 DEF R

-----------------------------------------------------------------------------
(***************************************************************************)
(* The two kinds of suppression leave something of every list of events.   *)
(* An event that takes another one's place as manual evidence is itself no *)
(* safe event, and what says it more specifically is the one it takes the  *)
(* place of; and above an event that is only repeated there is one at the  *)
(* most that is repeated too.                                              *)
(***************************************************************************)
LEMMA ScopeIsMutual ==
  ASSUME NEW d, NEW e, d.line \in Int, e.line \in Int, Detector!SameScope(d, e)
  PROVE  Detector!SameScope(e, d)
<1>1. Detector!BLOCK_GAP_LINES = 3
  BY DEF Detector!BLOCK_GAP_LINES
<1>2. d.line - e.line \in (0 - 3)..3 => e.line - d.line \in (0 - 3)..3
  OBVIOUS
<1> DEFINE in == Detector!Within(d.excerpt, e.excerpt)
           out == Detector!Within(e.excerpt, d.excerpt)
<1>3. d.line - e.line \in (0 - 3)..3 \/ in \/ out
  BY <1>1, Zenon DEF Detector!SameScope
<1> HIDE DEF in, out
<1>4. e.line - d.line \in (0 - 3)..3 \/ in \/ out
  BY <1>2, <1>3
<1>5. QED
  BY <1>1, <1>4, Zenon DEF Detector!SameScope, in, out

Safe(type) == \E m : type \in Detector!ManualToSafe(m)

LEMMA SafeTypes ==
  ASSUME NEW type, NEW m, type \in Detector!ManualToSafe(m)
  PROVE  /\ ~Safe(m)
         /\ \/ Detector!SpecializedToGeneric(type) # {}
            \/ \A s : m \notin Detector!SpecializedToGeneric(s)
<1>1. /\ type \in {"optional_cache_backend_failed", "optional_integration_failed",
                   "notification_sink_failed", "observability_export_failed",
                   "optional_service_unavailable", "queue_backpressure"}
      /\ m \in {"disk_full", "python_env", "auth_cert", "dependency_service", "network_connectivity"}
      /\ type = "queue_backpressure" => m = "dependency_service"
  BY DEF Detector!ManualToSafe
<1>2. ~Safe(m)
  BY <1>1 DEF Safe, Detector!ManualToSafe
<1>3. CASE type = "queue_backpressure"
  <2>1. m = "dependency_service"
    BY <1>1, <1>3
  <2>2. \A s : "dependency_service" \notin Detector!SpecializedToGeneric(s)
    BY DEF Detector!SpecializedToGeneric
  <2>3. QED
    BY <1>2, <2>1, <2>2
<1>4. CASE type # "queue_backpressure"
  <2>1. Detector!SpecializedToGeneric(type) # {}
    BY <1>1, <1>4 DEF Detector!SpecializedToGeneric
  <2>2. QED
    BY <1>2, <2>1
<1>5. QED
  BY <1>3, <1>4

LEMMA ChainsAreShort ==
  ASSUME NEW x, NEW y, NEW z, NEW w, x \in Detector!SpecializedToGeneric(y),
         y \in Detector!SpecializedToGeneric(z)
  PROVE  z \notin Detector!SpecializedToGeneric(w)
<1>1. y \in {"cache_write_failed", "optional_dependency_missing"}
  BY DEF Detector!SpecializedToGeneric
<1>2. z \in {"optional_cache_backend_failed", "optional_integration_failed"}
  BY <1>1 DEF Detector!SpecializedToGeneric
<1>3. QED
  BY <1>2 DEF Detector!SpecializedToGeneric

LEMMA SomethingIsKept ==
  ASSUME NEW events, events # {}, \A e \in events : e.line \in Int
  PROVE  \E e \in events : Detector!Kept(e, events)
<1> DEFINE ByManual(e) == \E m \in events : e.type \in Detector!ManualToSafe(m.type) /\ Detector!SameScope(e, m)
           BySpecial(e) == \E s \in events : e.type \in Detector!SpecializedToGeneric(s.type) /\ Detector!SameScope(e, s)
           Evidence(e) == \E s \in events : /\ Detector!SpecializedToGeneric(s.type) # {}
                                            /\ s.type \in Detector!ManualToSafe(e.type)
                                            /\ Detector!SameScope(e, s)
<1>1. \A e : Detector!Kept(e, events) <=> ~ByManual(e) /\ (Evidence(e) \/ ~BySpecial(e))
  BY Zenon DEF Detector!Kept
<1>2. CASE \E e \in events : ByManual(e)
  <2>1. PICK e \in events, m \in events :
          e.type \in Detector!ManualToSafe(m.type) /\ Detector!SameScope(e, m)
    BY <1>2
  <2>2. Detector!SameScope(m, e)
    BY <2>1, ScopeIsMutual
  <2>3. /\ ~Safe(m.type)
        /\ \/ Detector!SpecializedToGeneric(e.type) # {}
           \/ \A s : m.type \notin Detector!SpecializedToGeneric(s)
    BY <2>1, SafeTypes
  <2>4. ~ByManual(m)
    BY <2>3, Zenon DEF Safe
  <2>5. Evidence(m) \/ ~BySpecial(m)
    BY <2>1, <2>2, <2>3, Zenon
  <2>6. QED
    BY <1>1, <2>4, <2>5
<1>3. CASE \A e \in events : ~ByManual(e)
  <2>1. SUFFICES ASSUME \A e \in events : BySpecial(e) PROVE FALSE
    BY <1>1, <1>3
  <2>2. PICK e \in events : TRUE
    OBVIOUS
  <2>3. PICK s \in events : e.type \in Detector!SpecializedToGeneric(s.type)
    BY <2>1
  <2>4. PICK t \in events : s.type \in Detector!SpecializedToGeneric(t.type)
    BY <2>1
  <2>5. PICK u \in events : t.type \in Detector!SpecializedToGeneric(u.type)
    BY <2>1
  <2>6. QED
    BY <2>3, <2>4, <2>5, ChainsAreShort
<1>4. QED
  BY <1>2, <1>3

-----------------------------------------------------------------------------
(***************************************************************************)
(* The events in the order of their lines and rules, without repetitions.  *)
(***************************************************************************)
LEMMA DetectorCounts == ASSUME NEW S PROVE Detector!Cardinality(S) = Cardinality(S)
BY Zenon DEF Cardinality, Detector!Cardinality, IsFiniteSet, Detector!IsFiniteSet

\* Events with a line and a rule of their own.
Placeable(events) ==
  /\ IsFiniteSet(events)
  /\ \A e \in events : e.line \in Int /\ Detector!RuleNr(e) \in Int
  /\ \A d, e \in events : d.line = e.line /\ Detector!RuleNr(d) = Detector!RuleNr(e) => d = e

LEMMA InOrderIs ==
  ASSUME NEW events, Placeable(events)
  PROVE  Detector!InOrder(events) \in Seq(events) /\ (events # {} => Detector!InOrder(events) # <<>>)
<1> DEFINE above == {p \in events \X events : Detector!Earlier(p[1], p[2])}
           n == Cardinality(events)
           sorted == Detector!InOrder(events)
<1>1. n \in Nat /\ (events # {} => n # 0)
  BY FS_CardinalityType, FS_EmptySet DEF Placeable
<1>2. \A d, e \in events : <<d, e>> \in above <=> Detector!Earlier(d, e)
  OBVIOUS
<1>3. \A d, e \in events : Detector!Earlier(d, e) <=>
         d.line < e.line \/ (d.line = e.line /\ Detector!RuleNr(d) < Detector!RuleNr(e))
  BY DEF Detector!Earlier
<1>4. above \in SUBSET (events \X events)
  OBVIOUS
<1> HIDE DEF above
<1>5. Strict(events, above)
  <2>1. \A e \in events : ~Detector!Earlier(e, e)
    BY <1>3 DEF Placeable
  <2>2. \A c, d, e \in events : Detector!Earlier(c, d) /\ Detector!Earlier(d, e) => Detector!Earlier(c, e)
    BY <1>3 DEF Placeable
  <2>3. QED
    BY <1>2, <1>4, <2>1, <2>2 DEF Strict
<1>6. \A d, e \in events : d = e \/ <<d, e>> \in above \/ <<e, d>> \in above
  <2>1. ASSUME NEW d \in events, NEW e \in events, d # e
        PROVE  Detector!Earlier(d, e) \/ Detector!Earlier(e, d)
    <3>1. /\ d.line \in Int /\ e.line \in Int /\ Detector!RuleNr(d) \in Int /\ Detector!RuleNr(e) \in Int
          /\ d.line # e.line \/ Detector!RuleNr(d) # Detector!RuleNr(e)
      BY <2>1 DEF Placeable
    <3>2. QED
      BY <1>3, <3>1
  <2>2. QED
    BY <1>2, <2>1
<1>7. PICK s : Sorting(s, events, above)
  BY <1>5, <1>6, SortingExists DEF Placeable
<1>8. \A k \in 1..n : \E e \in events : Cardinality({d \in events : Detector!Earlier(d, e)}) = k - 1
  <2>1. TAKE k \in 1..n
  <2> DEFINE before == {d \in events : Detector!Earlier(d, s[k])}
  <2>2. /\ s \in Seq(events) /\ Len(s) = n
        /\ \A x \in events : \E i \in 1..n : s[i] = x
        /\ \A i, j \in 1..n : s[i] = s[j] => i = j
    BY <1>5, <1>7, SortingIsFull DEF Placeable
  <2>3. \A i, j \in 1..n : i < j => Detector!Earlier(s[i], s[j])
    <3>1. \A i \in 1..n : s[i] \in events
      BY <2>2
    <3>2. QED
      BY <1>2, <1>7, <3>1 DEF Sorting
  <2>4. \A i \in 1..n : s[i] \in before <=> i \in 1..(k - 1)
    <3>1. ASSUME NEW i \in 1..n PROVE s[i] \in before <=> i \in 1..(k - 1)
      <4>1. s[i] \in events /\ s[k] \in events
        BY <2>2
      <4>2. CASE i < k
        <5>1. Detector!Earlier(s[i], s[k]) /\ i \in 1..(k - 1)
          BY <1>1, <2>3, <4>2
        <5>2. QED
          BY <4>1, <5>1
      <4>3. CASE ~(i < k)
        <5>1. i = k \/ k < i
          BY <1>1, <4>3
        <5>2. ~Detector!Earlier(s[i], s[k])
          <6>1. CASE i = k
            BY <1>3, <4>1, <6>1 DEF Placeable
          <6>2. CASE k < i
            <7>1. Detector!Earlier(s[k], s[i])
              BY <2>3, <6>2
            <7>2. QED
              BY <1>3, <4>1, <7>1 DEF Placeable
          <6>3. QED
            BY <5>1, <6>1, <6>2
        <5>3. i \notin 1..(k - 1)
          BY <1>1, <4>3
        <5>4. QED
          BY <5>2, <5>3
      <4>4. QED
        BY <4>2, <4>3
    <3>2. QED
      BY <3>1
  <2>5. Cardinality(before) = k - 1
    <3> DEFINE f == [i \in 1..(k - 1) |-> s[i]]
    <3>1. \A i \in 1..(k - 1) : i \in 1..n
      BY <1>1
    <3>2. before \subseteq events
      OBVIOUS
    <3> HIDE DEF before
    <3>3. f \in [1..(k - 1) -> before] /\ \A i \in 1..(k - 1) : f[i] = s[i]
      BY <2>4, <3>1
    <3> HIDE DEF f
    <3>4. \A i, j \in 1..(k - 1) : f[i] = f[j] => i = j
      BY <2>2, <3>1, <3>3
    <3>5. \A x \in before : \E i \in 1..(k - 1) : f[i] = x
      <4>1. TAKE x \in before
      <4>2. PICK i \in 1..n : s[i] = x
        BY <2>2, <3>2
      <4>3. i \in 1..(k - 1)
        BY <2>4, <4>2
      <4>4. QED
        BY <3>3, <4>2, <4>3
    <3>6. f \in Bijection(1..(k - 1), before)
      BY <3>3, <3>4, <3>5 DEF Bijection, Injection, Surjection, IsInjective
    <3>7. IsFiniteSet(1..(k - 1)) /\ Cardinality(1..(k - 1)) = k - 1
      <4>1. k - 1 \in Nat /\ 1 \in Int /\ k - 1 \in Int
        BY <1>1
      <4>2. IsFiniteSet(1..(k - 1)) /\ Cardinality(1..(k - 1)) = IF 1 > k - 1 THEN 0 ELSE (k - 1) - 1 + 1
        BY <4>1, FS_Interval
      <4>3. QED
        BY <4>1, <4>2
    <3>8. Cardinality(1..(k - 1)) = Cardinality(before)
      BY <3>6, <3>7, FS_Bijection DEF ExistsBijection
    <3>9. QED
      BY <3>7, <3>8
  <2>6. s[k] \in events
    BY <2>2
  <2>7. QED
    BY <2>5, <2>6
<1> DEFINE Nth(k, e) == Detector!Cardinality({d \in events : Detector!Earlier(d, e)}) = k - 1
<1>9. /\ sorted = [k \in 1..Detector!Cardinality(events) |-> CHOOSE e \in events : Nth(k, e)]
      /\ Detector!Cardinality(events) = n
  BY DetectorCounts, Zenon DEF Detector!InOrder
<1>10. \A k \in 1..n : \E e \in events : Nth(k, e)
  BY <1>8, DetectorCounts
<1> HIDE DEF sorted, n, Nth
<1>11. /\ sorted = [k \in 1..n |-> CHOOSE e \in events : Nth(k, e)]
       /\ \A k \in 1..n : (CHOOSE e \in events : Nth(k, e)) \in events
  <2>1. sorted = [k \in 1..n |-> CHOOSE e \in events : Nth(k, e)]
    BY <1>9
  <2>2. \A k \in 1..n : (CHOOSE e \in events : Nth(k, e)) \in events
    BY <1>10
  <2>3. QED
    BY <2>1, <2>2
<1>12. sorted \in Seq(events) /\ Len(sorted) = n
  BY <1>1, <1>11
<1>13. events # {} => sorted # <<>>
  <2>1. sorted = <<>> => Len(sorted) = 0
    OBVIOUS
  <2>2. QED
    BY <1>1, <1>12, <2>1
<1>14. QED
  BY <1>12, <1>13 DEF sorted

\* What Dedupe does with an event.
DedupeStep(kept, e) ==
  IF \E k \in Detector!Range(kept) : Detector!Fingerprint(k) = Detector!Fingerprint(e)
  THEN kept ELSE Append(kept, e)

LEMMA DedupeSteps ==
  ASSUME NEW A, NEW s \in Seq(A)
  PROVE  \E acc : /\ acc[0] = <<>>
                  /\ \A k \in 1..Len(s) : acc[k] = DedupeStep(acc[k - 1], s[k])
                  /\ acc[Len(s)] = Detector!Dedupe(s)
<1> DEFINE n == Len(s)
           Y == Seq(A)
           next == [p \in Y \X (1..n) |-> DedupeStep(p[1], s[p[2]])]
           Def(g) == g = [S \in SUBSET (DOMAIN s) |->
                            IF S = {} THEN <<>>
                            ELSE DedupeStep(g[S \ {Detector!Max(S)}], s[Detector!Max(S)])]
           it == CHOOSE g : Def(g)
<1>1. n \in Nat /\ DOMAIN s = 1..n /\ <<>> \in Y
  OBVIOUS
<1>2. Detector!Dedupe(s) = it[DOMAIN s]
  BY Zenon DEF Detector!Dedupe, Detector!FoldLeft, Detector!MapThenFoldSet, DedupeStep
<1>3. \A y \in Y : \A k \in 1..n : DedupeStep(y, s[k]) \in Y
  <2>1. \A k \in 1..n : s[k] \in A
    BY <1>1
  <2>2. \A y \in Y : \A x \in A : Append(y, x) \in Y
    OBVIOUS
  <2>3. QED
    BY <2>1, <2>2 DEF DedupeStep
<1> HIDE DEF Y, n
<1>4. next \in [Y \X (1..n) -> Y]
  BY <1>3
<1>5. \A y \in Y : \A k \in 1..n : next[<<y, k>>] = DedupeStep(y, s[k])
  OBVIOUS
<1> HIDE DEF next
<1>6. PICK h \in [SUBSET (1..n) -> Y] : Folds(h, n, <<>>, next)
  BY <1>1, <1>4, FoldExists
<1>7. Def(h)
  <2>1. ASSUME NEW S \in SUBSET (1..n), S # {}
        PROVE  h[S] = DedupeStep(h[S \ {Largest(S)}], s[Largest(S)])
    <3>1. Largest(S) \in 1..n /\ S \ {Largest(S)} \in SUBSET (1..n)
      BY <1>1, <2>1, SomeLargest
    <3>2. h[S] = next[<<h[S \ {Largest(S)}], Largest(S)>>]
      BY <1>6, <2>1 DEF Folds
    <3>3. QED
      BY <1>5, <1>6, <3>1, <3>2
  <2>2. h[{}] = <<>>
    <3>1. {} \in SUBSET (1..n)
      OBVIOUS
    <3>2. QED
      BY <1>6, <3>1 DEF Folds
  <2>3. \A T : Detector!Max(T) = Largest(T)
    BY DetectorLargest
  <2>4. QED
    BY <1>1, <1>6, <2>1, <2>2, <2>3
<1>8. Def(it)
  BY <1>7, Zenon
<1> HIDE DEF it
<1>9. ASSUME NEW S \in SUBSET (1..n)
      PROVE  it[S] = IF S = {} THEN <<>> ELSE DedupeStep(it[S \ {Largest(S)}], s[Largest(S)])
  BY <1>1, <1>8, DetectorLargest
<1> DEFINE acc == [k \in 0..n |-> it[1..k]]
<1>10. acc[0] = <<>>
  <2>1. 1..0 = {} /\ {} \in SUBSET (1..n) /\ 0 \in 0..n
    BY <1>1
  <2>2. QED
    BY <1>9, <2>1
<1>11. ASSUME NEW k \in 1..n
       PROVE  acc[k] = DedupeStep(acc[k - 1], s[k])
  <2>1. 1..k \in SUBSET (1..n) /\ 1..k # {} /\ k \in 0..n /\ k - 1 \in 0..n /\ k \in Nat /\ k > 0
    <3>1. k \in 0..n /\ k - 1 \in 0..n /\ k \in Nat /\ k > 0 /\ k \in 1..k
      BY <1>1
    <3>2. \A i \in 1..k : i \in 1..n
      BY <1>1
    <3>3. QED
      BY <3>1, <3>2
  <2>2. Largest(1..k) = k /\ (1..k) \ {k} = 1..(k - 1)
    BY <2>1, LargestUpto
  <2>3. it[1..k] = DedupeStep(it[(1..k) \ {k}], s[k])
    BY <1>9, <2>1, <2>2
  <2>4. QED
    BY <2>1, <2>2, <2>3
<1>12. acc[n] = Detector!Dedupe(s)
  BY <1>1, <1>2
<1> HIDE DEF acc
<1>13. QED
  BY <1>10, <1>11, <1>12 DEF n

\* Of what is there something is left.
LEMMA DedupeIs ==
  ASSUME NEW A, NEW s \in Seq(A)
  PROVE  Detector!Dedupe(s) \in Seq(A) /\ (Detector!Dedupe(s) = <<>> <=> s = <<>>)
<1> DEFINE n == Len(s)
<1>1. PICK acc : /\ acc[0] = <<>>
                 /\ \A k \in 1..n : acc[k] = DedupeStep(acc[k - 1], s[k])
                 /\ acc[n] = Detector!Dedupe(s)
  BY DedupeSteps
<1> DEFINE Good == {k \in 0..n : acc[k] \in Seq(A) /\ (acc[k] = <<>> <=> k = 0)}
<1>2. n \in Nat /\ \A k \in 1..n : s[k] \in A
  OBVIOUS
<1>3. s = <<>> <=> n = 0
  BY EmptySeq
<1> HIDE DEF n
<1>4. 0 \in Good
  <2>1. 0 \in 0..n /\ <<>> \in Seq(A)
    BY <1>2
  <2>2. QED
    BY <1>1, <2>1
<1>5. ASSUME NEW k \in 1..n, k - 1 \in Good
      PROVE  k \in Good
  <2>1. /\ acc[k - 1] \in Seq(A) /\ (acc[k - 1] = <<>> <=> k = 1)
        /\ s[k] \in A /\ k \in 0..n /\ k # 0
    BY <1>2, <1>5
  <2>2. Append(acc[k - 1], s[k]) \in Seq(A) /\ Append(acc[k - 1], s[k]) # <<>>
    BY <2>1, AppendNoRepeats
  <2>3. k = 1 => Detector!Range(acc[k - 1]) = {}
    <3>1. DOMAIN <<>> = {}
      OBVIOUS
    <3>2. QED
      BY <2>1, <3>1 DEF Detector!Range
  <2>4. acc[k] = DedupeStep(acc[k - 1], s[k])
    BY <1>1
  <2>5. acc[k] \in Seq(A) /\ acc[k] # <<>>
    BY <2>1, <2>2, <2>3, <2>4 DEF DedupeStep
  <2>6. QED
    BY <2>1, <2>5
<1> HIDE DEF Good
<1>6. 0..n \subseteq Good
  BY <1>2, <1>4, <1>5, UptoInduction
<1>7. n \in Good
  BY <1>2, <1>6
<1>8. QED
  BY <1>1, <1>3, <1>7 DEF Good

-----------------------------------------------------------------------------
(***************************************************************************)
(* detect_all.                                                             *)
(***************************************************************************)
LEMMA RuleNumbersAre == DOMAIN Detector!RULES = 1..Len(Detector!RULES) /\ Len(Detector!RULES) \in Nat
<1>1. PICK E : Named(Detector!RULES, E)
  BY RulesAreNamed
<1>2. QED
  BY <1>1 DEF Named

LEMMA EventsArePlaceable ==
  ASSUME NEW lines, IsWindow(lines), NEW events \in SUBSET AllEvents(lines)
  PROVE  Placeable(events)
<1> DEFINE R == DOMAIN Detector!RULES
           all == AllEvents(lines)
           place == [e \in all |-> <<e.line, Detector!RuleNr(e)>>]
<1>1. /\ \A e \in all : e.line \in DOMAIN lines /\ Detector!RuleNr(e) \in R
      /\ \A d, e \in all : d.line = e.line /\ Detector!RuleNr(d) = Detector!RuleNr(e) => d = e
  BY EventsAre
<1>2. R = 1..Len(Detector!RULES) /\ Len(Detector!RULES) \in Nat
  BY RuleNumbersAre
<1>3. DOMAIN lines = 1..Len(lines) /\ Len(lines) \in Nat
  BY DEF IsWindow
<1> DEFINE P == (DOMAIN lines) \X R
<1>4. IsFiniteSet(P)
  <2>1. IsFiniteSet(DOMAIN lines) /\ IsFiniteSet(R)
    BY <1>2, <1>3, FS_Interval
  <2>2. QED
    BY <2>1, FS_Product
<1> HIDE DEF R, all
<1>5. place \in Injection(all, P)
  <2>1. place \in [all -> P]
    BY <1>1
  <2>2. \A d, e \in all : place[d] = place[e] => d = e
    BY <1>1
  <2> HIDE DEF place, P
  <2>3. QED
    BY <2>1, <2>2 DEF Injection, IsInjective
<1>6. IsFiniteSet(all)
  BY <1>4, <1>5, FS_Injection
<1>7. IsFiniteSet(events)
  BY <1>6, FS_Subset DEF all
<1>8. \A e \in all : e.line \in Int /\ Detector!RuleNr(e) \in Int
  BY <1>1, <1>2, <1>3
<1>9. QED
  BY <1>1, <1>7, <1>8 DEF Placeable, all

\* For any window: it is silent when no rule matches a line of it, only then, and no event is put
\* together from lines with different markers.
THEOREM AnyWindowIsReported ==
  ASSUME NEW lines, IsWindow(lines)
  PROVE  /\ Detector!DetectAll(lines) = <<>> <=>
              \A rule \in Detector!Range(Detector!RULES) : Detector!Matched(rule, lines) = {}
         /\ \A e \in Detector!Range(Detector!DetectAll(lines)) : OneMarker(e, lines)
<1> DEFINE all == AllEvents(lines)
           telling == {e \in all : e.issue # "log"}
           events == Detector!Candidates(lines)
           kept == {e \in events : Detector!Kept(e, events)}
           sorted == Detector!InOrder(kept)
<1>1. events = IF telling # {} THEN telling ELSE all
  BY Zenon DEF Detector!Candidates, AllEvents
<1>2. Detector!DetectAll(lines) = Detector!Dedupe(sorted)
  BY Zenon DEF Detector!DetectAll
<1> HIDE DEF events
<1>3. events \subseteq all /\ (events = {} <=> all = {})
  BY <1>1
<1>4. all = {} <=> \A rule \in Detector!Range(Detector!RULES) : Detector!Matched(rule, lines) = {}
  BY EventsAre
<1>5. \A e \in all : OneMarker(e, lines) /\ e.line \in Int
  <2>1. \A e \in all : OneMarker(e, lines) /\ e.line \in DOMAIN lines
    BY EventsAre
  <2>2. DOMAIN lines \subseteq Int
    BY DEF IsWindow
  <2>3. QED
    BY <2>1, <2>2
<1> HIDE DEF all, telling
<1>6. events # {} => kept # {}
  <2>1. ASSUME events # {} PROVE \E e \in events : Detector!Kept(e, events)
    <3>1. \A e \in events : e.line \in Int
      BY <1>3, <1>5
    <3>2. QED
      BY <2>1, <3>1, SomethingIsKept
  <2>2. QED
    BY <2>1
<1>7. kept \subseteq events
  OBVIOUS
<1> HIDE DEF kept
<1>8. Placeable(kept)
  BY <1>3, <1>7, EventsArePlaceable DEF all
<1>9. sorted \in Seq(kept) /\ (kept # {} => sorted # <<>>)
  BY <1>8, InOrderIs
<1> HIDE DEF sorted
<1>10. /\ Detector!DetectAll(lines) \in Seq(kept)
       /\ Detector!DetectAll(lines) = <<>> <=> sorted = <<>>
  BY <1>2, <1>9, DedupeIs
<1>11. kept = {} => sorted = <<>>
  <2>1. ASSUME kept = {} PROVE sorted = <<>>
    <3>1. sorted \in Seq({})
      BY <1>9, <2>1
    <3>2. Len(sorted) = 0
      <4>1. Len(sorted) # 0 => sorted[1] \in {}
        BY <3>1
      <4>2. QED
        BY <4>1
    <3>3. QED
      BY <3>1, <3>2, EmptySeq
  <2>2. QED
    BY <2>1
<1>12. \A e \in Detector!Range(Detector!DetectAll(lines)) : e \in kept
  BY <1>10 DEF Detector!Range
<1>13. \A e \in Detector!Range(Detector!DetectAll(lines)) : OneMarker(e, lines)
  BY <1>3, <1>5, <1>7, <1>12
<1>14. Detector!DetectAll(lines) = <<>> <=> all = {}
  BY <1>3, <1>6, <1>7, <1>9, <1>10, <1>11
<1>15. QED
  BY <1>4, <1>13, <1>14

-----------------------------------------------------------------------------
(***************************************************************************)
(* What the tables say of their events: the rows of the registry and the   *)
(* rules of the detector, as sets.                                         *)
(***************************************************************************)
Pairs(rows) == {<<r.event, r.issue>> : r \in rows}

LEMMA RangeConcat ==
  ASSUME NEW S, NEW T, NEW s \in Seq(S), NEW t \in Seq(T)
  PROVE  Range(s \o t) = Range(s) \cup Range(t)
<1> DEFINE both == s \o t
<1>1. /\ \A i \in DOMAIN s : i \in DOMAIN both /\ both[i] = s[i]
      /\ \A i \in DOMAIN t : Len(s) + i \in DOMAIN both /\ both[Len(s) + i] = t[i]
      /\ \A i \in DOMAIN both :
           \/ i \in DOMAIN s /\ both[i] = s[i]
           \/ i - Len(s) \in DOMAIN t /\ both[i] = t[i - Len(s)]
  BY ConcatElements
<1> HIDE DEF both
<1>2. Range(both) = Range(s) \cup Range(t)
  BY <1>1 DEF Range
<1>3. QED
  BY <1>2 DEF both

LEMMA RangeOfTwo ==
  ASSUME NEW s1, NEW s2
  PROVE  Range(<<s1, s2>>) = {s1, s2}
<1> DEFINE specs == <<s1, s2>>
<1>1. /\ DOMAIN specs = 1..2
      /\ specs[1] = s1 /\ specs[2] = s2
  OBVIOUS
<1> HIDE DEF specs
<1>2. 1..2 = {1, 2}
  OBVIOUS
<1>3. Range(specs) = {s1, s2}
  BY <1>1, <1>2 DEF Range
<1>4. QED
  BY <1>3 DEF specs

LEMMA RangeOfThree ==
  ASSUME NEW s1, NEW s2, NEW s3
  PROVE  Range(<<s1, s2, s3>>) = {s1, s2, s3}
<1> DEFINE specs == <<s1, s2, s3>>
<1>1. /\ DOMAIN specs = 1..3
      /\ specs[1] = s1 /\ specs[2] = s2 /\ specs[3] = s3
  OBVIOUS
<1> HIDE DEF specs
<1>2. 1..3 = {1, 2, 3}
  OBVIOUS
<1>3. Range(specs) = {s1, s2, s3}
  BY <1>1, <1>2 DEF Range
<1>4. QED
  BY <1>3 DEF specs

LEMMA RangeOfFive ==
  ASSUME NEW s1, NEW s2, NEW s3, NEW s4, NEW s5
  PROVE  Range(<<s1, s2, s3, s4, s5>>) = {s1, s2, s3, s4, s5}
<1> DEFINE specs == <<s1, s2, s3, s4, s5>>
<1>1. /\ DOMAIN specs = 1..5
      /\ specs[1] = s1 /\ specs[2] = s2 /\ specs[3] = s3 /\ specs[4] = s4 /\ specs[5] = s5
  OBVIOUS
<1> HIDE DEF specs
<1>2. 1..5 = {1, 2, 3, 4, 5}
  OBVIOUS
<1>3. Range(specs) = {s1, s2, s3, s4, s5}
  BY <1>1, <1>2 DEF Range
<1>4. QED
  BY <1>3 DEF specs

LEMMA RangeOfSeven ==
  ASSUME NEW s1, NEW s2, NEW s3, NEW s4, NEW s5, NEW s6, NEW s7
  PROVE  Range(<<s1, s2, s3, s4, s5, s6, s7>>) = {s1, s2, s3, s4, s5, s6, s7}
<1> DEFINE specs == <<s1, s2, s3, s4, s5, s6, s7>>
<1>1. /\ DOMAIN specs = 1..7
      /\ specs[1] = s1 /\ specs[2] = s2 /\ specs[3] = s3 /\ specs[4] = s4 /\ specs[5] = s5
      /\ specs[6] = s6 /\ specs[7] = s7
  OBVIOUS
<1> HIDE DEF specs
<1>2. 1..7 = {1, 2, 3, 4, 5, 6, 7}
  OBVIOUS
<1>3. Range(specs) = {s1, s2, s3, s4, s5, s6, s7}
  BY <1>1, <1>2 DEF Range
<1>4. QED
  BY <1>3 DEF specs

LEMMA RangeOfFourteen ==
  ASSUME NEW s1, NEW s2, NEW s3, NEW s4, NEW s5, NEW s6, NEW s7, NEW s8, NEW s9, NEW s10,
         NEW s11, NEW s12, NEW s13, NEW s14
  PROVE  Range(<<s1, s2, s3, s4, s5, s6, s7, s8, s9, s10, s11, s12, s13, s14>>) = {s1, s2, s3, s4, s5, s6, s7, s8, s9, s10, s11, s12, s13, s14}
<1> DEFINE specs == <<s1, s2, s3, s4, s5, s6, s7, s8, s9, s10, s11, s12, s13, s14>>
<1>1. /\ DOMAIN specs = 1..14
      /\ specs[1] = s1 /\ specs[2] = s2 /\ specs[3] = s3 /\ specs[4] = s4 /\ specs[5] = s5
      /\ specs[6] = s6 /\ specs[7] = s7 /\ specs[8] = s8 /\ specs[9] = s9 /\ specs[10] = s10
      /\ specs[11] = s11 /\ specs[12] = s12 /\ specs[13] = s13 /\ specs[14] = s14
  OBVIOUS
<1> HIDE DEF specs
<1>2. 1..14 = {1, 2, 3, 4, 5, 6, 7, 8, 9, 10, 11, 12, 13, 14}
  OBVIOUS
<1>3. Range(specs) = {s1, s2, s3, s4, s5, s6, s7, s8, s9, s10, s11, s12, s13, s14}
  BY <1>1, <1>2 DEF Range
<1>4. QED
  BY <1>3 DEF specs

LEMMA StorageRulesPairs ==
  Pairs(Range(Detector!StorageRules)) =
    {<<"gpu_oom", "gpu">>, <<"cache_write_failed", "cache">>,
     <<"optional_cache_backend_failed", "optional_cache_backend">>, <<"disk_full", "disk">>,
     <<"network_port", "network_port">>}
<1>1. PICK p1, p2, p3, p4, p5 :
        Detector!StorageRules = <<
          Detector!Rule("gpu_oom", "gpu", "high", p1),
          Detector!Rule("cache_write_failed", "cache", "medium", p2),
          Detector!Rule("optional_cache_backend_failed", "optional_cache_backend", "medium", p3),
          Detector!Rule("disk_full", "disk", "high", p4),
          Detector!Rule("network_port", "network_port", "medium", p5) >>
  BY Zenon DEF Detector!StorageRules
<1> DEFINE s1 == Detector!Rule("gpu_oom", "gpu", "high", p1)
           s2 == Detector!Rule("cache_write_failed", "cache", "medium", p2)
           s3 == Detector!Rule("optional_cache_backend_failed", "optional_cache_backend", "medium", p3)
           s4 == Detector!Rule("disk_full", "disk", "high", p4)
           s5 == Detector!Rule("network_port", "network_port", "medium", p5)
<1>2. /\ s1.event = "gpu_oom" /\ s1.issue = "gpu"
      /\ s2.event = "cache_write_failed" /\ s2.issue = "cache"
      /\ s3.event = "optional_cache_backend_failed" /\ s3.issue = "optional_cache_backend"
      /\ s4.event = "disk_full" /\ s4.issue = "disk"
      /\ s5.event = "network_port" /\ s5.issue = "network_port"
  BY DEF Detector!Rule
<1> HIDE DEF s1, s2, s3, s4, s5
<1>3. Range(<<s1, s2, s3, s4, s5>>) = {s1, s2, s3, s4, s5}
  BY RangeOfFive
<1>4. Pairs({s1, s2, s3, s4, s5}) =
        {<<s1.event, s1.issue>>, <<s2.event, s2.issue>>, <<s3.event, s3.issue>>,
         <<s4.event, s4.issue>>, <<s5.event, s5.issue>>}
  BY DEF Pairs
<1>5. QED
  BY <1>1, <1>2, <1>3, <1>4 DEF s1, s2, s3, s4, s5

LEMMA OptionalRulesPairs ==
  Pairs(Range(Detector!OptionalRules)) =
    {<<"optional_dependency_missing", "optional_dependency">>,
     <<"optional_integration_failed", "optional_integration">>,
     <<"notification_sink_failed", "notification_sink">>,
     <<"optional_service_unavailable", "optional_service">>, <<"python_env", "python_env">>}
<1>1. PICK p1, p2, p3, p4, p5 :
        Detector!OptionalRules = <<
          Detector!Rule("optional_dependency_missing", "optional_dependency", "medium", p1),
          Detector!Rule("optional_integration_failed", "optional_integration", "medium", p2),
          Detector!Rule("notification_sink_failed", "notification_sink", "medium", p3),
          Detector!Rule("optional_service_unavailable", "optional_service", "medium", p4),
          Detector!Rule("python_env", "python_env", "medium", p5) >>
  BY Zenon DEF Detector!OptionalRules
<1> DEFINE s1 == Detector!Rule("optional_dependency_missing", "optional_dependency", "medium", p1)
           s2 == Detector!Rule("optional_integration_failed", "optional_integration", "medium", p2)
           s3 == Detector!Rule("notification_sink_failed", "notification_sink", "medium", p3)
           s4 == Detector!Rule("optional_service_unavailable", "optional_service", "medium", p4)
           s5 == Detector!Rule("python_env", "python_env", "medium", p5)
<1>2. /\ s1.event = "optional_dependency_missing" /\ s1.issue = "optional_dependency"
      /\ s2.event = "optional_integration_failed" /\ s2.issue = "optional_integration"
      /\ s3.event = "notification_sink_failed" /\ s3.issue = "notification_sink"
      /\ s4.event = "optional_service_unavailable" /\ s4.issue = "optional_service"
      /\ s5.event = "python_env" /\ s5.issue = "python_env"
  BY DEF Detector!Rule
<1> HIDE DEF s1, s2, s3, s4, s5
<1>3. Range(<<s1, s2, s3, s4, s5>>) = {s1, s2, s3, s4, s5}
  BY RangeOfFive
<1>4. Pairs({s1, s2, s3, s4, s5}) =
        {<<s1.event, s1.issue>>, <<s2.event, s2.issue>>, <<s3.event, s3.issue>>,
         <<s4.event, s4.issue>>, <<s5.event, s5.issue>>}
  BY DEF Pairs
<1>5. QED
  BY <1>1, <1>2, <1>3, <1>4 DEF s1, s2, s3, s4, s5

LEMMA LoadRulesPairs ==
  Pairs(Range(Detector!LoadRules)) =
    {<<"queue_backpressure", "queue_backpressure">>,
     <<"observability_export_failed", "observability_export">>,
     <<"worker_overload", "worker_overload">>, <<"slurm", "slurm">>,
     <<"process_crash", "process">>, <<"container_k8s", "container_k8s">>,
     <<"host_resource", "host_resource">>}
<1>1. PICK p1, p2, p3, p4, p5, p6, p7 :
        Detector!LoadRules = <<
          Detector!Rule("queue_backpressure", "queue_backpressure", "medium", p1),
          Detector!Rule("observability_export_failed", "observability_export", "medium", p2),
          Detector!Rule("worker_overload", "worker_overload", "medium", p3),
          Detector!Rule("slurm", "slurm", "high", p4),
          Detector!Rule("process_crash", "process", "high", p5),
          Detector!Rule("container_k8s", "container_k8s", "high", p6),
          Detector!Rule("host_resource", "host_resource", "high", p7) >>
  BY Zenon DEF Detector!LoadRules
<1> DEFINE s1 == Detector!Rule("queue_backpressure", "queue_backpressure", "medium", p1)
           s2 == Detector!Rule("observability_export_failed", "observability_export", "medium", p2)
           s3 == Detector!Rule("worker_overload", "worker_overload", "medium", p3)
           s4 == Detector!Rule("slurm", "slurm", "high", p4)
           s5 == Detector!Rule("process_crash", "process", "high", p5)
           s6 == Detector!Rule("container_k8s", "container_k8s", "high", p6)
           s7 == Detector!Rule("host_resource", "host_resource", "high", p7)
<1>2. /\ s1.event = "queue_backpressure" /\ s1.issue = "queue_backpressure"
      /\ s2.event = "observability_export_failed" /\ s2.issue = "observability_export"
      /\ s3.event = "worker_overload" /\ s3.issue = "worker_overload"
      /\ s4.event = "slurm" /\ s4.issue = "slurm"
      /\ s5.event = "process_crash" /\ s5.issue = "process"
      /\ s6.event = "container_k8s" /\ s6.issue = "container_k8s"
      /\ s7.event = "host_resource" /\ s7.issue = "host_resource"
  BY DEF Detector!Rule
<1> HIDE DEF s1, s2, s3, s4, s5, s6, s7
<1>3. Range(<<s1, s2, s3, s4, s5, s6, s7>>) = {s1, s2, s3, s4, s5, s6, s7}
  BY RangeOfSeven
<1>4. Pairs({s1, s2, s3, s4, s5, s6, s7}) =
        {<<s1.event, s1.issue>>, <<s2.event, s2.issue>>, <<s3.event, s3.issue>>,
         <<s4.event, s4.issue>>, <<s5.event, s5.issue>>, <<s6.event, s6.issue>>,
         <<s7.event, s7.issue>>}
  BY DEF Pairs
<1>5. QED
  BY <1>1, <1>2, <1>3, <1>4 DEF s1, s2, s3, s4, s5, s6, s7

LEMMA ServiceRulesPairs ==
  Pairs(Range(Detector!ServiceRules)) =
    {<<"network_connectivity", "network_connectivity">>,
     <<"dependency_service", "dependency_service">>, <<"process_kill", "process">>,
     <<"config_path", "config_path">>, <<"model_path", "model_path">>}
<1>1. PICK p1, p2, p3, p4, p5 :
        Detector!ServiceRules = <<
          Detector!Rule("network_connectivity", "network_connectivity", "medium", p1),
          Detector!Rule("dependency_service", "dependency_service", "high", p2),
          Detector!Rule("process_kill", "process", "high", p3),
          Detector!Rule("config_path", "config_path", "medium", p4),
          Detector!Rule("model_path", "model_path", "medium", p5) >>
  BY Zenon DEF Detector!ServiceRules
<1> DEFINE s1 == Detector!Rule("network_connectivity", "network_connectivity", "medium", p1)
           s2 == Detector!Rule("dependency_service", "dependency_service", "high", p2)
           s3 == Detector!Rule("process_kill", "process", "high", p3)
           s4 == Detector!Rule("config_path", "config_path", "medium", p4)
           s5 == Detector!Rule("model_path", "model_path", "medium", p5)
<1>2. /\ s1.event = "network_connectivity" /\ s1.issue = "network_connectivity"
      /\ s2.event = "dependency_service" /\ s2.issue = "dependency_service"
      /\ s3.event = "process_kill" /\ s3.issue = "process"
      /\ s4.event = "config_path" /\ s4.issue = "config_path"
      /\ s5.event = "model_path" /\ s5.issue = "model_path"
  BY DEF Detector!Rule
<1> HIDE DEF s1, s2, s3, s4, s5
<1>3. Range(<<s1, s2, s3, s4, s5>>) = {s1, s2, s3, s4, s5}
  BY RangeOfFive
<1>4. Pairs({s1, s2, s3, s4, s5}) =
        {<<s1.event, s1.issue>>, <<s2.event, s2.issue>>, <<s3.event, s3.issue>>,
         <<s4.event, s4.issue>>, <<s5.event, s5.issue>>}
  BY DEF Pairs
<1>5. QED
  BY <1>1, <1>2, <1>3, <1>4 DEF s1, s2, s3, s4, s5

LEMMA PersonRulesPairs ==
  Pairs(Range(Detector!PersonRules)) =
    {<<"sudo_required", "system">>, <<"config_error", "config">>, <<"auth_cert", "auth_cert">>,
     <<"permission_denied", "permission">>, <<"traceback", "log">>}
<1>1. PICK p1, p2, p3, p4, p5 :
        Detector!PersonRules = <<
          Detector!Rule("sudo_required", "system", "high", p1),
          Detector!Rule("config_error", "config", "high", p2),
          Detector!Rule("auth_cert", "auth_cert", "high", p3),
          Detector!Rule("permission_denied", "permission", "high", p4),
          Detector!Rule("traceback", "log", "medium", p5) >>
  BY Zenon DEF Detector!PersonRules
<1> DEFINE s1 == Detector!Rule("sudo_required", "system", "high", p1)
           s2 == Detector!Rule("config_error", "config", "high", p2)
           s3 == Detector!Rule("auth_cert", "auth_cert", "high", p3)
           s4 == Detector!Rule("permission_denied", "permission", "high", p4)
           s5 == Detector!Rule("traceback", "log", "medium", p5)
<1>2. /\ s1.event = "sudo_required" /\ s1.issue = "system"
      /\ s2.event = "config_error" /\ s2.issue = "config"
      /\ s3.event = "auth_cert" /\ s3.issue = "auth_cert"
      /\ s4.event = "permission_denied" /\ s4.issue = "permission"
      /\ s5.event = "traceback" /\ s5.issue = "log"
  BY DEF Detector!Rule
<1> HIDE DEF s1, s2, s3, s4, s5
<1>3. Range(<<s1, s2, s3, s4, s5>>) = {s1, s2, s3, s4, s5}
  BY RangeOfFive
<1>4. Pairs({s1, s2, s3, s4, s5}) =
        {<<s1.event, s1.issue>>, <<s2.event, s2.issue>>, <<s3.event, s3.issue>>,
         <<s4.event, s4.issue>>, <<s5.event, s5.issue>>}
  BY DEF Pairs
<1>5. QED
  BY <1>1, <1>2, <1>3, <1>4 DEF s1, s2, s3, s4, s5

-----------------------------------------------------------------------------
(***************************************************************************)
(* The specs of the registry: what they are of, and that each has fields   *)
(* to change.                                                              *)
(***************************************************************************)
Trios(specs) == {<<s.event, s.issue, s.fix>> : s \in specs}

\* A list of names.
Names(fields) ==
  /\ \E S : fields \in Seq(S)
  /\ fields # <<>>
  /\ \A f \in Range(fields) : ~Nameless(f)

\* Candidates, each of a field.
Filled(cs) ==
  /\ \E S : cs \in Seq(S)
  /\ cs # <<>>
  /\ \A c \in Range(cs) : ~Nameless(c.field)

LEMMA FilledOfOne ==
  ASSUME NEW s1,
         ~Nameless(s1.field)
  PROVE  Filled(<<s1>>)
<1>1. <<s1>> \in Seq({s1}) /\ <<s1>> # <<>>
  OBVIOUS
<1>2. \A f \in Range(<<s1>>) : f \in {s1}
  BY DEF Range
<1>3. QED
  BY <1>1, <1>2 DEF Filled

LEMMA FilledOfTwo ==
  ASSUME NEW s1, NEW s2,
         ~Nameless(s1.field), ~Nameless(s2.field)
  PROVE  Filled(<<s1, s2>>)
<1>1. <<s1, s2>> \in Seq({s1, s2}) /\ <<s1, s2>> # <<>>
  OBVIOUS
<1>2. \A f \in Range(<<s1, s2>>) : f \in {s1, s2}
  BY DEF Range
<1>3. QED
  BY <1>1, <1>2 DEF Filled

LEMMA FilledOfThree ==
  ASSUME NEW s1, NEW s2, NEW s3,
         ~Nameless(s1.field), ~Nameless(s2.field), ~Nameless(s3.field)
  PROVE  Filled(<<s1, s2, s3>>)
<1>1. <<s1, s2, s3>> \in Seq({s1, s2, s3}) /\ <<s1, s2, s3>> # <<>>
  OBVIOUS
<1>2. \A f \in Range(<<s1, s2, s3>>) : f \in {s1, s2, s3}
  BY DEF Range
<1>3. QED
  BY <1>1, <1>2 DEF Filled

LEMMA NamesOfFour ==
  ASSUME NEW s1, NEW s2, NEW s3, NEW s4,
         ~Nameless(s1), ~Nameless(s2), ~Nameless(s3), ~Nameless(s4)
  PROVE  Names(<<s1, s2, s3, s4>>)
<1>1. <<s1, s2, s3, s4>> \in Seq({s1, s2, s3, s4}) /\ <<s1, s2, s3, s4>> # <<>>
  OBVIOUS
<1>2. \A f \in Range(<<s1, s2, s3, s4>>) : f \in {s1, s2, s3, s4}
  BY DEF Range
<1>3. QED
  BY <1>1, <1>2 DEF Names

LEMMA NamesOfFive ==
  ASSUME NEW s1, NEW s2, NEW s3, NEW s4, NEW s5,
         ~Nameless(s1), ~Nameless(s2), ~Nameless(s3), ~Nameless(s4), ~Nameless(s5)
  PROVE  Names(<<s1, s2, s3, s4, s5>>)
<1>1. <<s1, s2, s3, s4, s5>> \in Seq({s1, s2, s3, s4, s5}) /\ <<s1, s2, s3, s4, s5>> # <<>>
  OBVIOUS
<1>2. \A f \in Range(<<s1, s2, s3, s4, s5>>) : f \in {s1, s2, s3, s4, s5}
  BY DEF Range
<1>3. QED
  BY <1>1, <1>2 DEF Names

LEMMA NamesOfSix ==
  ASSUME NEW s1, NEW s2, NEW s3, NEW s4, NEW s5, NEW s6,
         ~Nameless(s1), ~Nameless(s2), ~Nameless(s3), ~Nameless(s4), ~Nameless(s5),
         ~Nameless(s6)
  PROVE  Names(<<s1, s2, s3, s4, s5, s6>>)
<1>1. <<s1, s2, s3, s4, s5, s6>> \in Seq({s1, s2, s3, s4, s5, s6}) /\ <<s1, s2, s3, s4, s5, s6>> # <<>>
  OBVIOUS
<1>2. \A f \in Range(<<s1, s2, s3, s4, s5, s6>>) : f \in {s1, s2, s3, s4, s5, s6}
  BY DEF Range
<1>3. QED
  BY <1>1, <1>2 DEF Names

LEMMA FilledOfSix ==
  ASSUME NEW s1, NEW s2, NEW s3, NEW s4, NEW s5, NEW s6,
         ~Nameless(s1.field), ~Nameless(s2.field), ~Nameless(s3.field), ~Nameless(s4.field),
         ~Nameless(s5.field), ~Nameless(s6.field)
  PROVE  Filled(<<s1, s2, s3, s4, s5, s6>>)
<1>1. <<s1, s2, s3, s4, s5, s6>> \in Seq({s1, s2, s3, s4, s5, s6}) /\ <<s1, s2, s3, s4, s5, s6>> # <<>>
  OBVIOUS
<1>2. \A f \in Range(<<s1, s2, s3, s4, s5, s6>>) : f \in {s1, s2, s3, s4, s5, s6}
  BY DEF Range
<1>3. QED
  BY <1>1, <1>2 DEF Filled

LEMMA NamesOfSeven ==
  ASSUME NEW s1, NEW s2, NEW s3, NEW s4, NEW s5, NEW s6, NEW s7,
         ~Nameless(s1), ~Nameless(s2), ~Nameless(s3), ~Nameless(s4), ~Nameless(s5),
         ~Nameless(s6), ~Nameless(s7)
  PROVE  Names(<<s1, s2, s3, s4, s5, s6, s7>>)
<1>1. <<s1, s2, s3, s4, s5, s6, s7>> \in Seq({s1, s2, s3, s4, s5, s6, s7}) /\ <<s1, s2, s3, s4, s5, s6, s7>> # <<>>
  OBVIOUS
<1>2. \A f \in Range(<<s1, s2, s3, s4, s5, s6, s7>>) : f \in {s1, s2, s3, s4, s5, s6, s7}
  BY DEF Range
<1>3. QED
  BY <1>1, <1>2 DEF Names

LEMMA FilledMany ==
  ASSUME NEW fields, Names(fields)
  PROVE  Filled(Offs(fields)) /\ \A n : Filled(Lowers(fields, n))
<1>1. PICK S : fields \in Seq(S)
  BY DEF Names
<1>2. 1 \in DOMAIN fields
  BY <1>1, EmptySeq DEF Names
<1>3. Filled(Offs(fields))
  <2> DEFINE cs == Offs(fields)
  <2>1. cs \in Seq({Off(fields[i]) : i \in DOMAIN fields}) /\ DOMAIN cs = DOMAIN fields
    BY <1>1 DEF Offs
  <2>2. \A i \in DOMAIN cs : cs[i].field = fields[i]
    BY DEF Offs, Off
  <2> HIDE DEF cs
  <2>3. QED
    BY <1>2, <2>1, <2>2 DEF Filled, Names, Range, cs
<1>4. ASSUME NEW n PROVE Filled(Lowers(fields, n))
  <2> DEFINE cs == Lowers(fields, n)
  <2>1. cs \in Seq({Lower(fields[i], n) : i \in DOMAIN fields}) /\ DOMAIN cs = DOMAIN fields
    BY <1>1 DEF Lowers
  <2>2. \A i \in DOMAIN cs : cs[i].field = fields[i]
    BY DEF Lowers, Lower
  <2> HIDE DEF cs
  <2>3. QED
    BY <1>2, <2>1, <2>2 DEF Filled, Names, Range, cs
<1>5. QED
  BY <1>3, <1>4

LEMMA FilledConcat ==
  ASSUME NEW cs, NEW ds, Filled(cs), Filled(ds)
  PROVE  Filled(cs \o ds)
<1>1. PICK S : cs \in Seq(S)
  BY DEF Filled
<1>2. PICK T : ds \in Seq(T)
  BY DEF Filled
<1>3. cs \o ds \in Seq(S \cup T) /\ Range(cs \o ds) = Range(cs) \cup Range(ds)
  BY <1>1, <1>2, ConcatElements, RangeConcat
<1>4. cs \o ds # <<>>
  <2>1. 1 \in DOMAIN cs
    BY <1>1, EmptySeq DEF Filled
  <2>2. 1 \in DOMAIN (cs \o ds)
    BY <1>1, <1>2, <2>1, ConcatElements
  <2>3. DOMAIN <<>> = {}
    OBVIOUS
  <2>4. QED
    BY <2>2, <2>3
<1>5. QED
  BY <1>3, <1>4 DEF Filled

LEMMA HostSpecsRows ==
  /\ Trios(Range(HostSpecs)) =
       {<<"network_port", "network_port", "fix-network-1">>, <<"gpu_oom", "gpu", "fix-gpu-1">>}
  /\ \A spec \in Range(HostSpecs) : Filled(spec.candidates)
<1> DEFINE few1 == <<Port("metrics_port", 9101)>>
           c1 == few1
           s1 == SafeSpec("network_port", "network_port", "fix-network-1", c1)
           fields2 == <<"batch_size", "train_batch_size", "per_device_train_batch_size",
                          "samples_per_gpu", "training.batch_size", "model.batch_size">>
           c2 == Lowers(fields2, 4)
           s2 == SafeSpec("gpu_oom", "gpu", "fix-gpu-1", c2)
<1>1. HostSpecs = <<s1, s2>>
  BY Zenon DEF HostSpecs
<1>2. Filled(c1)
  <2>1. /\ ~Nameless("metrics_port")
    BY Zenon DEF Nameless
  <2>2. /\ ~Nameless(Port("metrics_port", 9101).field)
    BY <2>1 DEF Port
  <2>3. Filled(few1)
    BY <2>2, FilledOfOne
  <2>4. QED
    BY <2>3
<1>3. Filled(c2)
  <2>1. Names(fields2)
    BY NamesOfSix, Zenon DEF Nameless
  <2> HIDE DEF fields2
  <2>2. Filled(Lowers(fields2, 4))
    BY <2>1, FilledMany
  <2>3. QED
    BY <2>2
<1> HIDE DEF c1, c2
<1>4. /\ s1.event = "network_port" /\ s1.issue = "network_port" /\ s1.fix = "fix-network-1"
      /\ s1.candidates = c1
      /\ s2.event = "gpu_oom" /\ s2.issue = "gpu" /\ s2.fix = "fix-gpu-1"
      /\ s2.candidates = c2
  BY DEF SafeSpec
<1> HIDE DEF s1, s2
<1>5. Range(<<s1, s2>>) = {s1, s2}
  BY RangeOfTwo
<1>6. Trios({s1, s2}) =
        {<<s1.event, s1.issue, s1.fix>>, <<s2.event, s2.issue, s2.fix>>}
  BY DEF Trios
<1>7. QED
  BY <1>1, <1>2, <1>3, <1>4, <1>5, <1>6

LEMMA OptionalSpecsRows ==
  /\ Trios(Range(OptionalSpecs)) =
       {<<"cache_write_failed", "cache", "fix-cache-1">>,
        <<"optional_dependency_missing", "optional_dependency", "fix-optional-dep-1">>,
        <<"optional_integration_failed", "optional_integration", "fix-optional-integration-1">>}
  /\ \A spec \in Range(OptionalSpecs) : Filled(spec.candidates)
<1> DEFINE fields1 == <<"cache_enabled", "feature_cache_enabled", "cache.write_enabled",
                          "simulate_cache_write_failed", "simulate_disk_full">>
           c1 == Offs(fields1)
           s1 == SafeSpec("cache_write_failed", "cache", "fix-cache-1", c1)
           fields2 == <<"optional_dependency_enabled",
                          "optional_dependencies.internal_risk_sdk.enabled",
                          "plugins.internal_risk_sdk.enabled", "risk_sdk_enabled",
                          "simulate_python_env_mismatch">>
           c2 == Offs(fields2)
           s2 == SafeSpec("optional_dependency_missing", "optional_dependency", "fix-optional-dep-1", c2)
           fields3 == <<"optional_webhook_enabled", "risk_sdk_enabled",
                          "enrichment_client_enabled", "optional_integrations.risk_sdk.enabled",
                          "optional_integrations.enrichment.enabled",
                          "simulate_optional_integration_failed">>
           c3 == Offs(fields3)
           s3 == SafeSpec("optional_integration_failed", "optional_integration", "fix-optional-integration-1", c3)
<1>1. OptionalSpecs = <<s1, s2, s3>>
  BY Zenon DEF OptionalSpecs
<1>2. Filled(c1)
  <2>1. Names(fields1)
    BY NamesOfFive, Zenon DEF Nameless
  <2> HIDE DEF fields1
  <2>2. Filled(Offs(fields1))
    BY <2>1, FilledMany
  <2>3. QED
    BY <2>2
<1>3. Filled(c2)
  <2>1. Names(fields2)
    BY NamesOfFive, Zenon DEF Nameless
  <2> HIDE DEF fields2
  <2>2. Filled(Offs(fields2))
    BY <2>1, FilledMany
  <2>3. QED
    BY <2>2
<1>4. Filled(c3)
  <2>1. Names(fields3)
    BY NamesOfSix, Zenon DEF Nameless
  <2> HIDE DEF fields3
  <2>2. Filled(Offs(fields3))
    BY <2>1, FilledMany
  <2>3. QED
    BY <2>2
<1> HIDE DEF c1, c2, c3
<1>5. /\ s1.event = "cache_write_failed" /\ s1.issue = "cache" /\ s1.fix = "fix-cache-1"
      /\ s1.candidates = c1
      /\ s2.event = "optional_dependency_missing" /\ s2.issue = "optional_dependency" /\ s2.fix = "fix-optional-dep-1"
      /\ s2.candidates = c2
      /\ s3.event = "optional_integration_failed" /\ s3.issue = "optional_integration" /\ s3.fix = "fix-optional-integration-1"
      /\ s3.candidates = c3
  BY DEF SafeSpec
<1> HIDE DEF s1, s2, s3
<1>6. Range(<<s1, s2, s3>>) = {s1, s2, s3}
  BY RangeOfThree
<1>7. Trios({s1, s2, s3}) =
        {<<s1.event, s1.issue, s1.fix>>, <<s2.event, s2.issue, s2.fix>>,
         <<s3.event, s3.issue, s3.fix>>}
  BY DEF Trios
<1>8. QED
  BY <1>1, <1>2, <1>3, <1>4, <1>5, <1>6, <1>7

LEMMA ServiceSpecsRows ==
  /\ Trios(Range(ServiceSpecs)) =
       {<<"optional_cache_backend_failed", "optional_cache_backend", "fix-cache-backend-1">>,
        <<"optional_service_unavailable", "optional_service", "fix-optional-service-1">>,
        <<"notification_sink_failed", "notification_sink", "fix-notification-sink-1">>}
  /\ \A spec \in Range(ServiceSpecs) : Filled(spec.candidates)
<1> DEFINE few1 == <<Degrade("cache.backend", "memory"), Degrade("cache.mode", "memory")>>
           fields1 == <<"cache.redis_enabled", "cache.write_enabled", "feature_cache_enabled",
                          "simulate_optional_cache_backend_failed">>
           c1 == few1 \o Offs(fields1)
           s1 == SafeSpec("optional_cache_backend_failed", "optional_cache_backend", "fix-cache-backend-1", c1)
           fields2 == <<"optional_services.enrichment.enabled",
                          "optional_services.recommendation.enabled",
                          "optional_services.risk_scoring.enabled", "enrichment_enabled",
                          "recommendation_enabled", "external_risk_scoring_enabled",
                          "simulate_optional_service_unavailable">>
           c2 == Offs(fields2)
           s2 == SafeSpec("optional_service_unavailable", "optional_service", "fix-optional-service-1", c2)
           fields3 == <<"notification.webhook_enabled", "notifications.webhook.enabled",
                          "notification.remote_sink_enabled",
                          "notification_sink.webhook_enabled",
                          "simulate_notification_sink_failed">>
           c3 == Offs(fields3)
           s3 == SafeSpec("notification_sink_failed", "notification_sink", "fix-notification-sink-1", c3)
<1>1. ServiceSpecs = <<s1, s2, s3>>
  BY Zenon DEF ServiceSpecs
<1>2. Filled(c1)
  <2>1. /\ ~Nameless("cache.backend")
        /\ ~Nameless("cache.mode")
    BY Zenon DEF Nameless
  <2>2. /\ ~Nameless(Degrade("cache.backend", "memory").field)
        /\ ~Nameless(Degrade("cache.mode", "memory").field)
    BY <2>1 DEF Degrade
  <2>3. Filled(few1)
    BY <2>2, FilledOfTwo, Zenon
  <2>4. Names(fields1)
    BY NamesOfFour, Zenon DEF Nameless
  <2> HIDE DEF fields1
  <2>5. Filled(Offs(fields1))
    BY <2>4, FilledMany
  <2> HIDE DEF few1
  <2>6. QED
    BY <2>3, <2>5, FilledConcat
<1>3. Filled(c2)
  <2>1. Names(fields2)
    BY NamesOfSeven, Zenon DEF Nameless
  <2> HIDE DEF fields2
  <2>2. Filled(Offs(fields2))
    BY <2>1, FilledMany
  <2>3. QED
    BY <2>2
<1>4. Filled(c3)
  <2>1. Names(fields3)
    BY NamesOfFive, Zenon DEF Nameless
  <2> HIDE DEF fields3
  <2>2. Filled(Offs(fields3))
    BY <2>1, FilledMany
  <2>3. QED
    BY <2>2
<1> HIDE DEF c1, c2, c3
<1>5. /\ s1.event = "optional_cache_backend_failed" /\ s1.issue = "optional_cache_backend" /\ s1.fix = "fix-cache-backend-1"
      /\ s1.candidates = c1
      /\ s2.event = "optional_service_unavailable" /\ s2.issue = "optional_service" /\ s2.fix = "fix-optional-service-1"
      /\ s2.candidates = c2
      /\ s3.event = "notification_sink_failed" /\ s3.issue = "notification_sink" /\ s3.fix = "fix-notification-sink-1"
      /\ s3.candidates = c3
  BY DEF SafeSpec
<1> HIDE DEF s1, s2, s3
<1>6. Range(<<s1, s2, s3>>) = {s1, s2, s3}
  BY RangeOfThree
<1>7. Trios({s1, s2, s3}) =
        {<<s1.event, s1.issue, s1.fix>>, <<s2.event, s2.issue, s2.fix>>,
         <<s3.event, s3.issue, s3.fix>>}
  BY DEF Trios
<1>8. QED
  BY <1>1, <1>2, <1>3, <1>4, <1>5, <1>6, <1>7

LEMMA LoadSpecsRows ==
  /\ Trios(Range(LoadSpecs)) =
       {<<"observability_export_failed", "observability_export", "fix-observability-export-1">>,
        <<"queue_backpressure", "queue_backpressure", "fix-queue-backpressure-1">>,
        <<"worker_overload", "worker_overload", "fix-worker-1">>}
  /\ \A spec \in Range(LoadSpecs) : Filled(spec.candidates)
<1> DEFINE few1 == <<Degrade("observability.exporter_mode", "local"),
                       Degrade("observability.metrics_sink", "file"),
                       Degrade("observability.tracing_sink", "console")>>
           fields1 == <<"observability.remote_exporter_enabled",
                          "metrics.remote_exporter_enabled", "tracing.remote_exporter_enabled",
                          "simulate_observability_export_failed">>
           c1 == few1 \o Offs(fields1)
           s1 == SafeSpec("observability_export_failed", "observability_export", "fix-observability-export-1", c1)
           few2 == <<Lower("prefetch_count", 2), Lower("max_inflight", 10),
                       Lower("consumer_workers", 2), Lower("queue.prefetch_count", 2),
                       Lower("queue.max_inflight", 10), Lower("queue.consumer_workers", 2)>>
           c2 == few2
           s2 == SafeSpec("queue_backpressure", "queue_backpressure", "fix-queue-backpressure-1", c2)
           fields3 == <<"worker_concurrency", "workers", "max_workers", "consumer_workers",
                          "worker.concurrency", "server.workers">>
           c3 == Lowers(fields3, 2)
           s3 == SafeSpec("worker_overload", "worker_overload", "fix-worker-1", c3)
<1>1. LoadSpecs = <<s1, s2, s3>>
  BY Zenon DEF LoadSpecs
<1>2. Filled(c1)
  <2>1. /\ ~Nameless("observability.exporter_mode")
        /\ ~Nameless("observability.metrics_sink")
        /\ ~Nameless("observability.tracing_sink")
    BY Zenon DEF Nameless
  <2>2. /\ ~Nameless(Degrade("observability.exporter_mode", "local").field)
        /\ ~Nameless(Degrade("observability.metrics_sink", "file").field)
        /\ ~Nameless(Degrade("observability.tracing_sink", "console").field)
    BY <2>1 DEF Degrade
  <2>3. Filled(few1)
    BY <2>2, FilledOfThree, Zenon
  <2>4. Names(fields1)
    BY NamesOfFour, Zenon DEF Nameless
  <2> HIDE DEF fields1
  <2>5. Filled(Offs(fields1))
    BY <2>4, FilledMany
  <2> HIDE DEF few1
  <2>6. QED
    BY <2>3, <2>5, FilledConcat
<1>3. Filled(c2)
  <2>1. /\ ~Nameless("prefetch_count")
        /\ ~Nameless("max_inflight")
        /\ ~Nameless("consumer_workers")
        /\ ~Nameless("queue.prefetch_count")
        /\ ~Nameless("queue.max_inflight")
        /\ ~Nameless("queue.consumer_workers")
    BY Zenon DEF Nameless
  <2>2. /\ ~Nameless(Lower("prefetch_count", 2).field)
        /\ ~Nameless(Lower("max_inflight", 10).field)
        /\ ~Nameless(Lower("consumer_workers", 2).field)
        /\ ~Nameless(Lower("queue.prefetch_count", 2).field)
        /\ ~Nameless(Lower("queue.max_inflight", 10).field)
        /\ ~Nameless(Lower("queue.consumer_workers", 2).field)
    BY <2>1 DEF Lower
  <2>3. Filled(few2)
    BY <2>2, FilledOfSix, Zenon
  <2>4. QED
    BY <2>3
<1>4. Filled(c3)
  <2>1. Names(fields3)
    BY NamesOfSix, Zenon DEF Nameless
  <2> HIDE DEF fields3
  <2>2. Filled(Lowers(fields3, 2))
    BY <2>1, FilledMany
  <2>3. QED
    BY <2>2
<1> HIDE DEF c1, c2, c3
<1>5. /\ s1.event = "observability_export_failed" /\ s1.issue = "observability_export" /\ s1.fix = "fix-observability-export-1"
      /\ s1.candidates = c1
      /\ s2.event = "queue_backpressure" /\ s2.issue = "queue_backpressure" /\ s2.fix = "fix-queue-backpressure-1"
      /\ s2.candidates = c2
      /\ s3.event = "worker_overload" /\ s3.issue = "worker_overload" /\ s3.fix = "fix-worker-1"
      /\ s3.candidates = c3
  BY DEF SafeSpec
<1> HIDE DEF s1, s2, s3
<1>6. Range(<<s1, s2, s3>>) = {s1, s2, s3}
  BY RangeOfThree
<1>7. Trios({s1, s2, s3}) =
        {<<s1.event, s1.issue, s1.fix>>, <<s2.event, s2.issue, s2.fix>>,
         <<s3.event, s3.issue, s3.fix>>}
  BY DEF Trios
<1>8. QED
  BY <1>1, <1>2, <1>3, <1>4, <1>5, <1>6, <1>7

-----------------------------------------------------------------------------
(***************************************************************************)
(* The domains.                                                            *)
(***************************************************************************)
Quads(rows) == {<<d.event, d.issue, d.layer, d.fix>> : d \in rows}

LEMMA ManualDomainsRows ==
  /\ Named(ManualDomains,
           {"auth_cert", "config_error", "container_k8s", "dependency_service", "disk_full",
            "host_resource", "network_connectivity", "permission_denied", "process_crash",
            "process_kill", "python_env", "slurm", "sudo_required", "unknown"})
  /\ Quads(Range(ManualDomains)) =
       {<<"auth_cert", "auth_cert", "manual_escalation", "">>,
        <<"config_error", "config", "manual_escalation", "">>,
        <<"container_k8s", "container_k8s", "manual_escalation", "">>,
        <<"dependency_service", "dependency_service", "manual_escalation", "">>,
        <<"disk_full", "disk", "manual_escalation", "">>,
        <<"host_resource", "host_resource", "manual_escalation", "">>,
        <<"network_connectivity", "network_connectivity", "manual_escalation", "">>,
        <<"permission_denied", "permission", "manual_escalation", "">>,
        <<"process_crash", "process", "manual_escalation", "">>,
        <<"process_kill", "process", "manual_escalation", "">>,
        <<"python_env", "python_env", "manual_escalation", "fix-python-1">>,
        <<"slurm", "slurm", "manual_escalation", "">>,
        <<"sudo_required", "system", "manual_escalation", "">>,
        <<"unknown", "unknown", "manual_escalation", "">>}
<1> DEFINE s1 == Domain("auth_cert", "auth_cert", "manual_escalation", "")
           s2 == Domain("config_error", "config", "manual_escalation", "")
           s3 == Domain("container_k8s", "container_k8s", "manual_escalation", "")
           s4 == Domain("dependency_service", "dependency_service", "manual_escalation", "")
           s5 == Domain("disk_full", "disk", "manual_escalation", "")
           s6 == Domain("host_resource", "host_resource", "manual_escalation", "")
           s7 == Domain("network_connectivity", "network_connectivity", "manual_escalation", "")
           s8 == Domain("permission_denied", "permission", "manual_escalation", "")
           s9 == Domain("process_crash", "process", "manual_escalation", "")
           s10 == Domain("process_kill", "process", "manual_escalation", "")
           s11 == Domain("python_env", "python_env", "manual_escalation", "fix-python-1")
           s12 == Domain("slurm", "slurm", "manual_escalation", "")
           s13 == Domain("sudo_required", "system", "manual_escalation", "")
           s14 == Domain("unknown", "unknown", "manual_escalation", "")
           specs == <<s1, s2, s3, s4, s5, s6, s7, s8, s9, s10, s11, s12, s13, s14>>
<1>1. ManualDomains = specs
  BY Zenon DEF ManualDomains
<1>2. /\ s1.event = "auth_cert" /\ s1.issue = "auth_cert"
      /\ s1.layer = "manual_escalation" /\ s1.fix = ""
      /\ s2.event = "config_error" /\ s2.issue = "config"
      /\ s2.layer = "manual_escalation" /\ s2.fix = ""
      /\ s3.event = "container_k8s" /\ s3.issue = "container_k8s"
      /\ s3.layer = "manual_escalation" /\ s3.fix = ""
      /\ s4.event = "dependency_service" /\ s4.issue = "dependency_service"
      /\ s4.layer = "manual_escalation" /\ s4.fix = ""
      /\ s5.event = "disk_full" /\ s5.issue = "disk"
      /\ s5.layer = "manual_escalation" /\ s5.fix = ""
      /\ s6.event = "host_resource" /\ s6.issue = "host_resource"
      /\ s6.layer = "manual_escalation" /\ s6.fix = ""
      /\ s7.event = "network_connectivity" /\ s7.issue = "network_connectivity"
      /\ s7.layer = "manual_escalation" /\ s7.fix = ""
      /\ s8.event = "permission_denied" /\ s8.issue = "permission"
      /\ s8.layer = "manual_escalation" /\ s8.fix = ""
      /\ s9.event = "process_crash" /\ s9.issue = "process"
      /\ s9.layer = "manual_escalation" /\ s9.fix = ""
      /\ s10.event = "process_kill" /\ s10.issue = "process"
      /\ s10.layer = "manual_escalation" /\ s10.fix = ""
      /\ s11.event = "python_env" /\ s11.issue = "python_env"
      /\ s11.layer = "manual_escalation" /\ s11.fix = "fix-python-1"
      /\ s12.event = "slurm" /\ s12.issue = "slurm"
      /\ s12.layer = "manual_escalation" /\ s12.fix = ""
      /\ s13.event = "sudo_required" /\ s13.issue = "system"
      /\ s13.layer = "manual_escalation" /\ s13.fix = ""
      /\ s14.event = "unknown" /\ s14.issue = "unknown"
      /\ s14.layer = "manual_escalation" /\ s14.fix = ""
  BY Zenon DEF Domain
<1> HIDE DEF s1, s2, s3, s4, s5, s6, s7, s8, s9, s10, s11, s12, s13, s14
<1>3. Range(specs) =
        {s1, s2, s3, s4, s5, s6, s7, s8, s9, s10, s11, s12, s13, s14}
  BY RangeOfFourteen
<1>4. Quads({s1, s2, s3, s4, s5, s6, s7, s8, s9, s10, s11, s12, s13, s14}) =
        {<<s1.event, s1.issue, s1.layer, s1.fix>>, <<s2.event, s2.issue, s2.layer, s2.fix>>,
         <<s3.event, s3.issue, s3.layer, s3.fix>>, <<s4.event, s4.issue, s4.layer, s4.fix>>,
         <<s5.event, s5.issue, s5.layer, s5.fix>>, <<s6.event, s6.issue, s6.layer, s6.fix>>,
         <<s7.event, s7.issue, s7.layer, s7.fix>>, <<s8.event, s8.issue, s8.layer, s8.fix>>,
         <<s9.event, s9.issue, s9.layer, s9.fix>>, <<s10.event, s10.issue, s10.layer, s10.fix>>,
         <<s11.event, s11.issue, s11.layer, s11.fix>>,
         <<s12.event, s12.issue, s12.layer, s12.fix>>,
         <<s13.event, s13.issue, s13.layer, s13.fix>>,
         <<s14.event, s14.issue, s14.layer, s14.fix>>}
  BY DEF Quads
<1>5. /\ specs \in Seq({s1, s2, s3, s4, s5, s6, s7, s8, s9, s10, s11, s12, s13, s14})
      /\ DOMAIN specs = 1..14
      /\ specs[1] = s1 /\ specs[2] = s2 /\ specs[3] = s3 /\ specs[4] = s4 /\ specs[5] = s5
      /\ specs[6] = s6 /\ specs[7] = s7 /\ specs[8] = s8 /\ specs[9] = s9 /\ specs[10] = s10
      /\ specs[11] = s11 /\ specs[12] = s12 /\ specs[13] = s13 /\ specs[14] = s14
  OBVIOUS
<1> HIDE DEF specs
<1>6. \A i \in DOMAIN specs : i \in {1, 2, 3, 4, 5, 6, 7, 8, 9, 10, 11, 12, 13, 14}
  BY <1>5
<1>7. Named(specs,
            {"auth_cert", "config_error", "container_k8s", "dependency_service", "disk_full",
             "host_resource", "network_connectivity", "permission_denied", "process_crash",
             "process_kill", "python_env", "slurm", "sudo_required", "unknown"})
  <2>1. /\ s1.event = "auth_cert" /\ s2.event = "config_error" /\ s3.event = "container_k8s"
        /\ s4.event = "dependency_service" /\ s5.event = "disk_full" /\ s6.event = "host_resource"
        /\ s7.event = "network_connectivity" /\ s8.event = "permission_denied" /\ s9.event = "process_crash"
        /\ s10.event = "process_kill" /\ s11.event = "python_env" /\ s12.event = "slurm"
        /\ s13.event = "sudo_required" /\ s14.event = "unknown"
    BY <1>2, Zenon
  <2>2. \A i, j \in DOMAIN specs : specs[i].event = specs[j].event => i = j
    BY <1>5, <1>6, <2>1
  <2>3. \A i \in DOMAIN specs :
          specs[i].event \in {"auth_cert", "config_error", "container_k8s",
                                "dependency_service", "disk_full", "host_resource",
                                "network_connectivity", "permission_denied", "process_crash",
                                "process_kill", "python_env", "slurm", "sudo_required",
                                "unknown"}
    BY <1>5, <1>6, <2>1
  <2>4. QED
    BY <1>5, <2>2, <2>3 DEF Named
<1>8. Quads(Range(ManualDomains)) =
       {<<"auth_cert", "auth_cert", "manual_escalation", "">>,
        <<"config_error", "config", "manual_escalation", "">>,
        <<"container_k8s", "container_k8s", "manual_escalation", "">>,
        <<"dependency_service", "dependency_service", "manual_escalation", "">>,
        <<"disk_full", "disk", "manual_escalation", "">>,
        <<"host_resource", "host_resource", "manual_escalation", "">>,
        <<"network_connectivity", "network_connectivity", "manual_escalation", "">>,
        <<"permission_denied", "permission", "manual_escalation", "">>,
        <<"process_crash", "process", "manual_escalation", "">>,
        <<"process_kill", "process", "manual_escalation", "">>,
        <<"python_env", "python_env", "manual_escalation", "fix-python-1">>,
        <<"slurm", "slurm", "manual_escalation", "">>,
        <<"sudo_required", "system", "manual_escalation", "">>,
        <<"unknown", "unknown", "manual_escalation", "">>}
  BY <1>1, <1>2, <1>3, <1>4, Zenon
<1>9. QED
  BY <1>1, <1>7, <1>8

LEMMA DiagnoseDomainsRows ==
  /\ Named(DiagnoseDomains,
           {"config_path", "model_path", "traceback"})
  /\ Quads(Range(DiagnoseDomains)) =
       {<<"config_path", "config_path", "diagnose_only", "fix-config-path-1">>,
        <<"model_path", "model_path", "diagnose_only", "fix-model-path-1">>,
        <<"traceback", "log", "diagnose_only", "">>}
<1> DEFINE s1 == Domain("config_path", "config_path", "diagnose_only", "fix-config-path-1")
           s2 == Domain("model_path", "model_path", "diagnose_only", "fix-model-path-1")
           s3 == Domain("traceback", "log", "diagnose_only", "")
           specs == <<s1, s2, s3>>
<1>1. DiagnoseDomains = specs
  BY Zenon DEF DiagnoseDomains
<1>2. /\ s1.event = "config_path" /\ s1.issue = "config_path"
      /\ s1.layer = "diagnose_only" /\ s1.fix = "fix-config-path-1"
      /\ s2.event = "model_path" /\ s2.issue = "model_path"
      /\ s2.layer = "diagnose_only" /\ s2.fix = "fix-model-path-1"
      /\ s3.event = "traceback" /\ s3.issue = "log"
      /\ s3.layer = "diagnose_only" /\ s3.fix = ""
  BY Zenon DEF Domain
<1> HIDE DEF s1, s2, s3
<1>3. Range(specs) =
        {s1, s2, s3}
  BY RangeOfThree
<1>4. Quads({s1, s2, s3}) =
        {<<s1.event, s1.issue, s1.layer, s1.fix>>, <<s2.event, s2.issue, s2.layer, s2.fix>>,
         <<s3.event, s3.issue, s3.layer, s3.fix>>}
  BY DEF Quads
<1>5. /\ specs \in Seq({s1, s2, s3})
      /\ DOMAIN specs = 1..3
      /\ specs[1] = s1 /\ specs[2] = s2 /\ specs[3] = s3
  OBVIOUS
<1> HIDE DEF specs
<1>6. \A i \in DOMAIN specs : i \in {1, 2, 3}
  BY <1>5
<1>7. Named(specs,
            {"config_path", "model_path", "traceback"})
  <2>1. /\ s1.event = "config_path" /\ s2.event = "model_path" /\ s3.event = "traceback"
    BY <1>2, Zenon
  <2>2. \A i, j \in DOMAIN specs : specs[i].event = specs[j].event => i = j
    BY <1>5, <1>6, <2>1
  <2>3. \A i \in DOMAIN specs :
          specs[i].event \in {"config_path", "model_path", "traceback"}
    BY <1>5, <1>6, <2>1
  <2>4. QED
    BY <1>5, <2>2, <2>3 DEF Named
<1>8. Quads(Range(DiagnoseDomains)) =
       {<<"config_path", "config_path", "diagnose_only", "fix-config-path-1">>,
        <<"model_path", "model_path", "diagnose_only", "fix-model-path-1">>,
        <<"traceback", "log", "diagnose_only", "">>}
  BY <1>1, <1>2, <1>3, <1>4, Zenon
<1>9. QED
  BY <1>1, <1>7, <1>8

\* The safe specs, by event, issue and fix.
SpecTrios ==
  {<<"network_port", "network_port", "fix-network-1">>, <<"gpu_oom", "gpu", "fix-gpu-1">>,
   <<"cache_write_failed", "cache", "fix-cache-1">>,
   <<"optional_dependency_missing", "optional_dependency", "fix-optional-dep-1">>,
   <<"optional_integration_failed", "optional_integration", "fix-optional-integration-1">>,
   <<"optional_cache_backend_failed", "optional_cache_backend", "fix-cache-backend-1">>,
   <<"optional_service_unavailable", "optional_service", "fix-optional-service-1">>,
   <<"notification_sink_failed", "notification_sink", "fix-notification-sink-1">>,
   <<"observability_export_failed", "observability_export", "fix-observability-export-1">>,
   <<"queue_backpressure", "queue_backpressure", "fix-queue-backpressure-1">>,
   <<"worker_overload", "worker_overload", "fix-worker-1">>}

LEMMA TriosDiffer ==
  \A p, q \in SpecTrios : p[1] = q[1] \/ p[2] = q[2] \/ p[3] = q[3] => p = q
BY DEF SpecTrios

LEMMA TriosNamed ==
  \A p \in SpecTrios : ~Nameless(p[1]) /\ ~Nameless(p[2]) /\ ~Nameless(p[3])
<1>1. /\ ~Nameless("network_port") /\ ~Nameless("gpu_oom") /\ ~Nameless("cache_write_failed")
      /\ ~Nameless("optional_dependency_missing") /\ ~Nameless("optional_integration_failed")
      /\ ~Nameless("optional_cache_backend_failed") /\ ~Nameless("optional_service_unavailable")
      /\ ~Nameless("notification_sink_failed") /\ ~Nameless("observability_export_failed")
      /\ ~Nameless("queue_backpressure") /\ ~Nameless("worker_overload")
  BY Zenon DEF Nameless
<1>2. /\ ~Nameless("gpu") /\ ~Nameless("cache") /\ ~Nameless("optional_dependency")
      /\ ~Nameless("optional_integration") /\ ~Nameless("optional_cache_backend")
      /\ ~Nameless("optional_service") /\ ~Nameless("notification_sink")
      /\ ~Nameless("observability_export")
  BY Zenon DEF Nameless
<1>3. /\ ~Nameless("fix-network-1") /\ ~Nameless("fix-gpu-1") /\ ~Nameless("fix-cache-1")
      /\ ~Nameless("fix-optional-dep-1") /\ ~Nameless("fix-optional-integration-1")
      /\ ~Nameless("fix-cache-backend-1") /\ ~Nameless("fix-optional-service-1")
      /\ ~Nameless("fix-notification-sink-1") /\ ~Nameless("fix-observability-export-1")
      /\ ~Nameless("fix-queue-backpressure-1") /\ ~Nameless("fix-worker-1")
  BY Zenon DEF Nameless
<1>4. QED
  BY <1>1, <1>2, <1>3 DEF SpecTrios

TrioOf(s) == <<s.event, s.issue, s.fix>>

LEMMA SpecsAre ==
  /\ \E S : SafeSpecs \in Seq(S)
  /\ Trios(Range(SafeSpecs)) = SpecTrios
  /\ \A spec \in Range(SafeSpecs) : Filled(spec.candidates)
<1> DEFINE a == HostSpecs
           b == OptionalSpecs
           c == ServiceSpecs
           d == LoadSpecs
<1>1. SafeSpecs = ((a \o b) \o c) \o d
  BY Zenon DEF SafeSpecs
<1>2. /\ \E S : a \in Seq(S)
      /\ \E S : b \in Seq(S)
      /\ \E S : c \in Seq(S)
      /\ \E S : d \in Seq(S)
  BY HostEvents, OptionalEvents, ServiceEvents, LoadEvents DEF Named
<1>3. /\ Trios(Range(a)) \cup Trios(Range(b)) \cup Trios(Range(c)) \cup Trios(Range(d)) = SpecTrios
      /\ \A spec \in Range(a) \cup Range(b) \cup Range(c) \cup Range(d) : Filled(spec.candidates)
  <2>1. Trios(Range(a)) \cup Trios(Range(b)) \cup Trios(Range(c)) \cup Trios(Range(d)) = SpecTrios
    BY HostSpecsRows, OptionalSpecsRows, ServiceSpecsRows, LoadSpecsRows DEF SpecTrios
  <2> HIDE DEF a, b, c, d
  <2>2. \A spec \in Range(a) \cup Range(b) \cup Range(c) \cup Range(d) : Filled(spec.candidates)
    BY HostSpecsRows, OptionalSpecsRows, ServiceSpecsRows, LoadSpecsRows DEF a, b, c, d
  <2>3. QED
    BY <2>1, <2>2 DEF a, b, c, d
<1> HIDE DEF a, b, c, d
<1>4. PICK A, B, C, D : a \in Seq(A) /\ b \in Seq(B) /\ c \in Seq(C) /\ d \in Seq(D)
  BY <1>2
<1>5. a \o b \in Seq(A \cup B) /\ Range(a \o b) = Range(a) \cup Range(b)
  BY <1>4, ConcatElements, RangeConcat
<1> DEFINE ab == a \o b
<1> HIDE DEF ab
<1>6. /\ ab \o c \in Seq((A \cup B) \cup C)
      /\ Range(ab \o c) = (Range(a) \cup Range(b)) \cup Range(c)
  <2>1. ab \in Seq(A \cup B) /\ Range(ab) = Range(a) \cup Range(b)
    BY <1>5 DEF ab
  <2>2. QED
    BY <1>4, <2>1, ConcatElements, RangeConcat
<1> DEFINE abc == ab \o c
<1> HIDE DEF abc
<1>7. /\ abc \o d \in Seq(((A \cup B) \cup C) \cup D)
      /\ Range(abc \o d) = ((Range(a) \cup Range(b)) \cup Range(c)) \cup Range(d)
  <2>1. abc \in Seq((A \cup B) \cup C) /\ Range(abc) = (Range(a) \cup Range(b)) \cup Range(c)
    BY <1>6 DEF abc
  <2>2. QED
    BY <1>4, <2>1, ConcatElements, RangeConcat
<1>8. Trios(Range(a) \cup Range(b) \cup Range(c) \cup Range(d)) =
        Trios(Range(a)) \cup Trios(Range(b)) \cup Trios(Range(c)) \cup Trios(Range(d))
  BY DEF Trios
<1>9. QED
  BY <1>1, <1>3, <1>7, <1>8 DEF ab, abc

LEMMA SpecTrio == \A s \in Range(SafeSpecs) : TrioOf(s) \in SpecTrios
BY SpecsAre DEF Trios, TrioOf

\* No two specs have the same event, issue or fix, at different places.
LEMMA SpecsDiffer ==
  \A i, j \in DOMAIN SafeSpecs :
    (\/ SafeSpecs[i].event = SafeSpecs[j].event
     \/ SafeSpecs[i].issue = SafeSpecs[j].issue
     \/ SafeSpecs[i].fix = SafeSpecs[j].fix) => i = j
<1>1. \A i, j \in DOMAIN SafeSpecs : SafeSpecs[i].event = SafeSpecs[j].event => i = j
  BY EventsOfSpecsDiffer
<1>2. \A s, t \in Range(SafeSpecs) : s.issue = t.issue \/ s.fix = t.fix => s.event = t.event
  <2>1. ASSUME NEW s \in Range(SafeSpecs), NEW t \in Range(SafeSpecs),
               s.issue = t.issue \/ s.fix = t.fix
        PROVE  s.event = t.event
    <3>1. TrioOf(s) \in SpecTrios /\ TrioOf(t) \in SpecTrios
      BY SpecTrio
    <3>2. /\ TrioOf(s)[1] = s.event /\ TrioOf(s)[2] = s.issue /\ TrioOf(s)[3] = s.fix
          /\ TrioOf(t)[1] = t.event /\ TrioOf(t)[2] = t.issue /\ TrioOf(t)[3] = t.fix
      BY DEF TrioOf
    <3>3. TrioOf(s) = TrioOf(t)
      BY <2>1, <3>1, <3>2, TriosDiffer
    <3>4. QED
      BY <3>2, <3>3
  <2>2. QED
    BY <2>1
<1>3. \A i \in DOMAIN SafeSpecs : SafeSpecs[i] \in Range(SafeSpecs)
  BY DEF Range
<1>4. QED
  BY <1>1, <1>2, <1>3

LEMMA SpecsNamed ==
  \A s \in Range(SafeSpecs) : ~Nameless(s.event) /\ ~Nameless(s.issue) /\ ~Nameless(s.fix)
<1>1. ASSUME NEW s \in Range(SafeSpecs)
      PROVE  ~Nameless(s.event) /\ ~Nameless(s.issue) /\ ~Nameless(s.fix)
  <2>1. TrioOf(s) \in SpecTrios
    BY SpecTrio
  <2>2. TrioOf(s)[1] = s.event /\ TrioOf(s)[2] = s.issue /\ TrioOf(s)[3] = s.fix
    BY DEF TrioOf
  <2>3. QED
    BY <2>1, <2>2, TriosNamed
<1>2. QED
  BY <1>1

\* The domains no failure of which is repaired by itself, by event, issue, layer and fix.
OtherQuads ==
  {<<"auth_cert", "auth_cert", "manual_escalation", "">>,
   <<"config_error", "config", "manual_escalation", "">>,
   <<"container_k8s", "container_k8s", "manual_escalation", "">>,
   <<"dependency_service", "dependency_service", "manual_escalation", "">>,
   <<"disk_full", "disk", "manual_escalation", "">>,
   <<"host_resource", "host_resource", "manual_escalation", "">>,
   <<"network_connectivity", "network_connectivity", "manual_escalation", "">>,
   <<"permission_denied", "permission", "manual_escalation", "">>,
   <<"process_crash", "process", "manual_escalation", "">>,
   <<"process_kill", "process", "manual_escalation", "">>,
   <<"python_env", "python_env", "manual_escalation", "fix-python-1">>,
   <<"slurm", "slurm", "manual_escalation", "">>,
   <<"sudo_required", "system", "manual_escalation", "">>,
   <<"unknown", "unknown", "manual_escalation", "">>,
   <<"config_path", "config_path", "diagnose_only", "fix-config-path-1">>,
   <<"model_path", "model_path", "diagnose_only", "fix-model-path-1">>,
   <<"traceback", "log", "diagnose_only", "">>}

LEMMA OtherQuadsAre ==
  \A q \in OtherQuads :
    /\ ~Nameless(q[1]) /\ ~Nameless(q[2])
    /\ q[3] \in {"manual_escalation", "diagnose_only"}
    /\ \A p \in SpecTrios : p[1] # q[1] /\ p[3] # q[4]
<1>1. /\ ~Nameless("auth_cert") /\ ~Nameless("config") /\ ~Nameless("config_error")
      /\ ~Nameless("config_path") /\ ~Nameless("container_k8s") /\ ~Nameless("dependency_service")
      /\ ~Nameless("disk") /\ ~Nameless("disk_full") /\ ~Nameless("host_resource")
      /\ ~Nameless("log") /\ ~Nameless("model_path") /\ ~Nameless("network_connectivity")
      /\ ~Nameless("permission") /\ ~Nameless("permission_denied") /\ ~Nameless("process")
      /\ ~Nameless("process_crash") /\ ~Nameless("process_kill") /\ ~Nameless("python_env")
      /\ ~Nameless("slurm") /\ ~Nameless("sudo_required") /\ ~Nameless("system")
      /\ ~Nameless("traceback") /\ ~Nameless("unknown")
  BY Zenon DEF Nameless
<1> DEFINE Is(none) == OtherQuads =
            {<<"auth_cert", "auth_cert", "manual_escalation", none>>,
             <<"config_error", "config", "manual_escalation", none>>,
             <<"container_k8s", "container_k8s", "manual_escalation", none>>,
             <<"dependency_service", "dependency_service", "manual_escalation", none>>,
             <<"disk_full", "disk", "manual_escalation", none>>,
             <<"host_resource", "host_resource", "manual_escalation", none>>,
             <<"network_connectivity", "network_connectivity", "manual_escalation", none>>,
             <<"permission_denied", "permission", "manual_escalation", none>>,
             <<"process_crash", "process", "manual_escalation", none>>,
             <<"process_kill", "process", "manual_escalation", none>>,
             <<"python_env", "python_env", "manual_escalation", "fix-python-1">>,
             <<"slurm", "slurm", "manual_escalation", none>>,
             <<"sudo_required", "system", "manual_escalation", none>>,
             <<"unknown", "unknown", "manual_escalation", none>>,
             <<"config_path", "config_path", "diagnose_only", "fix-config-path-1">>,
             <<"model_path", "model_path", "diagnose_only", "fix-model-path-1">>,
             <<"traceback", "log", "diagnose_only", none>>}
<1>0. PICK none : Is(none) /\ Nameless(none)
  <2>1. Is("") /\ Nameless("")
    BY Zenon DEF OtherQuads, Nameless
  <2>2. QED
    BY <2>1, Zenon
<1>2. \A q \in OtherQuads : ~Nameless(q[1]) /\ ~Nameless(q[2])
  <2>1. \A q \in OtherQuads :
          /\ q[1] \in {"auth_cert", "config_error", "container_k8s", "dependency_service",
                        "disk_full", "host_resource", "network_connectivity",
                        "permission_denied", "process_crash", "process_kill", "python_env",
                        "slurm", "sudo_required", "unknown", "config_path", "model_path",
                        "traceback"}
          /\ q[2] \in {"auth_cert", "config", "container_k8s", "dependency_service", "disk",
                        "host_resource", "network_connectivity", "permission", "process",
                        "python_env", "slurm", "system", "unknown", "config_path", "model_path",
                        "log"}
    BY <1>0
  <2>2. QED
    BY <1>1, <2>1
<1>3. \A q \in OtherQuads : q[3] \in {"manual_escalation", "diagnose_only"}
  BY <1>0
<1>4. \A q \in OtherQuads : \A p \in SpecTrios : p[1] # q[1]
  <2>1. \A q \in OtherQuads :
          q[1] \in {"auth_cert", "config_error", "container_k8s", "dependency_service",
                     "disk_full", "host_resource", "network_connectivity", "permission_denied",
                     "process_crash", "process_kill", "python_env", "slurm", "sudo_required",
                     "unknown", "config_path", "model_path", "traceback"}
    BY <1>0
  <2>2. QED
    BY <2>1 DEF SpecTrios
<1>5. \A q \in OtherQuads : \A p \in SpecTrios : p[3] # q[4]
  <2>1. \A q \in OtherQuads :
          q[4] \in {"fix-python-1", "fix-config-path-1", "fix-model-path-1"} \/ Nameless(q[4])
    BY <1>0
  <2>2. \A p \in SpecTrios :
          p[3] \notin {"fix-python-1", "fix-config-path-1", "fix-model-path-1"}
    BY DEF SpecTrios
  <2>3. QED
    BY <2>1, <2>2, TriosNamed
<1>6. QED
  BY <1>2, <1>3, <1>4, <1>5

-----------------------------------------------------------------------------
(***************************************************************************)
(* All domains, and the rules of the detector.                             *)
(***************************************************************************)
IsRowOf(d, spec) ==
  /\ d.event = spec.event /\ d.issue = spec.issue /\ d.fix = spec.fix
  /\ d.layer = "safe_auto_recover"

QuadOf(d) == <<d.event, d.issue, d.layer, d.fix>>

LEMMA SafeDomainRows ==
  /\ \E S : SafeDomains \in Seq(S)
  /\ DOMAIN SafeDomains = DOMAIN SafeSpecs
  /\ \A i \in DOMAIN SafeSpecs : IsRowOf(SafeDomains[i], SafeSpecs[i])
<1> DEFINE row(i) == Domain(SafeSpecs[i].event, SafeSpecs[i].issue, "safe_auto_recover",
                            SafeSpecs[i].fix)
<1>1. SafeDomains = [i \in DOMAIN SafeSpecs |-> row(i)]
  BY Zenon DEF SafeDomains
<1>2. \A i : IsRowOf(row(i), SafeSpecs[i])
  BY DEF Domain, IsRowOf
<1> HIDE DEF row
<1>3. PICK S : SafeSpecs \in Seq(S)
  BY SpecsAre
<1>4. SafeDomains \in Seq({row(i) : i \in DOMAIN SafeSpecs})
  BY <1>1, <1>3
<1>5. QED
  BY <1>1, <1>2, <1>4

LEMMA DomainsAre ==
  /\ \E S : Domains \in Seq(S)
  /\ \A i, j \in DOMAIN Domains : Domains[i].event = Domains[j].event => i = j
  /\ \A d \in Rows : (\E spec \in Range(SafeSpecs) : IsRowOf(d, spec)) \/ QuadOf(d) \in OtherQuads
  /\ \A spec \in Range(SafeSpecs) : \E d \in Rows : IsRowOf(d, spec)
  /\ \A q \in OtherQuads : \E d \in Rows : QuadOf(d) = q
<1> DEFINE a == SafeDomains
           b == ManualDomains
           c == DiagnoseDomains
           A == {p[1] : p \in SpecTrios}
           B == {"auth_cert", "config_error", "container_k8s", "dependency_service", "disk_full",
                 "host_resource", "network_connectivity", "permission_denied", "process_crash",
                 "process_kill", "python_env", "slurm", "sudo_required", "unknown"}
           C == {"config_path", "model_path", "traceback"}
<1>1. Domains = (a \o b) \o c
  BY Zenon DEF Domains
<1>2. Named(a, A)
  <2>1. \A i \in DOMAIN a : a[i].event = SafeSpecs[i].event
    BY SafeDomainRows DEF IsRowOf
  <2>2. \A i \in DOMAIN SafeSpecs : SafeSpecs[i].event \in A
    <3>1. ASSUME NEW i \in DOMAIN SafeSpecs PROVE SafeSpecs[i].event \in A
      <4>1. TrioOf(SafeSpecs[i]) \in SpecTrios
        BY SpecTrio DEF Range
      <4>2. TrioOf(SafeSpecs[i])[1] = SafeSpecs[i].event
        BY DEF TrioOf
      <4>3. QED
        BY <4>1, <4>2
    <3>2. QED
      BY <3>1
  <2> HIDE DEF A
  <2>3. QED
    BY <2>1, <2>2, SafeDomainRows, EventsOfSpecsDiffer DEF Named
<1>3. Named(b, B)
  BY ManualDomainsRows
<1>4. Named(c, C)
  BY DiagnoseDomainsRows
<1>5. B \cap C = {}
  OBVIOUS
<1>6. A \cap (B \cup C) = {}
  BY DEF SpecTrios
<1>7. Quads(Range(b)) \cup Quads(Range(c)) = OtherQuads
  BY ManualDomainsRows, DiagnoseDomainsRows, Zenon DEF OtherQuads
<1> HIDE DEF a, b, c, A, B, C
<1>8. Named(a \o b, A \cup B)
  BY <1>2, <1>3, <1>6, NamedConcat
<1>9. Named((a \o b) \o c, (A \cup B) \cup C)
  BY <1>4, <1>5, <1>6, <1>8, NamedConcat
<1>10. /\ \E S : Domains \in Seq(S)
       /\ \A i, j \in DOMAIN Domains : Domains[i].event = Domains[j].event => i = j
  BY <1>1, <1>9 DEF Named
<1>11. Rows = (Range(a) \cup Range(b)) \cup Range(c)
  <2> DEFINE ab == a \o b
  <2>1. Range(ab) = Range(a) \cup Range(b)
    BY <1>2, <1>3, RangeConcat DEF Named
  <2>2. \E S : ab \in Seq(S)
    BY <1>8 DEF Named
  <2> HIDE DEF ab
  <2>3. Range(ab \o c) = Range(ab) \cup Range(c)
    BY <1>4, <2>2, RangeConcat DEF Named
  <2>4. QED
    BY <1>1, <2>1, <2>3 DEF Rows, ab
<1>12. /\ \A d \in Range(a) : \E spec \in Range(SafeSpecs) : IsRowOf(d, spec)
       /\ \A spec \in Range(SafeSpecs) : \E d \in Range(a) : IsRowOf(d, spec)
  BY SafeDomainRows DEF Range, a
<1>13. /\ \A d \in Range(b) \cup Range(c) : QuadOf(d) \in OtherQuads
       /\ \A q \in OtherQuads : \E d \in Range(b) \cup Range(c) : QuadOf(d) = q
  BY <1>7 DEF Quads, QuadOf
<1>14. QED
  BY <1>10, <1>11, <1>12, <1>13

LEMMA OtherPairs ==
  {<<q[1], q[2]>> : q \in OtherQuads} =
    {<<"auth_cert", "auth_cert">>, <<"config_error", "config">>,
     <<"container_k8s", "container_k8s">>, <<"dependency_service", "dependency_service">>,
     <<"disk_full", "disk">>, <<"host_resource", "host_resource">>,
     <<"network_connectivity", "network_connectivity">>, <<"permission_denied", "permission">>,
     <<"process_crash", "process">>, <<"process_kill", "process">>,
     <<"python_env", "python_env">>, <<"slurm", "slurm">>, <<"sudo_required", "system">>,
     <<"unknown", "unknown">>, <<"config_path", "config_path">>, <<"model_path", "model_path">>,
     <<"traceback", "log">>}
<1> DEFINE Is(none) == OtherQuads =
            {<<"auth_cert", "auth_cert", "manual_escalation", none>>,
             <<"config_error", "config", "manual_escalation", none>>,
             <<"container_k8s", "container_k8s", "manual_escalation", none>>,
             <<"dependency_service", "dependency_service", "manual_escalation", none>>,
             <<"disk_full", "disk", "manual_escalation", none>>,
             <<"host_resource", "host_resource", "manual_escalation", none>>,
             <<"network_connectivity", "network_connectivity", "manual_escalation", none>>,
             <<"permission_denied", "permission", "manual_escalation", none>>,
             <<"process_crash", "process", "manual_escalation", none>>,
             <<"process_kill", "process", "manual_escalation", none>>,
             <<"python_env", "python_env", "manual_escalation", "fix-python-1">>,
             <<"slurm", "slurm", "manual_escalation", none>>,
             <<"sudo_required", "system", "manual_escalation", none>>,
             <<"unknown", "unknown", "manual_escalation", none>>,
             <<"config_path", "config_path", "diagnose_only", "fix-config-path-1">>,
             <<"model_path", "model_path", "diagnose_only", "fix-model-path-1">>,
             <<"traceback", "log", "diagnose_only", none>>}
<1>1. PICK none : Is(none)
  <2>1. Is("")
    BY Zenon DEF OtherQuads
  <2>2. QED
    BY <2>1, Zenon
<1>2. QED
  BY <1>1

\* The events and issues of the rules.
RulePairs ==
  {<<"gpu_oom", "gpu">>, <<"cache_write_failed", "cache">>,
   <<"optional_cache_backend_failed", "optional_cache_backend">>, <<"disk_full", "disk">>,
   <<"network_port", "network_port">>, <<"optional_dependency_missing", "optional_dependency">>,
   <<"optional_integration_failed", "optional_integration">>,
   <<"notification_sink_failed", "notification_sink">>,
   <<"optional_service_unavailable", "optional_service">>, <<"python_env", "python_env">>,
   <<"queue_backpressure", "queue_backpressure">>,
   <<"observability_export_failed", "observability_export">>,
   <<"worker_overload", "worker_overload">>, <<"slurm", "slurm">>,
   <<"process_crash", "process">>, <<"container_k8s", "container_k8s">>,
   <<"host_resource", "host_resource">>, <<"network_connectivity", "network_connectivity">>,
   <<"dependency_service", "dependency_service">>, <<"process_kill", "process">>,
   <<"config_path", "config_path">>, <<"model_path", "model_path">>,
   <<"sudo_required", "system">>, <<"config_error", "config">>, <<"auth_cert", "auth_cert">>,
   <<"permission_denied", "permission">>, <<"traceback", "log">>}

LEMMA RulesPairs == Pairs(Range(Detector!RULES)) = RulePairs
<1> DEFINE r1 == Detector!StorageRules
           r2 == Detector!OptionalRules
           r3 == Detector!LoadRules
           r4 == Detector!ServiceRules
           r5 == Detector!PersonRules
<1>1. /\ \E S : r1 \in Seq(S)
      /\ \E S : r2 \in Seq(S)
      /\ \E S : r3 \in Seq(S)
      /\ \E S : r4 \in Seq(S)
      /\ \E S : r5 \in Seq(S)
  BY StorageRulesEvents, OptionalRulesEvents, LoadRulesEvents, ServiceRulesEvents, PersonRulesEvents
     DEF Named
<1>2. Pairs(Range(r1)) \cup Pairs(Range(r2)) \cup Pairs(Range(r3)) \cup Pairs(Range(r4))
        \cup Pairs(Range(r5)) = RulePairs
  BY StorageRulesPairs, OptionalRulesPairs, LoadRulesPairs, ServiceRulesPairs, PersonRulesPairs
     DEF RulePairs
<1>3. Detector!RULES = (((r1 \o r2) \o r3) \o r4) \o r5
  BY Zenon DEF Detector!RULES
<1> HIDE DEF r1, r2, r3, r4, r5
<1>4. PICK S : /\ r1 \in Seq(S) /\ r2 \in Seq(S) /\ r3 \in Seq(S) /\ r4 \in Seq(S)
               /\ r5 \in Seq(S)
  <2>1. PICK S1, S2, S3, S4, S5 : /\ r1 \in Seq(S1) /\ r2 \in Seq(S2) /\ r3 \in Seq(S3)
                                  /\ r4 \in Seq(S4) /\ r5 \in Seq(S5)
    BY <1>1
  <2> DEFINE S == ((S1 \cup S2) \cup (S3 \cup S4)) \cup S5
  <2>2. S1 \subseteq S /\ S2 \subseteq S /\ S3 \subseteq S /\ S4 \subseteq S /\ S5 \subseteq S
    OBVIOUS
  <2> HIDE DEF S
  <2>3. /\ r1 \in Seq(S) /\ r2 \in Seq(S) /\ r3 \in Seq(S) /\ r4 \in Seq(S) /\ r5 \in Seq(S)
    BY <2>1, <2>2
  <2>4. QED
    BY <2>3
<1>5. \A s, t \in Seq(S) : s \o t \in Seq(S) /\ Range(s \o t) = Range(s) \cup Range(t)
  BY ConcatProperties, RangeConcat
<1> DEFINE r12 == r1 \o r2
           r123 == r12 \o r3
           r1234 == r123 \o r4
<1>6. r12 \in Seq(S) /\ Range(r12) = Range(r1) \cup Range(r2)
  BY <1>4, <1>5
<1> HIDE DEF r12
<1>7. r123 \in Seq(S) /\ Range(r123) = Range(r12) \cup Range(r3)
  BY <1>4, <1>5, <1>6
<1> HIDE DEF r123
<1>8. r1234 \in Seq(S) /\ Range(r1234) = Range(r123) \cup Range(r4)
  BY <1>4, <1>5, <1>7
<1> HIDE DEF r1234
<1>9. Range(r1234 \o r5) = Range(r1234) \cup Range(r5)
  BY <1>4, <1>5, <1>8
<1>10. Range(Detector!RULES) =
         Range(r1) \cup Range(r2) \cup Range(r3) \cup Range(r4) \cup Range(r5)
  BY <1>3, <1>6, <1>7, <1>8, <1>9 DEF r12, r123, r1234
<1>11. Pairs(Range(r1) \cup Range(r2) \cup Range(r3) \cup Range(r4) \cup Range(r5)) =
         Pairs(Range(r1)) \cup Pairs(Range(r2)) \cup Pairs(Range(r3)) \cup Pairs(Range(r4))
           \cup Pairs(Range(r5))
  BY DEF Pairs
<1>12. QED
  BY <1>2, <1>10, <1>11

\* Detector and registry name the same events and issues; only the registry knows the unknown one.
LEMMA PairsAgree ==
  /\ Pairs(Rows) = RulePairs \cup {<<"unknown", "unknown">>}
  /\ \A p \in RulePairs : p[1] # "unknown"
<1>1. Pairs(Rows) = {<<p[1], p[2]>> : p \in SpecTrios} \cup {<<q[1], q[2]>> : q \in OtherQuads}
  <2>1. ASSUME NEW d \in Rows
        PROVE  \/ \E p \in SpecTrios : <<d.event, d.issue>> = <<p[1], p[2]>>
               \/ \E q \in OtherQuads : <<d.event, d.issue>> = <<q[1], q[2]>>
    <3>1. CASE \E spec \in Range(SafeSpecs) : IsRowOf(d, spec)
      <4>1. PICK spec \in Range(SafeSpecs) : IsRowOf(d, spec)
        BY <3>1
      <4>2. TrioOf(spec) \in SpecTrios
        BY SpecTrio
      <4>3. QED
        BY <4>1, <4>2 DEF IsRowOf, TrioOf
    <3>2. CASE QuadOf(d) \in OtherQuads
      <4>1. QuadOf(d)[1] = d.event /\ QuadOf(d)[2] = d.issue
        BY DEF QuadOf
      <4>2. QED
        BY <3>2, <4>1
    <3>3. QED
      BY <3>1, <3>2, DomainsAre
  <2>2. ASSUME NEW p \in SpecTrios PROVE \E d \in Rows : <<d.event, d.issue>> = <<p[1], p[2]>>
    <3>1. PICK spec \in Range(SafeSpecs) : p = TrioOf(spec)
      BY SpecsAre DEF Trios, TrioOf
    <3>2. PICK d \in Rows : IsRowOf(d, spec)
      BY DomainsAre
    <3>3. QED
      BY <3>1, <3>2 DEF IsRowOf, TrioOf
  <2>3. ASSUME NEW q \in OtherQuads PROVE \E d \in Rows : <<d.event, d.issue>> = <<q[1], q[2]>>
    <3>1. PICK d \in Rows : QuadOf(d) = q
      BY DomainsAre
    <3>2. QED
      BY <3>1 DEF QuadOf
  <2>4. QED
    BY <2>1, <2>2, <2>3 DEF Pairs
<1>2. {<<p[1], p[2]>> : p \in SpecTrios} =
        {<<"network_port", "network_port">>, <<"gpu_oom", "gpu">>,
         <<"cache_write_failed", "cache">>,
         <<"optional_dependency_missing", "optional_dependency">>,
         <<"optional_integration_failed", "optional_integration">>,
         <<"optional_cache_backend_failed", "optional_cache_backend">>,
         <<"optional_service_unavailable", "optional_service">>,
         <<"notification_sink_failed", "notification_sink">>,
         <<"observability_export_failed", "observability_export">>,
         <<"queue_backpressure", "queue_backpressure">>,
         <<"worker_overload", "worker_overload">>}
  BY DEF SpecTrios
<1>3. Pairs(Rows) = RulePairs \cup {<<"unknown", "unknown">>}
  BY <1>1, <1>2, OtherPairs, Zenon DEF RulePairs
<1>4. \A p \in RulePairs : p[1] # "unknown"
  BY DEF RulePairs
<1>5. QED
  BY <1>3, <1>4

-----------------------------------------------------------------------------
(***************************************************************************)
(* What has no issues.                                                     *)
(***************************************************************************)
LEMMA CandidateClean ==
  ASSUME NEW field, NEW rule \in KnownRules, ~Nameless(field)
  PROVE  FieldPathIssues([path |-> <<field>>, rule |-> rule]) = {}
<1> DEFINE c == [path |-> <<field>>, rule |-> rule]
<1>1. c.path = <<field>> /\ c.rule = rule
  OBVIOUS
<1> HIDE DEF c
<1>2. \A e : field # e => <<field>> # <<e>> /\ e \notin Range(<<field>>)
  BY DEF Range
<1>3. c.path # <<"">> /\ "" \notin Range(c.path)
  BY <1>1, <1>2, Zenon DEF Nameless
<1> DEFINE p == c.path # <<"">>
           q == "" \notin Range(c.path)
<1>4. p = TRUE /\ q = TRUE
  BY <1>3
<1>5. FieldPathIssues(c) = Unless(p, "registry_candidate_missing_field_path")
        \cup Unless(q, "registry_candidate_invalid_field_path")
        \cup Unless(c.rule \in KnownRules, "registry_candidate_unknown_semantic_rule")
  BY Zenon DEF FieldPathIssues
<1> HIDE DEF p, q
<1>6. FieldPathIssues(c) = {}
  BY <1>1, <1>4, <1>5 DEF Unless
<1>7. QED
  BY <1>6 DEF c

LEMMA SpecClean ==
  ASSUME NEW spec, spec.blank = {}, spec.named, SafeJsonConfigPath(spec.config),
         ~Nameless(spec.event), ~Nameless(spec.issue), ~Nameless(spec.fix),
         spec.candidates # <<>>, \A c \in Range(spec.candidates) : FieldPathIssues(c) = {}
  PROVE  SafeSpecIssues(spec) = {}
<1> DEFINE p == spec.blank = {} /\ spec.event # "" /\ spec.issue # "" /\ spec.fix # ""
           q == spec.fix = "" \/ spec.named
           found == UNION {FieldPathIssues(c) : c \in Range(spec.candidates)}
<1>1. p = TRUE /\ q = TRUE
  BY Zenon DEF Nameless
<1>2. SafeSpecIssues(spec) = Unless(p, "registry_missing_field")
        \cup Unless(q, "registry_invalid_fix_id")
        \cup Unless(SafeJsonConfigPath(spec.config), "registry_invalid_config_path")
        \cup Unless(spec.candidates # <<>>, "registry_missing_candidates") \cup found
  BY Zenon DEF SafeSpecIssues, All
<1>3. found = {}
  OBVIOUS
<1> HIDE DEF p, q, found
<1>4. QED
  BY <1>1, <1>2, <1>3 DEF Unless

LEMMA RegistryClean ==
  ASSUME NEW specs,
         \A i, j \in DOMAIN specs :
           (\/ specs[i].event = specs[j].event
            \/ specs[i].issue = specs[j].issue
            \/ specs[i].fix = specs[j].fix) => i = j,
         \A s \in Range(specs) : SafeSpecIssues(s) = {}
  PROVE  SafeRegistryShape(specs) = {}
<1>1. /\ Distinct(Column(specs, "event")) /\ Distinct(Column(specs, "issue"))
      /\ Distinct(Column(specs, "fix"))
  BY DEF Distinct, Column
<1>2. All({SafeSpecIssues(s) : s \in Range(specs)}) = {}
  BY DEF All
<1>3. QED
  BY <1>1, <1>2 DEF SafeRegistryShape, Unless

LEMMA DomainClean ==
  ASSUME NEW d, NEW fixes, ~Nameless(d.event), ~Nameless(d.issue),
         d.layer \in KnownLayers, d.risk = RiskOf(d.layer), d.reason,
         d.operator <=> d.layer = "manual_escalation",
         d.layer = "safe_auto_recover" => d.event \in DOMAIN fixes /\ d.fix = fixes[d.event],
         d.layer # "safe_auto_recover" => d.event \notin DOMAIN fixes /\ d.fix \notin Range(fixes)
  PROVE  DomainIssues(d, fixes) = {}
<1> DEFINE safe == d.layer = "safe_auto_recover"
           known == d.event \in DOMAIN fixes
           p == d.event # "" /\ d.issue # "" /\ d.layer # "" /\ d.risk # ""
           a == Unless(p, "domain_registry_missing_field")
                \cup Unless(d.layer \in KnownLayers, "domain_registry_unknown_strategy")
                \cup Unless(d.risk \in KnownRisks, "domain_registry_unknown_risk_level")
                \cup Unless(d.reason, "domain_registry_missing_reason")
           b1 == Unless(safe => known, "domain_registry_safe_without_safe_spec")
           b2 == Unless(safe /\ known => d.fix = fixes[d.event], "domain_registry_safe_fix_mismatch")
           b3 == Unless(safe => d.risk = "low", "domain_registry_safe_risk_not_low")
           b4 == Unless(safe => ~d.operator, "domain_registry_safe_operator_required")
           b5 == Unless(~safe => ~known, "domain_registry_non_safe_has_safe_spec")
           b6 == Unless(~safe => d.fix \notin Range(fixes), "domain_registry_non_safe_reuses_safe_fix")
           b7 == Unless(d.layer = "manual_escalation" => d.operator,
                        "domain_registry_manual_operator_not_required")
<1>1. d.risk \in {"low", "medium", "high"} /\ (safe => d.risk = "low")
  BY DEF RiskOf
<1>2. p = TRUE
  <2>1. /\ ~Nameless("low") /\ ~Nameless("medium") /\ ~Nameless("high")
        /\ ~Nameless("diagnose_only") /\ ~Nameless("manual_escalation")
        /\ ~Nameless("safe_auto_recover")
    BY Zenon DEF Nameless
  <2>2. ~Nameless(d.risk) /\ ~Nameless(d.layer)
    BY <1>1, <2>1 DEF KnownLayers
  <2>3. QED
    BY <2>2, Zenon DEF Nameless
<1>3. DomainIssues(d, fixes) = a \cup b1 \cup b2 \cup b3 \cup b4 \cup b5 \cup b6 \cup b7
  BY Zenon DEF DomainIssues
<1> HIDE DEF p
<1>4. a = {}
  BY <1>1, <1>2 DEF Unless, KnownRisks
<1>5. b1 = {} /\ b2 = {} /\ b3 = {} /\ b4 = {} /\ b5 = {} /\ b6 = {} /\ b7 = {}
  BY <1>1 DEF Unless
<1> HIDE DEF a, b1, b2, b3, b4, b5, b6, b7
<1>6. QED
  BY <1>3, <1>4, <1>5

LEMMA PolicyClean ==
  ASSUME NEW project, NEW d, NEW row, d.layer \in KnownLayers,
         row.layer = d.layer, row.fix = d.fix, row.risk = RiskOf(d.layer)
  PROVE  EventPolicyIssues(row, EventPolicyOf(project, d)) = {}
<1> DEFINE ep == EventPolicyOf(project, d)
           safe == d.layer = "safe_auto_recover"
<1>1. /\ ep.layer = d.layer /\ ep.risk = RiskOf(d.layer)
      /\ ep.fixes = (IF safe THEN <<d.fix>> ELSE <<>>)
      /\ ep.precheck = safe /\ ep.rollback = safe
      /\ ep.confirm = (d.layer = "manual_escalation") /\ ep.audit = TRUE
  BY DEF EventPolicyOf
<1>2. safe => ep.risk = "low"
  BY <1>1 DEF RiskOf
<1> HIDE DEF ep
<1>3. EventPolicyIssues(row, ep) = {}
  BY <1>1, <1>2 DEF EventPolicyIssues, UnlessSame, Unless
<1>4. QED
  BY <1>3 DEF ep

-----------------------------------------------------------------------------
(***************************************************************************)
(* The shipped setup.                                                      *)
(***************************************************************************)
SafeRows == [i \in DOMAIN SafeSpecs |-> Described(SafeSpecs[i])]

DomainRows == [i \in DOMAIN Domains |-> DescribedDomain(Domains[i])]

ManualRows == {d \in Rows : d.layer = "manual_escalation"}

FixedRows == {d \in Rows : ~Nameless(d.fix)}

LEMMA ShippedIs ==
  ASSUME NEW project
  PROVE  LET s == Shipped(project)
         IN  /\ s.safe = SafeRows /\ s.domains = DomainRows
             /\ s.detector = [e \in Range(Column(Detector!RULES, "event")) |->
                                (CHOOSE r \in Range(Detector!RULES) : r.event = e).issue]
             /\ s.safeEvents = {spec.event : spec \in Range(SafeSpecs)}
             /\ s.manualEvents = {d.event : d \in ManualRows}
             /\ s.manualConstants = {d.event : d \in {m \in ManualRows : Nameless(m.fix)}}
             /\ s.manualIssues = {d.issue : d \in {m \in ManualRows : Nameless(m.fix)}}
             /\ s.remediation = [e \in {d.event : d \in FixedRows} |-> DomainOf(e).fix]
             /\ s.runtime = [e \in EventTypes |-> EventPolicyOf(project, DomainOf(e))]
             /\ s.precheck = [f \in SafeFixes |-> CHOOSE spec \in Range(SafeRows) : spec.fix = f]
             /\ s.guarded = [e \in {spec.event : spec \in Range(SafeSpecs)} |-> {SafeFixOf(e)}]
             /\ s.local = SafeFixes /\ s.remote = SafeFixes
             /\ s.regression = EventTypes \ SyntheticEvents
<1> DEFINE detector == [e \in Range(Column(Detector!RULES, "event")) |->
                          (CHOOSE r \in Range(Detector!RULES) : r.event = e).issue]
           safeEvents == {spec.event : spec \in Range(SafeSpecs)}
           manualEvents == {d.event : d \in ManualRows}
           manualConstants == {d.event : d \in {m \in ManualRows : Nameless(m.fix)}}
           manualIssues == {d.issue : d \in {m \in ManualRows : Nameless(m.fix)}}
           remediation == [e \in {d.event : d \in FixedRows} |-> DomainOf(e).fix]
           runtime == RuntimePolicy(project).events
           precheck == [f \in SafeFixes |-> CHOOSE spec \in Range(SafeRows) : spec.fix = f]
           guarded == [e \in {spec.event : spec \in Range(SafeSpecs)} |-> {SafeFixOf(e)}]
           regression == EventTypes \ SyntheticEvents
<1>1. Shipped(project) =
        [safe |-> SafeRows, domains |-> DomainRows, detector |-> detector,
         safeEvents |-> safeEvents, manualEvents |-> manualEvents,
         manualConstants |-> manualConstants, manualIssues |-> manualIssues,
         remediation |-> remediation, runtime |-> runtime, precheck |-> precheck,
         guarded |-> guarded, local |-> SafeFixes, remote |-> SafeFixes,
         regression |-> regression]
  BY Zenon DEF Shipped, SafeRows, DomainRows, ManualRows, FixedRows, Nameless
<1>2. runtime = [e \in EventTypes |-> EventPolicyOf(project, DomainOf(e))]
  <2> DEFINE events == [e \in EventTypes |-> EventPolicyOf(project, DomainOf(e))]
  <2>1. RuntimePolicy(project) =
          [default |-> "manual_escalation", unknown |-> "diagnose_only", dry |-> project.dry,
           events |-> events, allow |-> project.allow, forbidden |-> ForbiddenActions]
    BY Zenon DEF RuntimePolicy
  <2> HIDE DEF events
  <2>2. RuntimePolicy(project).events = events
    BY <2>1
  <2>3. QED
    BY <2>2 DEF events
<1> HIDE DEF detector, safeEvents, manualEvents, manualConstants, manualIssues, remediation,
             runtime, precheck, guarded, regression
<1>3. LET s == Shipped(project)
      IN  /\ s.safe = SafeRows /\ s.domains = DomainRows /\ s.detector = detector
          /\ s.safeEvents = safeEvents /\ s.manualEvents = manualEvents
          /\ s.manualConstants = manualConstants /\ s.manualIssues = manualIssues
          /\ s.remediation = remediation /\ s.runtime = runtime /\ s.precheck = precheck
          /\ s.guarded = guarded /\ s.local = SafeFixes /\ s.remote = SafeFixes
          /\ s.regression = regression
  <2> DEFINE s == Shipped(project)
  <2>1. s.safe = SafeRows /\ s.domains = DomainRows /\ s.detector = detector
    BY <1>1
  <2>2. s.safeEvents = safeEvents /\ s.manualEvents = manualEvents
    BY <1>1
  <2>3. s.manualConstants = manualConstants /\ s.manualIssues = manualIssues
    BY <1>1
  <2>4. s.remediation = remediation /\ s.runtime = runtime /\ s.precheck = precheck
    BY <1>1
  <2>5. s.guarded = guarded /\ s.local = SafeFixes /\ s.remote = SafeFixes
    BY <1>1
  <2>6. s.regression = regression
    BY <1>1
  <2> HIDE DEF s
  <2>7. QED
    BY <2>1, <2>2, <2>3, <2>4, <2>5, <2>6 DEF s
<1>4. QED
  BY <1>2, <1>3, Zenon DEF detector, safeEvents, manualEvents, manualConstants, manualIssues,
     remediation, precheck, guarded, regression

LEMMA DescribedIs ==
  ASSUME NEW spec
  PROVE  LET s == Described(spec)
         IN  /\ s.event = spec.event /\ s.issue = spec.issue /\ s.fix = spec.fix
             /\ s.named /\ s.blank = {} /\ s.config = JsonFile
             /\ s.candidates = [k \in DOMAIN spec.candidates |->
                                  [path |-> <<spec.candidates[k].field>>,
                                   rule |-> spec.candidates[k].rule]]
<1> DEFINE candidates == [k \in DOMAIN spec.candidates |->
                            [path |-> <<spec.candidates[k].field>>,
                             rule |-> spec.candidates[k].rule]]
<1>1. Described(spec) =
        [event |-> spec.event, issue |-> spec.issue, fix |-> spec.fix, named |-> TRUE,
         blank |-> {}, config |-> JsonFile, candidates |-> candidates]
  BY Zenon DEF Described
<1> HIDE DEF candidates
<1>2. LET s == Described(spec)
      IN  /\ s.event = spec.event /\ s.issue = spec.issue /\ s.fix = spec.fix
          /\ s.named /\ s.blank = {} /\ s.config = JsonFile /\ s.candidates = candidates
  BY <1>1
<1>3. QED
  BY <1>2, Zenon DEF candidates

LEMMA DescribedDomainIs ==
  ASSUME NEW d
  PROVE  LET r == DescribedDomain(d)
         IN  /\ r.event = d.event /\ r.issue = d.issue /\ r.layer = d.layer /\ r.fix = d.fix
             /\ r.risk = RiskOf(d.layer) /\ r.reason
             /\ r.operator <=> d.layer = "manual_escalation"
BY DEF DescribedDomain

\* The safe rows of the setup are the safe specs, in their order.
LEMMA SafeRowsAre ==
  /\ \E S : SafeRows \in Seq(S)
  /\ Len(SafeRows) = Len(SafeSpecs) /\ DOMAIN SafeRows = DOMAIN SafeSpecs
  /\ SafeRows # <<>>
  /\ \A i \in DOMAIN SafeRows : SafeRows[i] = Described(SafeSpecs[i])
  /\ Range(SafeRows) = {Described(spec) : spec \in Range(SafeSpecs)}
  /\ \A i, j \in DOMAIN SafeRows :
       (\/ SafeRows[i].event = SafeRows[j].event
        \/ SafeRows[i].issue = SafeRows[j].issue
        \/ SafeRows[i].fix = SafeRows[j].fix) => i = j
<1>1. PICK S : SafeSpecs \in Seq(S)
  BY SpecsAre
<1>2. SafeRows \in Seq({Described(SafeSpecs[i]) : i \in DOMAIN SafeSpecs})
  BY <1>1 DEF SafeRows
<1>3. Len(SafeRows) = Len(SafeSpecs) /\ DOMAIN SafeRows = DOMAIN SafeSpecs
  BY <1>1 DEF SafeRows
<1>4. \A i \in DOMAIN SafeRows : SafeRows[i] = Described(SafeSpecs[i])
  BY DEF SafeRows
<1>5. Range(SafeRows) = {Described(spec) : spec \in Range(SafeSpecs)}
  BY <1>3, <1>4 DEF Range
<1>6. \A i \in DOMAIN SafeRows : /\ SafeRows[i].event = SafeSpecs[i].event
                                 /\ SafeRows[i].issue = SafeSpecs[i].issue
                                 /\ SafeRows[i].fix = SafeSpecs[i].fix
  BY <1>4, DescribedIs
<1>7. SafeRows # <<>>
  <2>1. <<"gpu_oom", "gpu", "fix-gpu-1">> \in SpecTrios
    BY DEF SpecTrios
  <2>2. PICK spec \in Range(SafeSpecs) : TrioOf(spec) = <<"gpu_oom", "gpu", "fix-gpu-1">>
    BY <2>1, SpecsAre DEF Trios, TrioOf
  <2>3. PICK i \in DOMAIN SafeRows : TRUE
    BY <1>3 DEF Range
  <2>4. DOMAIN <<>> = {}
    OBVIOUS
  <2>5. QED
    BY <2>3, <2>4
<1>8. QED
  BY <1>2, <1>3, <1>4, <1>5, <1>6, <1>7, SpecsDiffer

LEMMA DomainRowsAre ==
  /\ \E S : DomainRows \in Seq(S)
  /\ DomainRows # <<>>
  /\ Range(DomainRows) = {DescribedDomain(d) : d \in Rows}
  /\ Range(Column(DomainRows, "event")) = EventTypes
  /\ \A i, j \in DOMAIN DomainRows : DomainRows[i].event = DomainRows[j].event => i = j
<1>1. PICK S : Domains \in Seq(S)
  BY DomainsAre
<1>2. DomainRows \in Seq({DescribedDomain(Domains[i]) : i \in DOMAIN Domains})
  BY <1>1 DEF DomainRows
<1>3. DOMAIN DomainRows = DOMAIN Domains
  BY DEF DomainRows
<1>4. \A i \in DOMAIN Domains : DomainRows[i] = DescribedDomain(Domains[i])
  BY DEF DomainRows
<1>5. Range(DomainRows) = {DescribedDomain(d) : d \in Rows}
  BY <1>3, <1>4 DEF Range, Rows
<1>6. \A i \in DOMAIN Domains : DomainRows[i].event = Domains[i].event
  BY <1>4, DescribedDomainIs
<1>7. Range(Column(DomainRows, "event")) = EventTypes
  BY <1>3, <1>6 DEF Range, Column, EventTypes, Rows
<1>8. DomainRows # <<>>
  <2>1. <<"gpu_oom", "gpu", "fix-gpu-1">> \in SpecTrios
    BY DEF SpecTrios
  <2>2. PICK spec \in Range(SafeSpecs) : TrioOf(spec) = <<"gpu_oom", "gpu", "fix-gpu-1">>
    BY <2>1, SpecsAre DEF Trios, TrioOf
  <2>3. PICK d \in Rows : IsRowOf(d, spec)
    BY DomainsAre
  <2>4. PICK i \in DOMAIN DomainRows : TRUE
    BY <1>3, <2>3 DEF Range, Rows
  <2>5. DOMAIN <<>> = {}
    OBVIOUS
  <2>6. QED
    BY <2>4, <2>5
<1>9. QED
  BY <1>2, <1>3, <1>5, <1>6, <1>7, <1>8, DomainsAre

\* The registry looks an event up.
LEMMA RowOfEvent ==
  /\ \A d \in Rows : DomainOf(d.event) = d
  /\ \A c, d \in Rows : c.event = d.event => c = d
<1>1. \A c, d \in Rows : c.event = d.event => c = d
  BY DomainsAre DEF Rows, Range
<1>2. \A d \in Rows : DomainOf(d.event) = d
  BY <1>1 DEF DomainOf
<1>3. QED
  BY <1>1, <1>2

\* A row is safe or it is not.
LEMMA RowIs ==
  ASSUME NEW d \in Rows
  PROVE  /\ ~Nameless(d.event) /\ ~Nameless(d.issue) /\ d.layer \in KnownLayers
         /\ d.layer = "safe_auto_recover" => \E spec \in Range(SafeSpecs) : IsRowOf(d, spec)
         /\ d.layer # "safe_auto_recover" =>
              d.fix \notin SafeFixes /\ \A spec \in Range(SafeSpecs) : spec.event # d.event
<1>1. CASE \E spec \in Range(SafeSpecs) : IsRowOf(d, spec)
  BY <1>1, SpecsNamed DEF IsRowOf, KnownLayers
<1>2. CASE QuadOf(d) \in OtherQuads
  <2>1. /\ QuadOf(d)[1] = d.event /\ QuadOf(d)[2] = d.issue /\ QuadOf(d)[3] = d.layer
        /\ QuadOf(d)[4] = d.fix
    BY DEF QuadOf
  <2>2. /\ ~Nameless(d.event) /\ ~Nameless(d.issue)
        /\ d.layer \in {"manual_escalation", "diagnose_only"}
        /\ \A p \in SpecTrios : p[1] # d.event /\ p[3] # d.fix
    BY <1>2, <2>1, OtherQuadsAre
  <2>3. \A spec \in Range(SafeSpecs) : spec.event # d.event /\ spec.fix # d.fix
    <3>1. ASSUME NEW spec \in Range(SafeSpecs)
          PROVE  spec.event # d.event /\ spec.fix # d.fix
      <4>1. TrioOf(spec) \in SpecTrios
        BY SpecTrio
      <4>2. TrioOf(spec)[1] = spec.event /\ TrioOf(spec)[3] = spec.fix
        BY DEF TrioOf
      <4>3. QED
        BY <2>2, <4>1, <4>2
    <3>2. QED
      BY <3>1
  <2>4. QED
    BY <2>2, <2>3 DEF KnownLayers, SafeFixes
<1>3. QED
  BY <1>1, <1>2, DomainsAre

LEMMA FixesOfRowsAre ==
  LET fixes == FixByEvent(SafeRows)
  IN  /\ DOMAIN fixes = {spec.event : spec \in Range(SafeSpecs)}
      /\ Range(Column(SafeRows, "event")) = {spec.event : spec \in Range(SafeSpecs)}
      /\ \A spec \in Range(SafeSpecs) : fixes[spec.event] = spec.fix
      /\ Range(fixes) = SafeFixes
<1> DEFINE fixes == FixByEvent(SafeRows)
<1>1. PICK S : SafeRows \in Seq(S)
  BY SafeRowsAre
<1>2. Distinct(Column(SafeRows, "event"))
  BY SafeRowsAre DEF Distinct, Column
<1>3. \A i \in DOMAIN SafeRows : /\ SafeRows[i].event = SafeSpecs[i].event
                                 /\ SafeRows[i].fix = SafeSpecs[i].fix
  BY SafeRowsAre, DescribedIs
<1>4. \A i \in DOMAIN SafeRows : fixes[SafeSpecs[i].event] = SafeSpecs[i].fix
  BY <1>1, <1>2, <1>3, FixOfSpec
<1>5. Range(Column(SafeRows, "event")) = {spec.event : spec \in Range(SafeSpecs)}
  BY <1>3, SafeRowsAre DEF Range, Column
<1>6. DOMAIN fixes = {spec.event : spec \in Range(SafeSpecs)}
  BY <1>5 DEF FixByEvent
<1> HIDE DEF fixes
<1>7. \A spec \in Range(SafeSpecs) : fixes[spec.event] = spec.fix
  BY <1>4, SafeRowsAre DEF Range
<1>8. Range(fixes) = SafeFixes
  BY <1>6, <1>7 DEF Range, SafeFixes
<1>9. QED
  BY <1>5, <1>6, <1>7, <1>8 DEF fixes

-----------------------------------------------------------------------------
(***************************************************************************)
(* What the validator looks at, one table after the other.                 *)
(***************************************************************************)
LEMMA ShippedSpecsClean == SafeRegistryShape(SafeRows) = {}
<1>1. ASSUME NEW spec \in Range(SafeSpecs)
      PROVE  SafeSpecIssues(Described(spec)) = {}
  <2> DEFINE s == Described(spec)
             cs == spec.candidates
  <2>1. /\ s.event = spec.event /\ s.issue = spec.issue /\ s.fix = spec.fix
        /\ s.named /\ s.blank = {} /\ s.config = JsonFile
        /\ s.candidates = [k \in DOMAIN cs |-> [path |-> <<cs[k].field>>, rule |-> cs[k].rule]]
    BY DescribedIs
  <2>2. SafeJsonConfigPath(s.config)
    BY <2>1 DEF SafeJsonConfigPath, JsonFile
  <2>3. Filled(cs) /\ Registered(cs)
    BY SpecsAre, SpecsRegistered
  <2>4. ASSUME NEW k \in DOMAIN cs
        PROVE  FieldPathIssues([path |-> <<cs[k].field>>, rule |-> cs[k].rule]) = {}
    <3>1. ~Nameless(cs[k].field)
      BY <2>3 DEF Filled, Range
    <3>2. cs[k].rule \in KnownRules
      <4>1. IsCandidate(cs[k])
        BY <2>3 DEF Registered
      <4>2. \A f, n : /\ Off(f).rule = "disable_bool" /\ Lower(f, n).rule = "lower_int"
                      /\ Degrade(f, n).rule = "safe_enum_downgrade"
                      /\ Port(f, n).rule = "port_available"
        BY DEF Off, Lower, Degrade, Port
      <4>3. QED
        BY <4>1, <4>2 DEF IsCandidate, KnownRules
    <3>3. QED
      BY <3>1, <3>2, CandidateClean
  <2>5. s.candidates # <<>>
    <3>1. DOMAIN cs # {}
      <4>1. PICK S : cs \in Seq(S)
        BY <2>3 DEF Filled
      <4>2. Len(cs) # 0 /\ DOMAIN cs = 1..Len(cs) /\ Len(cs) \in Nat
        BY <2>3, <4>1, EmptySeq DEF Filled
      <4>3. 1 \in DOMAIN cs
        BY <4>2
      <4>4. QED
        BY <4>3
    <3>2. DOMAIN s.candidates = DOMAIN cs
      BY <2>1
    <3>3. DOMAIN <<>> = {}
      OBVIOUS
    <3>4. QED
      BY <3>1, <3>2, <3>3
  <2>6. \A c \in Range(s.candidates) : FieldPathIssues(c) = {}
    <3>1. /\ DOMAIN s.candidates = DOMAIN cs
          /\ \A k \in DOMAIN cs :
               s.candidates[k] = [path |-> <<cs[k].field>>, rule |-> cs[k].rule]
      BY <2>1
    <3> HIDE DEF s, cs
    <3>2. QED
      BY <2>4, <3>1 DEF Range
  <2>7. ~Nameless(s.event) /\ ~Nameless(s.issue) /\ ~Nameless(s.fix)
    BY <2>1, SpecsNamed
  <2> HIDE DEF s
  <2>8. SafeSpecIssues(s) = {}
    BY <2>1, <2>2, <2>5, <2>6, <2>7, SpecClean
  <2>9. QED
    BY <2>8 DEF s
<1>2. \A s \in Range(SafeRows) : SafeSpecIssues(s) = {}
  BY <1>1, SafeRowsAre
<1>3. QED
  BY <1>2, SafeRowsAre, RegistryClean

LEMMA ShippedDomainsClean == DomainRegistryShape(DomainRows, SafeRows) = {}
<1> DEFINE fixes == FixByEvent(SafeRows)
<1>1. ASSUME NEW d \in Rows
      PROVE  DomainIssues(DescribedDomain(d), fixes) = {}
  <2> DEFINE r == DescribedDomain(d)
  <2>1. /\ r.event = d.event /\ r.issue = d.issue /\ r.layer = d.layer /\ r.fix = d.fix
        /\ r.risk = RiskOf(d.layer) /\ r.reason
        /\ r.operator <=> d.layer = "manual_escalation"
    BY DescribedDomainIs
  <2>2. /\ ~Nameless(d.event) /\ ~Nameless(d.issue) /\ d.layer \in KnownLayers
        /\ d.layer = "safe_auto_recover" => \E spec \in Range(SafeSpecs) : IsRowOf(d, spec)
        /\ d.layer # "safe_auto_recover" =>
             d.fix \notin SafeFixes /\ \A spec \in Range(SafeSpecs) : spec.event # d.event
    BY RowIs
  <2>3. /\ DOMAIN fixes = {spec.event : spec \in Range(SafeSpecs)}
        /\ \A spec \in Range(SafeSpecs) : fixes[spec.event] = spec.fix
        /\ Range(fixes) = SafeFixes
    BY FixesOfRowsAre
  <2> HIDE DEF r, fixes
  <2>4. d.layer = "safe_auto_recover" => d.event \in DOMAIN fixes /\ d.fix = fixes[d.event]
    BY <2>2, <2>3 DEF IsRowOf
  <2>5. d.layer # "safe_auto_recover" => d.event \notin DOMAIN fixes /\ d.fix \notin Range(fixes)
    BY <2>2, <2>3
  <2>6. DomainIssues(r, fixes) = {}
    BY <2>1, <2>2, <2>4, <2>5, DomainClean
  <2>7. QED
    BY <2>6 DEF r
<1>2. Distinct(Column(DomainRows, "event"))
  BY DomainRowsAre DEF Distinct, Column
<1>3. All({DomainIssues(d, fixes) : d \in Range(DomainRows)}) = {}
  BY <1>1, DomainRowsAre DEF All
<1>4. DomainRegistryShape(DomainRows, SafeRows) =
        Unless(Distinct(Column(DomainRows, "event")), "registry_duplicate_domain_event_type")
        \cup All({DomainIssues(d, fixes) : d \in Range(DomainRows)})
  BY Zenon DEF DomainRegistryShape
<1> HIDE DEF fixes
<1>5. QED
  BY <1>2, <1>3, <1>4 DEF Unless

\* The detector, which names its issues in rules of its own.
LEMMA ShippedDetectorClean ==
  ASSUME NEW project
  PROVE  DetectorCoverage(DomainRows, Shipped(project).detector) = {}
<1> DEFINE R == Range(Detector!RULES)
           det == [e \in Range(Column(Detector!RULES, "event")) |->
                     (CHOOSE r \in R : r.event = e).issue]
           expected == EventTypes \ SyntheticEvents
<1>1. Shipped(project).detector = det
  BY ShippedIs
<1>2. \A r, s \in R : r.event = s.event => r = s
  BY RulesAreNamed DEF Named, Range
<1>3. DOMAIN det = {r.event : r \in R}
  BY DEF Range, Column
<1>4. \A r \in R : det[r.event] = r.issue
  BY <1>2, <1>3
<1> HIDE DEF det
<1>5. \A d \in Rows : d.event # "unknown" => \E r \in R : r.event = d.event /\ r.issue = d.issue
  <2>1. ASSUME NEW d \in Rows, d.event # "unknown"
        PROVE  \E r \in R : r.event = d.event /\ r.issue = d.issue
    <3>1. <<d.event, d.issue>> \in RulePairs \cup {<<"unknown", "unknown">>}
      BY PairsAgree DEF Pairs
    <3>2. <<d.event, d.issue>> \in Pairs(R)
      BY <2>1, <3>1, RulesPairs
    <3>3. QED
      BY <3>2 DEF Pairs
  <2>2. QED
    BY <2>1
<1>6. \A r \in R : r.event # "unknown" /\ \E d \in Rows : d.event = r.event
  <2>1. ASSUME NEW r \in R
        PROVE  r.event # "unknown" /\ \E d \in Rows : d.event = r.event
    <3>1. <<r.event, r.issue>> \in RulePairs
      BY RulesPairs DEF Pairs
    <3>2. <<r.event, r.issue>>[1] # "unknown" /\ <<r.event, r.issue>> \in Pairs(Rows)
      BY <3>1, PairsAgree
    <3>3. QED
      BY <3>2 DEF Pairs
  <2>2. QED
    BY <2>1
<1> HIDE DEF R
<1>7. DOMAIN det = expected
  BY <1>3, <1>5, <1>6 DEF EventTypes, SyntheticEvents
<1>8. \A d \in Rows : d.event \in expected => d.event \in DOMAIN det /\ det[d.event] = d.issue
  BY <1>4, <1>5, <1>7 DEF SyntheticEvents
<1>9. \A d \in Range(DomainRows) :
        d.event \in expected => d.event \in DOMAIN det /\ det[d.event] = d.issue
  BY <1>8, DomainRowsAre, DescribedDomainIs
<1>10. DetectorCoverage(DomainRows, det) = {}
  <2> DEFINE found(d) == Unless(d.event \in DOMAIN det, "detector_missing_event_type")
                         \cup Unless(d.event \in DOMAIN det => det[d.event] = d.issue,
                                     "detector_issue_type_mismatch")
             those == {r \in Range(DomainRows) : r.event \in expected}
  <2>1. Range(Column(DomainRows, "event")) \ SyntheticEvents = expected
    BY DomainRowsAre
  <2>2. DetectorCoverage(DomainRows, det) =
          UnlessSame(DOMAIN det, expected, "detector_event_types")
          \cup UNION {found(d) : d \in those}
    BY <2>1, Zenon DEF DetectorCoverage, All
  <2>3. \A d \in those : found(d) = {}
    BY <1>9 DEF Unless
  <2> HIDE DEF found, those
  <2>4. UNION {found(d) : d \in those} = {}
    BY <2>3
  <2>5. UnlessSame(DOMAIN det, expected, "detector_event_types") = {}
    BY <1>7 DEF UnlessSame, Unless
  <2>6. QED
    BY <2>2, <2>4, <2>5
<1>11. QED
  BY <1>1, <1>10

LEMMA ShippedManualClean ==
  ASSUME NEW project
  PROVE  LET s == Shipped(project)
         IN  /\ s.manualEvents = EventsOf(DomainRows, {"manual_escalation"})
             /\ ManualConstants(DomainRows, s.manualConstants, s.manualIssues) = {}
<1> DEFINE s == Shipped(project)
           same == {d \in Range(DomainRows) : d.layer = "manual_escalation" /\ Nameless(d.fix)}
           events == {d.event : d \in {m \in ManualRows : Nameless(m.fix)}}
           issues == {d.issue : d \in {m \in ManualRows : Nameless(m.fix)}}
<1>1. s.manualEvents = {d.event : d \in ManualRows} /\ s.manualConstants = events
      /\ s.manualIssues = issues
  BY ShippedIs
<1>2. /\ Range(DomainRows) = {DescribedDomain(d) : d \in Rows}
      /\ \A d : LET r == DescribedDomain(d)
                IN  r.event = d.event /\ r.issue = d.issue /\ r.layer = d.layer /\ r.fix = d.fix
  BY DomainRowsAre, DescribedDomainIs
<1>3. {d.event : d \in ManualRows} = EventsOf(DomainRows, {"manual_escalation"})
  BY <1>2 DEF ManualRows, EventsOf
<1>4. events = {d.event : d \in same} /\ issues = {d.issue : d \in same}
  BY <1>2 DEF ManualRows
<1>5. ManualConstants(DomainRows, events, issues)
        = IF events = {} /\ issues = {} THEN {}
          ELSE UnlessSame(events, {d.event : d \in same}, "remediation_manual_event_types")
               \cup UnlessSame(issues, {d.issue : d \in same}, "remediation_manual_issue_types")
  BY Zenon DEF ManualConstants, Nameless
<1> HIDE DEF same, events, issues, s
<1>6. ManualConstants(DomainRows, events, issues) = {}
  BY <1>4, <1>5 DEF UnlessSame, Unless
<1>7. QED
  BY <1>1, <1>3, <1>6 DEF s

LEMMA ShippedMappingClean ==
  ASSUME NEW project
  PROVE  RemediationMapping(DomainRows, Shipped(project).remediation) = {}
<1> DEFINE map == [e \in {d.event : d \in FixedRows} |-> DomainOf(e).fix]
           expected == {d \in Range(DomainRows) : ~Nameless(d.fix)}
           found(d) == Unless(d.event \in DOMAIN map /\ map[d.event] = d.fix,
                              "remediation_mapping_mismatch")
<1>1. Shipped(project).remediation = map
  BY ShippedIs
<1>2. RemediationMapping(DomainRows, map)
        = UnlessSame(DOMAIN map, {d.event : d \in expected}, "remediation_mapping_event_types")
          \cup UNION {found(d) : d \in expected}
  BY Zenon DEF RemediationMapping, All, Nameless
<1>3. \A d \in FixedRows : d.event \in DOMAIN map /\ map[d.event] = d.fix
  <2>1. ASSUME NEW d \in FixedRows PROVE d.event \in DOMAIN map /\ map[d.event] = d.fix
    <3>1. DomainOf(d.event) = d
      BY RowOfEvent DEF FixedRows
    <3>2. QED
      BY <3>1
  <2>2. QED
    BY <2>1
<1>4. DOMAIN map = {d.event : d \in FixedRows}
  OBVIOUS
<1> HIDE DEF map
<1>5. /\ \A d \in expected : \E x \in FixedRows : d.event = x.event /\ d.fix = x.fix
      /\ \A x \in FixedRows : \E d \in expected : d.event = x.event
  BY DomainRowsAre, DescribedDomainIs DEF FixedRows
<1> HIDE DEF expected
<1>6. DOMAIN map = {d.event : d \in expected}
  BY <1>4, <1>5
<1>7. \A d \in expected : found(d) = {}
  BY <1>3, <1>5 DEF Unless
<1> HIDE DEF found
<1>8. QED
  BY <1>1, <1>2, <1>6, <1>7 DEF UnlessSame, Unless

LEMMA RuntimePoliciesAre ==
  ASSUME NEW domains, NEW runtime
  PROVE  LET found(d) == IF d.event \notin DOMAIN runtime THEN {"runtime_policy_missing"}
                         ELSE EventPolicyIssues(d, runtime[d.event])
             at(layer) == UnlessSame({e \in DOMAIN runtime : runtime[e].layer = layer},
                                     EventsOf(domains, {layer}), "runtime_layer_event_types")
         IN  RuntimePolicies(domains, runtime)
               = UnlessSame(DOMAIN runtime, Range(Column(domains, "event")), "runtime_event_types")
                 \cup (UNION {at(layer) : layer \in KnownLayers})
                 \cup (UNION {found(d) : d \in Range(domains)})
BY Zenon DEF RuntimePolicies, All

LEMMA ShippedPoliciesClean ==
  ASSUME NEW project
  PROVE  RuntimePolicies(DomainRows, Shipped(project).runtime) = {}
<1> DEFINE runtime == [e \in EventTypes |-> EventPolicyOf(project, DomainOf(e))]
           found(d) == IF d.event \notin DOMAIN runtime THEN {"runtime_policy_missing"}
                       ELSE EventPolicyIssues(d, runtime[d.event])
           at(layer) == UnlessSame({e \in DOMAIN runtime : runtime[e].layer = layer},
                                   EventsOf(DomainRows, {layer}), "runtime_layer_event_types")
<1>1. Shipped(project).runtime = runtime
  BY ShippedIs
<1>2. RuntimePolicies(DomainRows, runtime)
        = UnlessSame(DOMAIN runtime, Range(Column(DomainRows, "event")), "runtime_event_types")
          \cup (UNION {at(layer) : layer \in KnownLayers})
          \cup (UNION {found(d) : d \in Range(DomainRows)})
  BY Zenon, RuntimePoliciesAre
<1>3. DOMAIN runtime = EventTypes
  OBVIOUS
<1>4. \A d \in Rows : d.event \in EventTypes /\ runtime[d.event] = EventPolicyOf(project, d)
  BY RowOfEvent DEF EventTypes
<1> HIDE DEF runtime
<1>5. \A d \in Rows : EventPolicyOf(project, d).layer = d.layer
  BY DEF EventPolicyOf
<1>6. ASSUME NEW layer \in KnownLayers PROVE at(layer) = {}
  <2>1. \A e : e \in EventTypes /\ runtime[e].layer = layer <=>
          \E d \in Rows : d.event = e /\ d.layer = layer
    BY <1>4, <1>5 DEF EventTypes
  <2>2. EventsOf(DomainRows, {layer}) = {d.event : d \in {r \in Rows : r.layer = layer}}
    BY DomainRowsAre, DescribedDomainIs DEF EventsOf
  <2>3. {e \in DOMAIN runtime : runtime[e].layer = layer} = EventsOf(DomainRows, {layer})
    BY <1>3, <2>1, <2>2
  <2>4. QED
    BY <2>3 DEF UnlessSame, Unless
<1>7. ASSUME NEW d \in Range(DomainRows) PROVE found(d) = {}
  <2>1. PICK x \in Rows : d = DescribedDomain(x)
    BY DomainRowsAre
  <2>2. /\ d.event = x.event /\ d.layer = x.layer /\ d.fix = x.fix /\ d.risk = RiskOf(x.layer)
        /\ x.layer \in KnownLayers
    BY <2>1, DescribedDomainIs, RowIs
  <2>3. EventPolicyIssues(d, EventPolicyOf(project, x)) = {}
    BY <2>2, PolicyClean
  <2>4. QED
    BY <1>3, <1>4, <2>2, <2>3
<1> HIDE DEF found, at
<1>8. DOMAIN runtime = Range(Column(DomainRows, "event"))
  BY <1>3, DomainRowsAre
<1>9. QED
  BY <1>1, <1>2, <1>6, <1>7, <1>8 DEF UnlessSame, Unless

LEMMA ShippedPrecheckClean ==
  ASSUME NEW project
  PROVE  PrecheckSpecs(SafeRows, Shipped(project).precheck) = {}
<1> DEFINE precheck == [f \in SafeFixes |-> CHOOSE spec \in Range(SafeRows) : spec.fix = f]
           found(s) == Unless(s.fix \in DOMAIN precheck => precheck[s.fix] = s,
                              "precheck_spec_mismatch")
<1>1. Shipped(project).precheck = precheck
  BY ShippedIs
<1>2. PrecheckSpecs(SafeRows, precheck)
        = UnlessSame(DOMAIN precheck, Range(FixByEvent(SafeRows)), "precheck_spec_fix_ids")
          \cup UNION {found(s) : s \in Range(SafeRows)}
  BY Zenon DEF PrecheckSpecs, All
<1>3. \A s, t \in Range(SafeRows) : s.fix = t.fix => s = t
  BY SafeRowsAre DEF Range
<1>4. \A s \in Range(SafeRows) : s.fix \in DOMAIN precheck => precheck[s.fix] = s
  BY <1>3
<1>5. \A s \in Range(SafeRows) : found(s) = {}
  BY <1>4 DEF Unless
<1>6. DOMAIN precheck = SafeFixes
  OBVIOUS
<1> HIDE DEF found, precheck
<1>7. QED
  BY <1>1, <1>2, <1>5, <1>6, FixesOfRowsAre DEF UnlessSame, Unless

LEMMA ShippedGuardedClean ==
  ASSUME NEW project
  PROVE  GuardedCandidates(SafeRows, Shipped(project).guarded) = {}
<1> DEFINE fixes == FixByEvent(SafeRows)
           E == {spec.event : spec \in Range(SafeSpecs)}
           guarded == [e \in E |-> {SafeFixOf(e)}]
<1>1. Shipped(project).guarded = guarded
  BY ShippedIs
<1>2. GuardedCandidates(SafeRows, guarded)
        = UnlessSame(DOMAIN guarded, DOMAIN fixes, "guarded_candidate_event_types")
          \cup Unless(\A e \in DOMAIN fixes : e \in DOMAIN guarded /\ guarded[e] = {fixes[e]},
                      "guarded_candidate_fix_mismatch")
  BY Zenon DEF GuardedCandidates
<1>3. DOMAIN fixes = E /\ \A spec \in Range(SafeSpecs) : fixes[spec.event] = spec.fix
  BY FixesOfRowsAre
<1> HIDE DEF fixes
<1>4. \A spec \in Range(SafeSpecs) : SafeFixOf(spec.event) = spec.fix
  <2>1. ASSUME NEW spec \in Range(SafeSpecs) PROVE SafeFixOf(spec.event) = spec.fix
    <3> DEFINE it == CHOOSE s \in Range(SafeSpecs) : s.event = spec.event
    <3>1. SafeFixOf(spec.event) = it.fix
      BY Zenon DEF SafeFixOf
    <3>2. it \in Range(SafeSpecs) /\ it.event = spec.event
      OBVIOUS
    <3> HIDE DEF it
    <3>3. it = spec
      BY <3>2, OneFixForAnEvent
    <3>4. QED
      BY <3>1, <3>3
  <2>2. QED
    BY <2>1
<1>5. DOMAIN guarded = E /\ \A e \in E : guarded[e] = {SafeFixOf(e)}
  OBVIOUS
<1> HIDE DEF guarded
<1>6. \A e \in DOMAIN fixes : e \in DOMAIN guarded /\ guarded[e] = {fixes[e]}
  BY <1>3, <1>4, <1>5
<1> HIDE DEF E
<1>7. QED
  BY <1>1, <1>2, <1>3, <1>5, <1>6 DEF UnlessSame, Unless

\* Every issue type has its own spec.
LEMMA ShippedIssuesCount == Cardinality(Range(Column(SafeRows, "issue"))) = Len(SafeRows)
<1> DEFINE n == Len(SafeRows)
           issues == [i \in 1..n |-> SafeRows[i].issue]
           I == Range(Column(SafeRows, "issue"))
<1>1. n \in Nat /\ DOMAIN SafeRows = 1..n
  BY SafeRowsAre
<1>2. I = {SafeRows[i].issue : i \in 1..n}
  BY <1>1 DEF Range, Column
<1>3. \A i, j \in 1..n : issues[i] = issues[j] => i = j
  BY <1>1, SafeRowsAre
<1>4. issues \in [1..n -> I] /\ \A x \in I : \E i \in 1..n : issues[i] = x
  BY <1>2
<1> HIDE DEF n, I, issues
<1>5. issues \in Bijection(1..n, I)
  BY <1>3, <1>4 DEF Bijection, Injection, Surjection, IsInjective
<1>6. IsFiniteSet(1..n) /\ Cardinality(1..n) = n
  BY <1>1, FS_Interval
<1>7. Cardinality(I) = n
  BY <1>5, <1>6, FS_Bijection DEF ExistsBijection
<1>8. QED
  BY <1>7 DEF I, n

-----------------------------------------------------------------------------
\* The shipped tables have no issue: 28 domains, 11 safe specs and 27 rules agree.
THEOREM ShippedTablesAreGoverned ==
  ASSUME NEW project
  PROVE  Governance(Shipped(project)) = {}
<1> DEFINE s == Shipped(project)
           fixes == Range(FixByEvent(s.safe))
           detected == Range(Column(s.domains, "event")) \ SyntheticEvents
           a1 == Unless(s.safe # <<>>, "safe_registry_empty")
           a2 == SafeRegistryShape(s.safe)
           a3 == DomainRegistryShape(s.domains, s.safe)
           a4 == DetectorCoverage(s.domains, s.detector)
           a5 == UnlessSame(s.safeEvents, Range(Column(s.safe, "event")), "policy_safe_event_types")
           a6 == UnlessSame(s.manualEvents, EventsOf(s.domains, {"manual_escalation"}),
                            "policy_manual_event_types")
           a7 == ManualConstants(s.domains, s.manualConstants, s.manualIssues)
           a8 == RemediationMapping(s.domains, s.remediation)
           a9 == RuntimePolicies(s.domains, s.runtime)
           a10 == PrecheckSpecs(s.safe, s.precheck)
           a11 == GuardedCandidates(s.safe, s.guarded)
           a12 == UnlessSame(s.local, fixes, "local_executor_supported_fix_ids")
           a13 == UnlessSame(s.remote, fixes, "remote_executor_supported_fix_ids")
           a14 == Unless(detected \subseteq s.regression, "regression_expected_case_missing")
           a15 == Unless(Cardinality(Range(Column(s.safe, "issue"))) = Len(s.safe),
                         "registry_duplicate_issue_type_mapping")
<1>1. /\ s.safe = SafeRows /\ s.domains = DomainRows
      /\ s.safeEvents = {spec.event : spec \in Range(SafeSpecs)}
      /\ s.local = SafeFixes /\ s.remote = SafeFixes
      /\ s.regression = EventTypes \ SyntheticEvents
  BY ShippedIs
<1>2. s.domains # <<>>
  BY <1>1, DomainRowsAre
<1>3. Governance(s) = a1 \cup a2 \cup a3 \cup a4 \cup a5 \cup a6 \cup a7 \cup a8 \cup a9
                        \cup a10 \cup a11 \cup a12 \cup a13 \cup a14 \cup a15
  BY <1>2, Zenon DEF Governance
<1> HIDE DEF s
<1>4. a1 = {}
  BY <1>1, SafeRowsAre DEF Unless
<1>5. a2 = {} /\ a3 = {}
  BY <1>1, ShippedSpecsClean, ShippedDomainsClean
<1>6. a4 = {}
  BY <1>1, ShippedDetectorClean DEF s
<1>7. a5 = {}
  BY <1>1, FixesOfRowsAre DEF UnlessSame, Unless
<1>8. a6 = {} /\ a7 = {}
  BY <1>1, ShippedManualClean DEF UnlessSame, Unless, s
<1>9. a8 = {} /\ a9 = {}
  BY <1>1, ShippedMappingClean, ShippedPoliciesClean DEF s
<1>10. a10 = {} /\ a11 = {}
  BY <1>1, ShippedPrecheckClean, ShippedGuardedClean DEF s
<1>11. a12 = {} /\ a13 = {}
  BY <1>1, FixesOfRowsAre DEF UnlessSame, Unless
<1>12. a14 = {}
  BY <1>1, DomainRowsAre DEF Unless
<1>13. a15 = {}
  BY <1>1, ShippedIssuesCount DEF Unless
<1> HIDE DEF a1, a2, a3, a4, a5, a6, a7, a8, a9, a10, a11, a12, a13, a14, a15
<1>14. Governance(s) = {}
  BY <1>3, <1>4, <1>5, <1>6, <1>7, <1>8, <1>9, <1>10, <1>11, <1>12, <1>13
<1>15. QED
  BY <1>14 DEF s

-----------------------------------------------------------------------------
(***************************************************************************)
(* A setup somebody has changed: its rows and specs still name an event    *)
(* and an issue that belong together, and no spec is for an event the      *)
(* registry has none for.                                                  *)
(***************************************************************************)
Pair(x) == <<x.event, x.issue>>

Paired(rows, P) ==
  /\ \E S : rows \in Seq(S)
  /\ \A r \in Range(rows) : {"event", "issue"} \subseteq DOMAIN r /\ Pair(r) \in P

PairedTables(s) ==
  /\ {"safe", "domains"} \subseteq DOMAIN s
  /\ Paired(s.safe, Pairs(Range(SafeSpecs)))
  /\ Paired(s.domains, Pairs(Rows))

LEMMA DescribedPaired ==
  ASSUME NEW x
  PROVE  /\ {"event", "issue"} \subseteq DOMAIN Described(x) /\ Pair(Described(x)) = Pair(x)
         /\ {"event", "issue"} \subseteq DOMAIN DescribedDomain(x)
         /\ Pair(DescribedDomain(x)) = Pair(x)
<1>1. {"event", "issue"} \subseteq DOMAIN DescribedDomain(x)
  BY DEF DescribedDomain
<1>2. {"event", "issue"} \subseteq DOMAIN Described(x)
  <2> DEFINE candidates == [k \in DOMAIN x.candidates |->
                              [path |-> <<x.candidates[k].field>>, rule |-> x.candidates[k].rule]]
  <2>1. Described(x) =
          [event |-> x.event, issue |-> x.issue, fix |-> x.fix, named |-> TRUE,
           blank |-> {}, config |-> JsonFile, candidates |-> candidates]
    BY Zenon DEF Described
  <2> HIDE DEF candidates
  <2>2. QED
    BY <2>1
<1>3. QED
  BY <1>1, <1>2, DescribedIs, DescribedDomainIs DEF Pair

LEMMA ShippedIsSound == ASSUME NEW project PROVE PairedTables(Shipped(project))
<1> DEFINE s == Shipped(project)
<1>1. s.safe = SafeRows /\ s.domains = DomainRows
  BY ShippedIs
<1>2. {"safe", "domains"} \subseteq DOMAIN s
  <2>1. PICK x1, x2, x3, x4, x5, x6, x7, x8, x9, x10, x11, x12, x13 :
          s = [safe |-> SafeRows, domains |-> x13, detector |-> x1, safeEvents |-> x2,
               manualEvents |-> x3, manualConstants |-> x4, manualIssues |-> x5,
               remediation |-> x6, runtime |-> x7, precheck |-> x8, guarded |-> x9,
               local |-> x10, remote |-> x11, regression |-> x12]
    BY Zenon DEF Shipped, SafeRows
  <2> HIDE DEF s
  <2>2. QED
    BY <2>1
<1> HIDE DEF s
<1>3. Paired(SafeRows, Pairs(Range(SafeSpecs)))
  BY SafeRowsAre, DescribedPaired DEF Paired, Pairs, Pair
<1>4. Paired(DomainRows, Pairs(Rows))
  BY DomainRowsAre, DescribedPaired DEF Paired, Pairs, Pair
<1>5. QED
  BY <1>1, <1>2, <1>3, <1>4 DEF PairedTables, s

\* What is paired stays so: without a row, with one of them once more, with a field changed.
LEMMA PairedLess ==
  ASSUME NEW rows, NEW P, Paired(rows, P), NEW i \in DOMAIN rows
  PROVE  Paired(RemoveAt(rows, i), P)
<1>1. PICK S : rows \in Seq(S)
  BY DEF Paired
<1> DEFINE a == SubSeq(rows, 1, i - 1)
           b == SubSeq(rows, i + 1, Len(rows))
<1>2. i \in 1..Len(rows) /\ Len(rows) \in Nat /\ DOMAIN rows = 1..Len(rows)
  BY <1>1
<1>3. /\ a \in Seq(S) /\ Len(a) = i - 1
      /\ \A k \in 1..Len(a) : a[k] = rows[k]
  BY <1>1, <1>2, SubSeqProperties
<1>4. /\ b \in Seq(S) /\ Len(b) = Len(rows) - i
      /\ \A k \in 1..Len(b) : b[k] = rows[i + k]
  <2>1. i + 1 \in 1..Len(rows) + 1 /\ Len(rows) \in i..Len(rows)
    BY <1>2
  <2>2. QED
    BY <1>1, <1>2, <2>1, SubSeqProperties
<1> HIDE DEF a, b
<1>5. RemoveAt(rows, i) = a \o b
  BY DEF RemoveAt, a, b
<1>6. Range(a) \subseteq Range(rows) /\ Range(b) \subseteq Range(rows)
  BY <1>2, <1>3, <1>4 DEF Range
<1>7. a \o b \in Seq(S) /\ Range(a \o b) = Range(a) \cup Range(b)
  BY <1>3, <1>4, RangeConcat
<1>8. QED
  BY <1>5, <1>6, <1>7 DEF Paired

LEMMA PairedMore ==
  ASSUME NEW rows, NEW P, Paired(rows, P), NEW r,
         {"event", "issue"} \subseteq DOMAIN r, Pair(r) \in P
  PROVE  Paired(Append(rows, r), P)
<1>1. PICK S : rows \in Seq(S)
  BY DEF Paired
<1>2. Append(rows, r) \in Seq(S \cup {r})
  BY <1>1
<1>3. Range(Append(rows, r)) \subseteq Range(rows) \cup {r}
  BY <1>1 DEF Range
<1>4. QED
  BY <1>2, <1>3 DEF Paired

LEMMA PairedOther ==
  ASSUME NEW r, {"event", "issue"} \subseteq DOMAIN r, NEW f, f \notin {"event", "issue"}, NEW v
  PROVE  LET c == [r EXCEPT ![f] = v]
         IN  {"event", "issue"} \subseteq DOMAIN c /\ Pair(c) = Pair(r)
<1> DEFINE c == [r EXCEPT ![f] = v]
<1>1. {"event", "issue"} \subseteq DOMAIN c /\ c.event = r.event /\ c.issue = r.issue
  OBVIOUS
<1>2. QED
  BY <1>1 DEF Pair

LEMMA PairedChanged ==
  ASSUME NEW rows, NEW P, Paired(rows, P), NEW i, NEW f, f \notin {"event", "issue"}, NEW v
  PROVE  Paired([rows EXCEPT ![i] = [rows[i] EXCEPT ![f] = v]], P)
<1> DEFINE c == [rows[i] EXCEPT ![f] = v]
           t == [rows EXCEPT ![i] = c]
<1>1. PICK S : rows \in Seq(S)
  BY DEF Paired
<1>2. i \in DOMAIN rows => {"event", "issue"} \subseteq DOMAIN c /\ Pair(c) = Pair(rows[i])
  BY PairedOther DEF Paired, Range
<1> HIDE DEF c
<1>3. t \in Seq(S \cup {c})
  <2>1. Len(rows) \in Nat /\ rows \in [1..Len(rows) -> S]
    BY <1>1
  <2>2. t \in [1..Len(rows) -> S \cup {c}]
    BY <2>1
  <2> HIDE DEF t
  <2>3. QED
    BY <2>1, <2>2, SeqDef
<1>4. \A k \in DOMAIN rows : {"event", "issue"} \subseteq DOMAIN rows[k] /\ Pair(rows[k]) \in P
  BY DEF Paired, Range
<1>5. \A k \in DOMAIN t : {"event", "issue"} \subseteq DOMAIN t[k] /\ Pair(t[k]) \in P
  BY <1>2, <1>4
<1> HIDE DEF t
<1>6. Paired(t, P)
  BY <1>3, <1>5 DEF Paired, Range
<1>7. QED
  BY <1>6 DEF t, c

LEMMA SoundSame ==
  ASSUME NEW s, NEW t, PairedTables(s), DOMAIN t = DOMAIN s, t.safe = s.safe, t.domains = s.domains
  PROVE  PairedTables(t)
BY DEF PairedTables

LEMMA SoundOther ==
  ASSUME NEW s, PairedTables(s), NEW f, f \notin {"safe", "domains"}, NEW v
  PROVE  PairedTables([s EXCEPT ![f] = v])
<1> DEFINE t == [s EXCEPT ![f] = v]
<1>1. DOMAIN t = DOMAIN s /\ t.safe = s.safe /\ t.domains = s.domains
  BY DEF PairedTables
<1>2. QED
  BY <1>1, SoundSame

LEMMA SoundSafe ==
  ASSUME NEW s, PairedTables(s), NEW rows, Paired(rows, Pairs(Range(SafeSpecs)))
  PROVE  PairedTables([s EXCEPT !.safe = rows])
<1> DEFINE t == [s EXCEPT !.safe = rows]
<1>1. DOMAIN t = DOMAIN s /\ t.safe = rows /\ t.domains = s.domains
  BY DEF PairedTables
<1> HIDE DEF t
<1>2. PairedTables(t)
  BY <1>1 DEF PairedTables
<1>3. QED
  BY <1>2 DEF t

LEMMA SoundDomains ==
  ASSUME NEW s, PairedTables(s), NEW rows, Paired(rows, Pairs(Rows))
  PROVE  PairedTables([s EXCEPT !.domains = rows])
<1> DEFINE t == [s EXCEPT !.domains = rows]
<1>1. DOMAIN t = DOMAIN s /\ t.safe = s.safe /\ t.domains = rows
  BY DEF PairedTables
<1> HIDE DEF t
<1>2. PairedTables(t)
  BY <1>1 DEF PairedTables
<1>3. QED
  BY <1>2 DEF t

LEMMA ChangedDomain ==
  ASSUME NEW s, PairedTables(s), NEW i, NEW fix
  PROVE  PairedTables([s EXCEPT !.domains[i].layer = "safe_auto_recover", !.domains[i].fix = fix])
<1> DEFINE one == [s.domains EXCEPT ![i] = [s.domains[i] EXCEPT !.layer = "safe_auto_recover"]]
           two == [one EXCEPT ![i] = [one[i] EXCEPT !.fix = fix]]
           t == [s EXCEPT !.domains[i].layer = "safe_auto_recover", !.domains[i].fix = fix]
<1>1. "domains" \in DOMAIN s
  BY DEF PairedTables
<1>2. t = [s EXCEPT !.domains = two]
  BY <1>1
<1>3. Paired(s.domains, Pairs(Rows))
  BY DEF PairedTables
<1>4. Paired(one, Pairs(Rows))
  BY <1>3, PairedChanged
<1> HIDE DEF one
<1>5. Paired(two, Pairs(Rows))
  BY <1>4, PairedChanged
<1> HIDE DEF two, t
<1>6. PairedTables(t)
  BY <1>2, <1>5, SoundDomains
<1>7. QED
  BY <1>6 DEF t

LEMMA PairedRow ==
  ASSUME NEW x, NEW X, Pair(x) \in Pairs(X)
  PROVE  \E y \in X : x.event = y.event /\ x.issue = y.issue
<1>1. PICK y \in X : Pair(x) = Pair(y)
  BY DEF Pairs, Pair
<1>2. x.event = y.event /\ x.issue = y.issue
  <2>1. Pair(x)[1] = x.event /\ Pair(x)[2] = x.issue /\ Pair(y)[1] = y.event /\ Pair(y)[2] = y.issue
    BY DEF Pair
  <2>2. QED
    BY <1>1, <2>1
<1>3. QED
  BY <1>2

LEMMA SoundRowsAreSpecs == ASSUME NEW s, PairedTables(s) PROVE SafeRowsAreSpecs(s)
<1>1. SUFFICES ASSUME NEW d \in Range(s.domains), NEW spec \in Range(s.safe), d.event = spec.event
               PROVE  d.issue = spec.issue
  BY DEF SafeRowsAreSpecs
<1>2. PICK row \in Rows : d.event = row.event /\ d.issue = row.issue
  BY PairedRow DEF PairedTables, Paired
<1>3. PICK x \in Range(SafeSpecs) : spec.event = x.event /\ spec.issue = x.issue
  BY PairedRow DEF PairedTables, Paired
<1>4. PICK r \in Rows : IsRowOf(r, x)
  BY DomainsAre
<1>5. r = row
  BY <1>1, <1>2, <1>3, <1>4, RowOfEvent DEF IsRowOf
<1>6. QED
  BY <1>2, <1>3, <1>4, <1>5 DEF IsRowOf

=============================================================================
