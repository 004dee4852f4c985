-------------------------- MODULE FixLedger_proofs --------------------------
(***************************************************************************)
(* What FixLedger guarantees for any sessions, fixes, edits and bounds:    *)
(* its types, that an edit an apply called a success is in a record, that  *)
(* the rollback job pops the record it was asked for, that undoing is      *)
(* exact while actors do not overlap, and that the history is true.        *)
(***************************************************************************)
EXTENDS FixLedger, SequenceTheorems, TLAPS

\* What a session can be doing, and what the rollback job of the web UI can.
SessionLabels == {"idle", "plan", "try", "read", "backup", "write", "final", "save", "rerun",
                  "undo", "restore", "pop"}
UiLabels == {"idle", "queued", "undo", "restore", "pop", "report"}
UiHasTarget == pc[Ui] \in {"undo", "restore", "pop", "report"}

\* An apply is at one of the edits of its fix, and starts with the first.
AtAnEdit ==
    \A s \in Sessions :
        /\ pc[s] \in SessionLabels
        /\ pc[s] = "idle" => step[s] = 1
        /\ pc[s] \in {"plan", "try", "read", "backup", "write"} => step[s] \in DOMAIN Edits[fix[s]]

\* What an apply writes is a text it could read, and the edit it writes has a backup.
HasText ==
    \A s \in Sessions :
        /\ pc[s] \in {"backup", "write"} => data[s] \in Content
        /\ pc[s] \in {"write", "save"} => made[s] # <<>>

\* A rollback has a record, and is at one of its edits.
HasRecord ==
    \A a \in Actors :
        /\ pc[a] \in {"restore", "pop"} => mem[a] # <<>>
        /\ pc[a] = "restore" => step[a] \in DOMAIN LastOf(mem[a]).edits

\* The job works on the ledger of a session.
UiAt ==
    /\ pc[Ui] \in UiLabels
    /\ UiHasTarget => on \in Sessions /\ target \in Target

\* The edits of a record have backups.
Kept(edits) == \A k \in DOMAIN edits : backups[edits[k].backup] # NoFile
AllKept(records) == \A i \in DOMAIN records : records[i].edits # <<>> /\ Kept(records[i].edits)
BackupsExist ==
    /\ \A s \in Sessions : Kept(made[s]) /\ AllKept(ledger[s])
    /\ \A a \in Actors : AllKept(mem[a])

TypeInv == TypeOK /\ AtAnEdit /\ HasText /\ HasRecord /\ UiAt /\ BackupsExist

\* While its session has not been at work: the job has the last record of its ledger, and that is
\* the one that was asked for.
UiHolds ==
    UiHasTarget /\ pc[Ui] # "report" /\ on \notin shared =>
        /\ ~AtWork(on)
        /\ ledger[on] # <<>>
        /\ target = [session |-> on, index |-> Len(ledger[on]), record |-> LastOf(ledger[on])]
        /\ asked \in {Latest, target}
        /\ pc[Ui] \in {"restore", "pop"} => mem[Ui] = ledger[on]

-----------------------------------------------------------------------------
(***************************************************************************)
(* What the operators of the model return.                                 *)
(***************************************************************************)
LEMMA Labelling == SessionLabels \subseteq Labels /\ UiLabels \subseteq Labels
BY DEF SessionLabels, UiLabels, Labels

LEMMA NowIsName == ASSUME TypeOK, NEW s \in Sessions PROVE Now(s) \in Names
BY DEF TypeOK, Now, Names, Place, Places

LEMMA EditOfFix ==
  ASSUME TypeOK, NEW s \in Sessions, step[s] \in DOMAIN Edits[fix[s]]
  PROVE  TheEdit(s) \in [field : Fields, value : 0..MaxValue]
<1> DEFINE S == [field : Fields, value : 0..MaxValue]
<1>1. fix[s] \in Fixes
  BY DEF TypeOK
<1>2. Edits[fix[s]] \in Seq(S)
  BY <1>1, EditsAssumption
<1> HIDE DEF S
<1>3. Edits[fix[s]][step[s]] \in S
  BY <1>2
<1>4. QED
  BY <1>3 DEF TheEdit, S

LEMMA LastOfRecords ==
  ASSUME NEW S, NEW seq \in Seq(S), seq # <<>>
  PROVE  /\ LastOf(seq) \in S /\ Len(seq) \in DOMAIN seq /\ LastOf(seq) = seq[Len(seq)]
         /\ FrontOf(seq) \in Seq(S) /\ Len(FrontOf(seq)) = Len(seq) - 1
         /\ \A i \in DOMAIN FrontOf(seq) : i \in DOMAIN seq /\ FrontOf(seq)[i] = seq[i]
<1>1. Len(seq) \in Nat \ {0} /\ DOMAIN seq = 1..Len(seq)
  OBVIOUS
<1>2. 1 \in 1..(Len(seq) + 1) /\ Len(seq) - 1 \in 0..Len(seq)
  BY <1>1
<1>3. /\ FrontOf(seq) \in Seq(S) /\ Len(FrontOf(seq)) = Len(seq) - 1
      /\ \A i \in 1..(Len(seq) - 1) : FrontOf(seq)[i] = seq[i]
  BY <1>1, <1>2, SubSeqProperties DEF FrontOf
<1>4. DOMAIN FrontOf(seq) = 1..(Len(seq) - 1)
  BY <1>3
<1>5. QED
  BY <1>1, <1>3, <1>4 DEF LastOf

LEMMA KeptFront ==
  ASSUME NEW S, NEW seq \in Seq(S), seq # <<>>, AllKept(seq)
  PROVE  AllKept(FrontOf(seq)) /\ LastOf(seq).edits # <<>> /\ Kept(LastOf(seq).edits)
BY LastOfRecords DEF AllKept

LEMMA AnyFixIsFix == AnyFix \in Fixes
BY EditsAssumption DEF AnyFix

LEMMA UiIsNoSession == Ui \notin Sessions /\ Actors = Sessions \cup {Ui}
BY SessionsAssumption DEF Actors

-----------------------------------------------------------------------------
(***************************************************************************)
(* Leaving.                                                                *)
(***************************************************************************)
JobType == on \in Actors /\ asked \in Target \cup {Latest} /\ target \in Target \cup {Latest}
WorkType ==
    /\ pc \in [Actors -> Labels]
    /\ fix \in [Sessions -> Fixes]
    /\ step \in [Actors -> Nat \ {0}]
    /\ data \in [Sessions -> Text]
    /\ made \in [Sessions -> Seq(Edit)]
    /\ ok \in [Sessions -> BOOLEAN]
    /\ mem \in [Actors -> Seq(Record)]

LEMMA LeaveTypes ==
  ASSUME TypeOK, NEW a \in Actors, Leave(a)
  PROVE  WorkType' /\ JobType'
<1>1. AnyFix \in Fixes /\ "idle" \in Labels /\ Torn \in Text /\ Ui \in Actors
  BY AnyFixIsFix DEF Labels, Text, Actors
<1>2. pc' \in [Actors -> Labels] /\ step' \in [Actors -> Nat \ {0}] /\ mem' \in [Actors -> Seq(Record)]
  BY <1>1 DEF Leave, Goto, TypeOK
<1>3. fix' \in [Sessions -> Fixes] /\ data' \in [Sessions -> Text]
  BY <1>1 DEF Leave, TypeOK
<1>4. made' \in [Sessions -> Seq(Edit)]
  <2>1. made' = [t \in Sessions |-> IF t = a THEN <<>> ELSE made[t]]
    BY DEF Leave
  <2>2. QED
    BY <2>1 DEF TypeOK
<1>5. ok' \in [Sessions -> BOOLEAN]
  <2>1. ok' = [t \in Sessions |-> t = a \/ ok[t]]
    BY DEF Leave
  <2>2. QED
    BY <2>1, Zenon
<1>6. JobType'
  BY <1>1 DEF Leave, TypeOK, JobType, job
<1>7. QED
  BY <1>2, <1>3, <1>4, <1>5, <1>6 DEF WorkType

\* An actor that leaves is idle, with nothing in its hands; the others stay as they are.
LEMMA LeaveEffect ==
  ASSUME TypeOK, NEW a \in Actors, Leave(a)
  PROVE  /\ pc' = [pc EXCEPT ![a] = "idle"]
         /\ \A b \in Actors : /\ b = a => pc'[b] = "idle" /\ step'[b] = 1 /\ mem'[b] = <<>>
                              /\ b # a => /\ pc'[b] = pc[b] /\ step'[b] = step[b]
                                          /\ mem'[b] = mem[b]
         /\ \A s \in Sessions : /\ s = a => made'[s] = <<>>
                                /\ s # a => /\ fix'[s] = fix[s] /\ data'[s] = data[s]
                                            /\ made'[s] = made[s]
         /\ a # Ui => UNCHANGED job
BY DEF Leave, Goto, TypeOK, job

-----------------------------------------------------------------------------
(***************************************************************************)
(* The types, action by action.  First the actions that leave the records  *)
(* and the backups alone.                                                  *)
(***************************************************************************)
LEMMA BackupsStay ==
  ASSUME BackupsExist, UNCHANGED <<backups, ledger, made, mem>>
  PROVE  BackupsExist'
BY DEF BackupsExist, AllKept, Kept

LEMMA UiStays == ASSUME UiAt, UNCHANGED <<on, target>>, pc'[Ui] = pc[Ui] PROVE UiAt'
BY DEF UiAt, UiHasTarget

LEMMA TallyType ==
  ASSUME TypeOK,
         \/ tally.applies < MaxApplies /\ tally' = [tally EXCEPT !.applies = @ + 1]
         \/ tally.requests < MaxRequests /\ tally' = [tally EXCEPT !.requests = @ + 1]
         \/ tally.aborts < MaxAborts /\ tally' = [tally EXCEPT !.aborts = @ + 1]
  PROVE  tally' \in [applies : 0..MaxApplies, requests : 0..MaxRequests, aborts : 0..MaxAborts]
<1>1. /\ tally \in [applies : 0..MaxApplies, requests : 0..MaxRequests, aborts : 0..MaxAborts]
      /\ MaxApplies \in Nat /\ MaxRequests \in Nat /\ MaxAborts \in Nat
  BY BoundsAssumption DEF TypeOK
<1>2. /\ tally.applies < MaxApplies => tally.applies + 1 \in 0..MaxApplies
      /\ tally.requests < MaxRequests => tally.requests + 1 \in 0..MaxRequests
      /\ tally.aborts < MaxAborts => tally.aborts + 1 \in 0..MaxAborts
  BY <1>1
<1>3. QED
  BY <1>1, <1>2

LEMMA InitTypeInv == Init => TypeInv
<1> SUFFICES ASSUME Init PROVE TypeInv
  OBVIOUS
<1>1. TypeOK
  <2>1. AnyFix \in Fixes /\ "idle" \in Labels /\ Torn \in Text /\ Ui \in Actors /\ config \in Text
    BY AnyFixIsFix, ModelValuesAssumption DEF Labels, Text, Actors, Init
  <2>2. tally \in [applies : 0..MaxApplies, requests : 0..MaxRequests, aborts : 0..MaxAborts]
    BY BoundsAssumption DEF Init
  <2>3. time \in 0..MaxTime
    BY BoundsAssumption DEF Init
  <2>4. ok \in [Sessions -> BOOLEAN] /\ crossed \in BOOLEAN /\ remote \in BOOLEAN
    BY DEF Init
  <2>5. /\ backups \in [Names -> Text \cup {NoFile}]
        /\ ledger \in [Sessions -> Seq(Record)]
        /\ made \in [Sessions -> Seq(Edit)]
        /\ mem \in [Actors -> Seq(Record)]
    BY DEF Init
  <2>6. /\ pc \in [Actors -> Labels]
        /\ fix \in [Sessions -> Fixes]
        /\ step \in [Actors -> Nat \ {0}]
        /\ data \in [Sessions -> Text]
    BY <2>1 DEF Init
  <2>7. QED
    BY <2>1, <2>2, <2>3, <2>4, <2>5, <2>6 DEF Init, TypeOK
<1>2. AtAnEdit /\ HasText /\ HasRecord /\ UiAt
  BY UiIsNoSession DEF Init, AtAnEdit, HasText, HasRecord, UiAt, UiHasTarget, SessionLabels, UiLabels
<1>3. BackupsExist
  BY DEF Init, BackupsExist, Kept, AllKept
<1>4. QED
  BY <1>1, <1>2, <1>3 DEF TypeInv

LEMMA TickTypes == ASSUME TypeInv, Tick PROVE TypeInv'
<1>1. TypeOK'
  <2>1. time' \in 0..MaxTime
    BY BoundsAssumption DEF TypeInv, TypeOK, Tick
  <2>2. UNCHANGED <<files, pc, work, mem, job, history, tally, crossed, shared, standing, excused,
                    overtaken>>
    BY DEF Tick
  <2>3. QED
    BY <2>1, <2>2 DEF TypeInv, TypeOK, files, work, job
<1>2. AtAnEdit' /\ HasText' /\ HasRecord' /\ UiAt' /\ BackupsExist'
  BY DEF TypeInv, Tick, files, work, job, AtAnEdit, HasText, HasRecord, UiAt, UiHasTarget,
         BackupsExist, AllKept, Kept
<1>3. QED
  BY <1>1, <1>2 DEF TypeInv

\* A session begins something: an apply, or a rollback of its own.
LEMMA BeginTypes ==
  ASSUME TypeInv, NEW s \in Sessions, NEW label \in {"plan", "try", "read", "undo"},
         ~Busy(s), pc' = [pc EXCEPT ![s] = label],
         \/ label # "undo" /\ \E f \in Fixes : fix' = [fix EXCEPT ![s] = f]
         \/ label = "undo" /\ fix' = fix,
         tally' \in [applies : 0..MaxApplies, requests : 0..MaxRequests, aborts : 0..MaxAborts],
         crossed' = Crosses(s), shared' \in {shared, shared \cup {s}},
         UNCHANGED <<files, time, step, data, made, ok, mem, job, history, standing, excused, overtaken>>
  PROVE  TypeInv'
<1>t. TypeOK /\ s \in Actors /\ s # Ui /\ label \in Labels /\ pc[s] = "idle"
  BY UiIsNoSession DEF TypeInv, Labels, Busy
<1>1. TypeOK'
  <2>1. fix' \in [Sessions -> Fixes]
    BY <1>t DEF TypeOK
  <2>2. crossed' \in BOOLEAN
    BY DEF Crosses
  <2>3. pc' \in [Actors -> Labels] /\ shared' \subseteq Sessions
    BY <1>t DEF TypeOK
  <2>4. QED
    BY <1>t, <2>1, <2>2, <2>3 DEF TypeOK, files, job
<1>p. \A b \in Actors : pc'[b] = IF b = s THEN label ELSE pc[b]
  BY <1>t DEF TypeOK
<1>2. AtAnEdit'
  <2>1. \A f \in Fixes : 1 \in DOMAIN Edits[f]
    BY EditsAssumption
  <2>2. ASSUME NEW u \in Sessions
        PROVE  /\ pc'[u] \in SessionLabels
               /\ pc'[u] = "idle" => step'[u] = 1
               /\ pc'[u] \in {"plan", "try", "read", "backup", "write"}
                    => step'[u] \in DOMAIN Edits[fix'[u]]
    <3>1. CASE u = s
      <4>1. step'[u] = 1 /\ pc'[u] = label
        BY <1>t, <1>p, <3>1 DEF TypeInv, AtAnEdit
      <4>2. fix'[u] \in Fixes
        BY <1>1 DEF TypeOK
      <4>3. QED
        BY <4>1, <4>2, <2>1 DEF SessionLabels
    <3>2. CASE u # s
      <4>1. pc'[u] = pc[u] /\ fix'[u] = fix[u] /\ step' = step
        BY <1>t, <1>p, <3>2, UiIsNoSession DEF TypeOK
      <4>2. QED
        BY <4>1 DEF TypeInv, AtAnEdit
    <3>3. QED
      BY <3>1, <3>2
  <2>3. QED
    BY <2>2 DEF AtAnEdit
<1>3. HasText' /\ HasRecord'
  BY <1>p, UiIsNoSession DEF TypeInv, HasText, HasRecord
<1>4. UiAt' /\ BackupsExist'
  BY <1>p, <1>t, UiIsNoSession, UiStays, BackupsStay DEF TypeInv, files, job
<1>5. QED
  BY <1>1, <1>2, <1>3, <1>4 DEF TypeInv

LEMMA StartsTypes ==
  ASSUME TypeInv, NEW s \in Sessions, NEW f \in Fixes, ApplyFix(s, f) \/ RemoteApplyFix(s, f)
  PROVE  TypeInv'
<1>1. PICK label \in {"plan", "try", "read"} : Starts(s, f, label)
  BY DEF ApplyFix, RemoteApplyFix, LocalStart, RemoteStart
<1>2. tally' \in [applies : 0..MaxApplies, requests : 0..MaxRequests, aborts : 0..MaxAborts]
  BY <1>1, TallyType DEF TypeInv, Starts
<1>3. QED
  BY <1>1, <1>2, BeginTypes DEF Starts, Goto

LEMMA UndoesTypes ==
  ASSUME TypeInv, NEW s \in Sessions, RollbackLatestApply(s) \/ RemoteRollbackLatestApply(s)
  PROVE  TypeInv'
<1>1. Undoes(s)
  BY DEF RollbackLatestApply, RemoteRollbackLatestApply
<1>2. tally' \in [applies : 0..MaxApplies, requests : 0..MaxRequests, aborts : 0..MaxAborts]
  BY <1>1, TallyType DEF TypeInv, Undoes
<1>3. QED
  BY <1>1, <1>2, BeginTypes DEF Undoes, Goto, work

(***************************************************************************)
(* Looking at the file: nothing but where the session is, its edit, the    *)
(* text it read and whether it failed so far changes.                      *)
(***************************************************************************)
LEMMA LookTypes ==
  ASSUME TypeInv, NEW s \in Sessions, NEW label \in {"try", "read", "backup", "final"},
         NEW k \in Nat \ {0}, NEW t \in Text,
         pc[s] # "idle", pc' = [pc EXCEPT ![s] = label],
         step' = [step EXCEPT ![s] = k],
         label # "final" => k \in DOMAIN Edits[fix[s]],
         data' = [data EXCEPT ![s] = t],
         label = "backup" => t \in Content,
         ok' \in [Sessions -> BOOLEAN],
         UNCHANGED <<files, time, fix, made, mem, job, history, tally, crossed, shared,
                     standing, excused, overtaken>>
  PROVE  TypeInv'
<1>t. TypeOK /\ s \in Actors /\ s # Ui /\ label \in Labels /\ label \in SessionLabels
  BY UiIsNoSession DEF TypeInv, Labels, SessionLabels
<1>1. TypeOK'
  <2>1. /\ pc' \in [Actors -> Labels] /\ step' \in [Actors -> Nat \ {0}]
        /\ data' \in [Sessions -> Text]
    BY <1>t DEF TypeOK
  <2>2. QED
    BY <1>t, <2>1 DEF TypeOK, files, job
<1>p. /\ \A b \in Actors : /\ pc'[b] = IF b = s THEN label ELSE pc[b]
                           /\ step'[b] = IF b = s THEN k ELSE step[b]
      /\ \A u \in Sessions : data'[u] = IF u = s THEN t ELSE data[u]
  BY <1>t DEF TypeOK
<1>2. AtAnEdit'
  BY <1>p, <1>t, UiIsNoSession DEF TypeInv, AtAnEdit
<1>3. HasText' /\ HasRecord'
  <2>1. HasText'
    BY <1>p, UiIsNoSession DEF TypeInv, HasText
  <2>2. HasRecord'
    BY <1>p, UiIsNoSession DEF TypeInv, HasRecord
  <2>3. QED
    BY <2>1, <2>2
<1>4. UiAt' /\ BackupsExist'
  BY <1>p, <1>t, UiIsNoSession, UiStays, BackupsStay DEF TypeInv, files, job
<1>5. QED
  BY <1>1, <1>2, <1>3, <1>4 DEF TypeInv

\* What stays, as an update that changes nothing.
LEMMA Stays ==
  ASSUME TypeOK, NEW s \in Sessions
  PROVE  /\ step = [step EXCEPT ![s] = step[s]] /\ step[s] \in Nat \ {0}
         /\ data = [data EXCEPT ![s] = data[s]] /\ data[s] \in Text
         /\ pc = [pc EXCEPT ![s] = pc[s]]
         /\ ok \in [Sessions -> BOOLEAN]
<1>1. s \in Actors
  BY UiIsNoSession
<1>2. step = [step EXCEPT ![s] = step[s]] /\ step[s] \in Nat \ {0}
      /\ data = [data EXCEPT ![s] = data[s]] /\ data[s] \in Text
      /\ pc = [pc EXCEPT ![s] = pc[s]]
  BY <1>1 DEF TypeOK
<1>3. ok \in [Sessions -> BOOLEAN]
  BY DEF TypeOK
<1>4. QED
  BY <1>2, <1>3

LEMMA LocalPlanTypes == ASSUME TypeInv, NEW s \in Sessions, LocalPlan(s) PROVE TypeInv'
<1> DEFINE wanted == Edits[fix[s]]
           admitted == {k \in DOMAIN wanted : config # Torn /\ Admits(config, wanted[k])}
           there == {k \in DOMAIN wanted : Has(config, wanted[k]) /\ AlreadyThere(config, wanted[k])}
<1>t. TypeOK /\ pc[s] = "plan"
  BY DEF TypeInv, LocalPlan
<1>f. wanted \in Seq([field : Fields, value : 0..MaxValue])
  BY <1>t, EditsAssumption DEF TypeOK
<1>u. UNCHANGED <<files, time, fix, data, made, mem, job, history, tally, crossed, shared,
                  standing, excused, overtaken>>
  BY DEF LocalPlan
<1>1. CASE \E k \in admitted : /\ step' = [step EXCEPT ![s] = k] /\ Goto(s, "read")
                              /\ UNCHANGED ok
  <2>1. PICK k \in DOMAIN wanted : /\ step' = [step EXCEPT ![s] = k] /\ Goto(s, "read")
                                 /\ UNCHANGED ok
    BY <1>1
  <2>2. k \in Nat \ {0}
    BY <2>1, <1>f
  <2>3. data' = [data EXCEPT ![s] = data[s]] /\ data[s] \in Text /\ ok' \in [Sessions -> BOOLEAN]
    BY <1>t, <1>u, <2>1, Stays
  <2>4. QED
    BY <2>1, <2>2, <2>3, <1>t, <1>u, LookTypes DEF Goto
<1>2. CASE /\ ok' = [ok EXCEPT ![s] = there # {}]
           /\ Goto(s, "final") /\ UNCHANGED step
  <2>1. ok' \in [Sessions -> BOOLEAN]
    <3> HIDE DEF there
    <3>1. ok \in [Sessions -> BOOLEAN]
      BY <1>t, Stays
    <3>2. QED
      BY <3>1, <1>2, Zenon
  <2>2. /\ data' = [data EXCEPT ![s] = data[s]] /\ data[s] \in Text
        /\ step' = [step EXCEPT ![s] = step[s]] /\ step[s] \in Nat \ {0}
    BY <1>t, <1>u, <1>2, Stays
  <2>3. QED
    BY <1>2, <2>1, <2>2, <1>t, <1>u, LookTypes DEF Goto
<1>3. QED
  BY <1>1, <1>2 DEF LocalPlan

LEMMA RemoteTryTypes == ASSUME TypeInv, NEW s \in Sessions, RemoteTry(s) PROVE TypeInv'
<1> DEFINE e == TheEdit(s)
           there == Has(config, e) /\ AlreadyThere(config, e)
<1>t. TypeOK /\ pc[s] = "try" /\ step[s] \in DOMAIN Edits[fix[s]]
  BY DEF TypeInv, RemoteTry, AtAnEdit
<1>u. UNCHANGED <<files, time, fix, made, mem, job, history, tally, crossed, shared,
                  standing, excused, overtaken>>
  BY DEF RemoteTry
<1>f. step[s] \in Nat \ {0} /\ ok \in [Sessions -> BOOLEAN]
      /\ step = [step EXCEPT ![s] = step[s]] /\ data = [data EXCEPT ![s] = data[s]]
      /\ data[s] \in Text /\ pc = [pc EXCEPT ![s] = pc[s]]
  BY <1>t, Stays
<1>1. CASE /\ config # Torn /\ Admits(config, e)
           /\ data' = [data EXCEPT ![s] = config]
           /\ ok' = [ok EXCEPT ![s] = TRUE]
           /\ Goto(s, "backup")
           /\ UNCHANGED step
  <2>1. config \in Content
    BY <1>1, <1>t DEF TypeOK, Text
  <2>2. ok' \in [Sessions -> BOOLEAN] /\ step' = [step EXCEPT ![s] = step[s]] /\ config \in Text
    BY <1>1, <1>f, <2>1 DEF Text
  <2>3. QED
    BY <1>1, <2>1, <2>2, <1>t, <1>u, <1>f, LookTypes DEF Goto
<1>2. CASE /\ ok' = [ok EXCEPT ![s] = there \/ (~(step[s] = 1) /\ @)]
           /\ IF step[s] < Len(Edits[fix[s]])
              THEN step' = [step EXCEPT ![s] = @ + 1] /\ UNCHANGED pc
              ELSE Goto(s, "final") /\ UNCHANGED step
           /\ UNCHANGED data
  <2>1. ok' \in [Sessions -> BOOLEAN]
    <3> HIDE DEF there
    <3>1. QED
      BY <1>2, <1>f, Zenon
  <2>2. data' = [data EXCEPT ![s] = data[s]]
    BY <1>2, <1>f
  <2>3. CASE step[s] < Len(Edits[fix[s]])
    <3>1. Edits[fix[s]] \in Seq([field : Fields, value : 0..MaxValue])
      BY <1>t, EditsAssumption DEF TypeOK
    <3>2. step[s] + 1 \in DOMAIN Edits[fix[s]] /\ step[s] + 1 \in Nat \ {0}
      BY <3>1, <2>3, <1>f
    <3>3. step' = [step EXCEPT ![s] = step[s] + 1] /\ pc' = [pc EXCEPT ![s] = "try"]
      BY <1>2, <2>3, <1>f, <1>t
    <3>4. QED
      BY <3>2, <3>3, <2>1, <2>2, <1>t, <1>u, <1>f, LookTypes
  <2>4. CASE ~(step[s] < Len(Edits[fix[s]]))
    <3>1. step' = [step EXCEPT ![s] = step[s]] /\ pc' = [pc EXCEPT ![s] = "final"]
      BY <1>2, <2>4, <1>f DEF Goto
    <3>2. QED
      BY <3>1, <2>1, <2>2, <1>t, <1>u, <1>f, LookTypes
  <2>5. QED
    BY <2>3, <2>4
<1>3. QED
  BY <1>1, <1>2 DEF RemoteTry

\* The next edit, or the end of the edits.
LEMMA NextEditEffect ==
  ASSUME TypeInv, NEW s \in Sessions, step[s] \in DOMAIN Edits[fix[s]], NextEdit(s)
  PROVE  \E label \in {"read", "final"} : \E k \in Nat \ {0} :
           /\ pc' = [pc EXCEPT ![s] = label] /\ step' = [step EXCEPT ![s] = k]
           /\ label # "final" => k \in DOMAIN Edits[fix[s]]
<1>t. TypeOK /\ step[s] \in Nat \ {0} /\ step = [step EXCEPT ![s] = step[s]]
  BY Stays DEF TypeInv
<1>1. CASE step[s] < Len(Edits[fix[s]]) /\ Goto(s, "read") /\ step' = [step EXCEPT ![s] = @ + 1]
  <2>1. Edits[fix[s]] \in Seq([field : Fields, value : 0..MaxValue])
    BY <1>t, EditsAssumption DEF TypeOK
  <2>2. step[s] + 1 \in DOMAIN Edits[fix[s]] /\ step[s] + 1 \in Nat \ {0}
    BY <2>1, <1>1, <1>t
  <2>3. QED
    BY <1>1, <2>2 DEF Goto
<1>2. CASE Goto(s, "final") /\ UNCHANGED step
  BY <1>2, <1>t DEF Goto
<1>3. QED
  BY <1>1, <1>2 DEF NextEdit

LEMMA EditReadTypes == ASSUME TypeInv, NEW s \in Sessions, EditRead(s) PROVE TypeInv'
<1>t. TypeOK /\ pc[s] = "read" /\ step[s] \in DOMAIN Edits[fix[s]]
  BY DEF TypeInv, EditRead, AtAnEdit
<1>u. UNCHANGED <<files, time, fix, made, mem, job, history, tally, crossed, shared,
                  standing, excused, overtaken>>
  BY DEF EditRead
<1>f. step[s] \in Nat \ {0} /\ ok \in [Sessions -> BOOLEAN]
      /\ step = [step EXCEPT ![s] = step[s]] /\ data = [data EXCEPT ![s] = data[s]]
      /\ data[s] \in Text
  BY <1>t, Stays
<1>1. CASE /\ Has(config, TheEdit(s)) /\ data' = [data EXCEPT ![s] = config]
           /\ Goto(s, "backup") /\ UNCHANGED <<step, ok>>
  <2>1. config \in Content /\ config \in Text
    BY <1>1, <1>t DEF TypeOK, Text, Has
  <2>2. QED
    BY <1>1, <2>1, <1>t, <1>u, <1>f, LookTypes DEF Goto
<1>2. CASE /\ ok' = [ok EXCEPT ![s] = @ /\ Has(config, TheEdit(s))]
           /\ NextEdit(s) /\ UNCHANGED data
  <2>1. ok' \in [Sessions -> BOOLEAN]
    BY <1>2, <1>f, Zenon
  <2>2. PICK label \in {"read", "final"} : \E k \in Nat \ {0} :
           /\ pc' = [pc EXCEPT ![s] = label] /\ step' = [step EXCEPT ![s] = k]
           /\ label # "final" => k \in DOMAIN Edits[fix[s]]
    BY <1>2, <1>t, NextEditEffect
  <2>3. PICK k \in Nat \ {0} :
           /\ pc' = [pc EXCEPT ![s] = label] /\ step' = [step EXCEPT ![s] = k]
           /\ label # "final" => k \in DOMAIN Edits[fix[s]]
    BY <2>2
  <2>4. data' = [data EXCEPT ![s] = data[s]]
    BY <1>2, <1>f
  <2>5. QED
    BY <2>1, <2>3, <2>4, <1>t, <1>u, <1>f, LookTypes
<1>3. QED
  BY <1>1, <1>2 DEF EditRead

(***************************************************************************)
(* The edits.                                                              *)
(***************************************************************************)
\* A backup that exists is only ever replaced by another.
LEMMA BackupsGrow ==
  ASSUME TypeOK, BackupsExist, UNCHANGED <<ledger, mem>>,
         \A n \in Names : backups[n] # NoFile => backups'[n] # NoFile,
         \A s \in Sessions : \A k \in DOMAIN made'[s] :
            \/ k \in DOMAIN made[s] /\ made'[s][k].backup = made[s][k].backup
            \/ backups'[made'[s][k].backup] # NoFile
  PROVE  BackupsExist'
<1>e. ASSUME NEW r \in Record, NEW k \in DOMAIN r.edits PROVE r.edits[k].backup \in Names
  <2>1. r.edits \in Seq(Edit)
    BY DEF Record
  <2>2. r.edits[k] \in Edit
    BY <2>1
  <2>3. QED
    BY <2>2 DEF Edit
<1>r. ASSUME NEW records \in Seq(Record), AllKept(records), NEW i \in DOMAIN records
      PROVE  /\ records[i].edits # <<>>
             /\ \A k \in DOMAIN records[i].edits : backups'[records[i].edits[k].backup] # NoFile
  <2>1. records[i] \in Record
    BY <1>r
  <2>2. QED
    BY <1>r, <2>1, <1>e DEF AllKept, Kept
<1>1. ASSUME NEW s \in Sessions PROVE Kept(made[s])'
  <2>1. made[s] \in Seq(Edit)
    BY DEF TypeOK
  <2>2. ASSUME NEW k \in DOMAIN made[s] PROVE made[s][k].backup \in Names
    <3>1. made[s][k] \in Edit
      BY <2>1
    <3>2. QED
      BY <3>1 DEF Edit
  <2>3. QED
    BY <2>2 DEF Kept, BackupsExist
<1>2. ASSUME NEW s \in Sessions PROVE AllKept(ledger[s])'
  <2>1. ledger[s] \in Seq(Record) /\ AllKept(ledger[s])
    BY DEF TypeOK, BackupsExist
  <2>2. QED
    BY <2>1, <1>r DEF AllKept, Kept
<1>3. ASSUME NEW a \in Actors PROVE AllKept(mem[a])'
  <2>1. mem[a] \in Seq(Record) /\ AllKept(mem[a])
    BY DEF TypeOK, BackupsExist
  <2>2. QED
    BY <2>1, <1>r DEF AllKept, Kept
<1>4. QED
  BY <1>1, <1>2, <1>3 DEF BackupsExist

LEMMA BackupTypes == ASSUME TypeInv, NEW s \in Sessions, Backup(s) PROVE TypeInv'
<1> DEFINE edit == [backup |-> Now(s), field |-> TheEdit(s).field, before |-> Torn]
<1>t. TypeOK /\ s \in Actors /\ s # Ui /\ pc[s] = "backup" /\ step[s] \in DOMAIN Edits[fix[s]]
  BY UiIsNoSession DEF TypeInv, Backup, AtAnEdit
<1>c. config \in Text /\ config # NoFile /\ Now(s) \in Names
  BY <1>t, NowIsName, ModelValuesAssumption DEF TypeOK
<1>e. edit \in Edit
  BY <1>t, <1>c, EditOfFix DEF Edit, Text
<1>b. backups' = [backups EXCEPT ![Now(s)] = config]
  BY DEF Backup
<1>m. made' = [made EXCEPT ![s] = Append(made[s], edit)] /\ made[s] \in Seq(Edit)
  BY <1>t DEF Backup, TypeOK
<1> HIDE DEF edit
<1>a. /\ Append(made[s], edit) \in Seq(Edit) /\ Append(made[s], edit) # <<>>
      /\ Len(Append(made[s], edit)) = Len(made[s]) + 1
      /\ \A k \in 1..Len(made[s]) : Append(made[s], edit)[k] = made[s][k]
      /\ Append(made[s], edit)[Len(made[s]) + 1] = edit
  BY <1>m, <1>e, AppendProperties
<1>p. /\ \A b \in Actors : pc'[b] = IF b = s THEN "write" ELSE pc[b]
      /\ \A u \in Sessions : made'[u] = IF u = s THEN Append(made[s], edit) ELSE made[u]
  BY <1>t, <1>m DEF TypeOK, Backup, Goto
<1>1. TypeOK'
  <2>1. backups' \in [Names -> Text \cup {NoFile}]
    BY <1>t, <1>c, <1>b DEF TypeOK
  <2>2. made' \in [Sessions -> Seq(Edit)]
    BY <1>t, <1>m, <1>a DEF TypeOK
  <2>3. pc' \in [Actors -> Labels]
    BY <1>t DEF TypeOK, Backup, Goto, Labels
  <2>4. QED
    BY <1>t, <2>1, <2>2, <2>3 DEF TypeOK, Backup, job
<1>2. AtAnEdit' /\ HasText' /\ HasRecord' /\ UiAt'
  <2>0. ASSUME NEW u \in Sessions
        PROVE  /\ pc'[u] \in SessionLabels
               /\ pc'[u] = "idle" => step'[u] = 1
               /\ pc'[u] \in {"plan", "try", "read", "backup", "write"}
                    => step'[u] \in DOMAIN Edits[fix'[u]]
               /\ pc'[u] \in {"backup", "write"} => data'[u] \in Content
               /\ pc'[u] \in {"write", "save"} => made'[u] # <<>>
    <3>0. UNCHANGED <<fix, step, data>>
      BY DEF Backup
    <3>1. CASE u = s
      <4>1. pc'[u] = "write" /\ made'[u] = Append(made[s], edit)
        BY <3>1, <1>p, <1>t
      <4>2. data[u] \in Content
        BY <3>1, <1>t DEF TypeInv, HasText
      <4>3. QED
        BY <4>1, <4>2, <3>0, <3>1, <1>a, <1>t DEF SessionLabels
    <3>2. CASE u # s
      <4>1. pc'[u] = pc[u] /\ made'[u] = made[u]
        BY <3>2, <1>p, <1>t, UiIsNoSession
      <4>2. QED
        BY <4>1, <3>0 DEF TypeInv, AtAnEdit, HasText
    <3>3. QED
      BY <3>1, <3>2
  <2>1. AtAnEdit' /\ HasText'
    BY <2>0 DEF AtAnEdit, HasText
  <2>2. HasRecord' /\ UiAt'
    BY <1>p, <1>t, UiIsNoSession, UiStays DEF TypeInv, HasRecord, Backup, job
  <2>3. QED
    BY <2>1, <2>2
<1>3. BackupsExist'
  <2>1. \A n \in Names : backups[n] # NoFile => backups'[n] # NoFile
    BY <1>t, <1>b, <1>c DEF TypeOK
  <2>2. ASSUME NEW u \in Sessions, NEW k \in DOMAIN made'[u]
        PROVE  \/ k \in DOMAIN made[u] /\ made'[u][k].backup = made[u][k].backup
               \/ backups'[made'[u][k].backup] # NoFile
    <3>1. CASE u # s
      BY <3>1, <1>p, <2>2
    <3>2. CASE u = s /\ k = Len(made[s]) + 1
      <4>1. made'[u][k] = edit
        BY <3>2, <1>p, <1>a
      <4>2. backups'[Now(s)] = config
        BY <1>b, <1>c, <1>t DEF TypeOK
      <4>3. QED
        BY <4>1, <4>2, <1>c DEF edit
    <3>3. CASE u = s /\ k # Len(made[s]) + 1
      <4>1. k \in 1..Len(made[s])
        BY <3>3, <1>p, <1>a, <1>m, <2>2
      <4>2. QED
        BY <4>1, <3>3, <1>p, <1>a, <1>m
    <3>4. QED
      BY <3>1, <3>2, <3>3
  <2>3. QED
    BY <2>1, <2>2, <1>t, BackupsGrow DEF TypeInv, Backup
<1>4. QED
  BY <1>1, <1>2, <1>3 DEF TypeInv

\* The write keeps the edit at hand, but for what it replaced.
LEMMA WriteMakes ==
  ASSUME TypeInv, NEW s \in Sessions, EditWrite(s)
  PROVE  /\ made' \in [Sessions -> Seq(Edit)]
         /\ made[s] # <<>> /\ Len(made[s]) \in DOMAIN made[s]
         /\ made[s][Len(made[s])].backup \in Names
         /\ \A u \in Sessions : /\ DOMAIN made'[u] = DOMAIN made[u]
                                /\ (u = s => made'[u] # <<>>)
                                /\ \A k \in DOMAIN made[u] :
                                      made'[u][k].backup = made[u][k].backup
<1> DEFINE n == Len(made[s])
           edit == [made[s][n] EXCEPT !.before = config]
           edits == [made[s] EXCEPT ![n] = edit]
<1>t. TypeOK /\ made[s] \in Seq(Edit) /\ made[s] # <<>> /\ config \in Text
  BY DEF TypeInv, TypeOK, HasText, EditWrite
<1>1. n \in DOMAIN made[s] /\ made[s][n] \in Edit /\ n \in 1..Len(made[s])
  BY <1>t
<1>2. edit \in Edit /\ edit.backup = made[s][n].backup /\ made[s][n].backup \in Names
  BY <1>1, <1>t DEF Edit
<1>3. made' = [made EXCEPT ![s] = edits]
  BY DEF EditWrite
<1> HIDE DEF edit
<1>4. /\ edits \in Seq(Edit) /\ Len(edits) = Len(made[s])
      /\ \A k \in 1..Len(made[s]) : edits[k] = IF k = n THEN edit ELSE made[s][k]
  BY <1>1, <1>2, <1>t, ExceptSeq
<1>5. DOMAIN edits = DOMAIN made[s] /\ edits # <<>>
      /\ \A k \in DOMAIN made[s] : edits[k].backup = made[s][k].backup
  BY <1>4, <1>1, <1>2, <1>t
<1> HIDE DEF edits
<1>6. \A u \in Sessions : made'[u] = IF u = s THEN edits ELSE made[u]
  BY <1>3, <1>t DEF TypeOK
<1>7. made' \in [Sessions -> Seq(Edit)]
  BY <1>3, <1>4, <1>t DEF TypeOK
<1>8. QED
  BY <1>1, <1>2, <1>5, <1>6, <1>7, <1>t

LEMMA EditWriteTypes == ASSUME TypeInv, NEW s \in Sessions, EditWrite(s) PROVE TypeInv'
<1>t. TypeOK /\ s \in Actors /\ s # Ui /\ pc[s] = "write" /\ step[s] \in DOMAIN Edits[fix[s]]
  BY UiIsNoSession DEF TypeInv, EditWrite, AtAnEdit
<1>c. config' \in Text
  <2>1. data[s] \in Content
    BY <1>t DEF TypeInv, HasText
  <2>2. TheEdit(s).field \in Fields /\ TheEdit(s).value \in 0..MaxValue
    BY <1>t, EditOfFix
  <2>3. config' = [data[s] EXCEPT ![TheEdit(s).field] = TheEdit(s).value]
    BY DEF EditWrite
  <2>4. QED
    BY <2>1, <2>2, <2>3 DEF Text, Content
<1>n. NextEdit(s)
  BY DEF EditWrite
<1>0. PICK label \in {"read", "final"} : \E k \in Nat \ {0} :
         /\ pc' = [pc EXCEPT ![s] = label] /\ step' = [step EXCEPT ![s] = k]
         /\ label # "final" => k \in DOMAIN Edits[fix[s]]
  BY <1>n, <1>t, NextEditEffect
<1>k. PICK k \in Nat \ {0} :
         /\ pc' = [pc EXCEPT ![s] = label] /\ step' = [step EXCEPT ![s] = k]
         /\ label # "final" => k \in DOMAIN Edits[fix[s]]
  BY <1>0
<1>p. \A b \in Actors : /\ pc'[b] = IF b = s THEN label ELSE pc[b]
                        /\ step'[b] = IF b = s THEN k ELSE step[b]
  BY <1>t, <1>k DEF TypeOK
<1>1. TypeOK'
  <2>1. pc' \in [Actors -> Labels] /\ step' \in [Actors -> Nat \ {0}]
    BY <1>t, <1>k DEF TypeOK, Labels
  <2>2. made' \in [Sessions -> Seq(Edit)] /\ standing' \subseteq Sessions \X Names
    <3>1. standing' = standing \cup {<<s, made[s][Len(made[s])].backup>>}
      BY DEF EditWrite
    <3>2. made' \in [Sessions -> Seq(Edit)] /\ made[s][Len(made[s])].backup \in Names
      BY WriteMakes
    <3>3. QED
      BY <3>1, <3>2, <1>t DEF TypeOK
  <2>3. QED
    BY <1>t, <1>c, <2>1, <2>2 DEF TypeOK, EditWrite, job
<1>2. AtAnEdit' /\ HasText' /\ HasRecord' /\ UiAt'
  <2>1. AtAnEdit'
    BY <1>p, <1>t, <1>k, UiIsNoSession DEF TypeInv, AtAnEdit, EditWrite, SessionLabels
  <2>2. HasText'
    <3>1. ASSUME NEW u \in Sessions
          PROVE  /\ pc'[u] \in {"backup", "write"} => data'[u] \in Content
                 /\ pc'[u] \in {"write", "save"} => made'[u] # <<>>
      <4>1. CASE u = s
        BY <4>1, <1>p, <1>t, UiIsNoSession
      <4>2. CASE u # s
        <5>1. pc'[u] = pc[u] /\ data'[u] = data[u] /\ made'[u] = made[u]
          BY <4>2, <1>p, <1>t, UiIsNoSession DEF EditWrite, TypeOK
        <5>2. QED
          BY <5>1 DEF TypeInv, HasText
      <4>3. QED
        BY <4>1, <4>2
    <3>2. QED
      BY <3>1 DEF HasText
  <2>3. HasRecord'
    BY <1>p, <1>t, UiIsNoSession DEF TypeInv, HasRecord, EditWrite
  <2>4. UiAt'
    BY <1>p, <1>t, UiIsNoSession, UiStays DEF TypeInv, EditWrite, job
  <2>5. QED
    BY <2>1, <2>2, <2>3, <2>4
<1>3. BackupsExist'
  BY <1>t, WriteMakes, BackupsGrow DEF TypeInv, EditWrite
<1>4. QED
  BY <1>1, <1>2, <1>3 DEF TypeInv

(***************************************************************************)
(* Leaving, and what else an actor does without a change to its apply.     *)
(***************************************************************************)
LEMMA LeaveKeeps ==
  ASSUME TypeInv, NEW a \in Actors, Leave(a)
  PROVE  AtAnEdit' /\ HasText' /\ HasRecord' /\ UiAt'
<1>t. TypeOK
  BY DEF TypeInv
<1>p. /\ \A b \in Actors : /\ b = a => pc'[b] = "idle" /\ step'[b] = 1 /\ mem'[b] = <<>>
                           /\ b # a => /\ pc'[b] = pc[b] /\ step'[b] = step[b]
                                       /\ mem'[b] = mem[b]
      /\ \A s \in Sessions : /\ s = a => made'[s] = <<>>
                             /\ s # a => /\ fix'[s] = fix[s] /\ data'[s] = data[s]
                                         /\ made'[s] = made[s]
      /\ a # Ui => UNCHANGED job
  BY <1>t, LeaveEffect
<1>1. AtAnEdit'
  BY <1>p, UiIsNoSession DEF TypeInv, AtAnEdit, SessionLabels
<1>2. HasText'
  BY <1>p, UiIsNoSession DEF TypeInv, HasText
<1>3. HasRecord'
  BY <1>p DEF TypeInv, HasRecord
<1>4. UiAt'
  <2>1. CASE a = Ui
    BY <2>1, <1>p DEF UiAt, UiHasTarget, UiLabels
  <2>2. CASE a # Ui
    BY <2>2, <1>p, UiIsNoSession, UiStays DEF TypeInv, job
  <2>3. QED
    BY <2>1, <2>2
<1>5. QED
  BY <1>1, <1>2, <1>3, <1>4

\* Records keep their backups when an actor leaves.
LEMMA LeaveBackups ==
  ASSUME TypeInv, NEW a \in Actors, Leave(a), UNCHANGED backups,
         \A s \in Sessions : AllKept(ledger[s])'
  PROVE  BackupsExist'
<1>t. TypeOK
  BY DEF TypeInv
<1>1. ASSUME NEW s \in Sessions PROVE Kept(made[s])'
  <2>1. made'[s] = made[s] \/ made'[s] = <<>>
    BY <1>t, LeaveEffect
  <2>2. QED
    BY <2>1 DEF TypeInv, BackupsExist, Kept
<1>2. ASSUME NEW b \in Actors PROVE AllKept(mem[b])'
  <2>1. mem'[b] = mem[b] \/ mem'[b] = <<>>
    BY <1>t, LeaveEffect
  <2>2. QED
    BY <2>1 DEF TypeInv, BackupsExist, AllKept, Kept
<1>3. QED
  BY <1>1, <1>2 DEF BackupsExist

LEMMA LedgersStay ==
  ASSUME BackupsExist, UNCHANGED <<backups, ledger>>
  PROVE  \A s \in Sessions : AllKept(ledger[s])'
BY DEF BackupsExist, AllKept, Kept

\* An actor moves on with a list it has loaded, or with the one it had.
LEMMA MoveTypes ==
  ASSUME TypeInv, NEW a \in Actors, NEW label \in {"rerun", "save", "undo", "restore"},
         NEW list \in Seq(Record), NEW k \in Nat \ {0},
         a = Ui => label # "save" /\ label # "rerun",
         pc' = [pc EXCEPT ![a] = label],
         mem' = [mem EXCEPT ![a] = list], step' = [step EXCEPT ![a] = k],
         list = mem[a] \/ \E s \in Sessions : list = ledger[s],
         a = Ui => UiHasTarget,
         label = "save" => made[a] # <<>>,
         label = "restore" => list # <<>> /\ k \in DOMAIN LastOf(list).edits,
         UNCHANGED <<files, time, fix, data, made, ok, job, history, tally, crossed, shared,
                     standing, excused, overtaken>>
  PROVE  TypeInv'
<1>t. TypeOK /\ label \in Labels /\ label \in SessionLabels
  BY DEF TypeInv, Labels, SessionLabels
<1>p. \A b \in Actors : /\ pc'[b] = IF b = a THEN label ELSE pc[b]
                        /\ step'[b] = IF b = a THEN k ELSE step[b]
                        /\ mem'[b] = IF b = a THEN list ELSE mem[b]
  BY <1>t DEF TypeOK
<1>1. TypeOK'
  <2>1. /\ pc' \in [Actors -> Labels] /\ step' \in [Actors -> Nat \ {0}]
        /\ mem' \in [Actors -> Seq(Record)]
    BY <1>t DEF TypeOK
  <2>2. QED
    BY <1>t, <2>1 DEF TypeOK, files, job
<1>2. AtAnEdit'
  BY <1>p, <1>t, UiIsNoSession DEF TypeInv, AtAnEdit
<1>3. HasText'
  BY <1>p, UiIsNoSession DEF TypeInv, HasText
<1>4. HasRecord'
  BY <1>p DEF TypeInv, HasRecord
<1>5. UiAt'
  <2>1. CASE a = Ui
    <3>1. pc'[Ui] \in {"undo", "restore"} /\ on \in Sessions /\ target \in Target
          /\ UNCHANGED <<on, target>>
      BY <2>1, <1>p DEF TypeInv, UiAt, job
    <3>2. QED
      BY <3>1 DEF UiAt, UiLabels
  <2>2. CASE a # Ui
    BY <2>2, <1>p, UiIsNoSession, UiStays DEF TypeInv, job
  <2>3. QED
    BY <2>1, <2>2
<1>6. BackupsExist'
  <2>1. UNCHANGED <<backups, ledger, made>>
    BY DEF files
  <2>2. ASSUME NEW b \in Actors PROVE AllKept(mem[b])'
    <3>1. AllKept(list)
      BY DEF TypeInv, BackupsExist
    <3>2. AllKept(mem'[b])
      BY <3>1, <1>p DEF TypeInv, BackupsExist
    <3>3. QED
      BY <3>2, <2>1 DEF AllKept, Kept
  <2>3. QED
    BY <2>1, <2>2 DEF TypeInv, BackupsExist, AllKept, Kept
<1>7. QED
  BY <1>1, <1>2, <1>3, <1>4, <1>5, <1>6 DEF TypeInv

LEMMA MemStays ==
  ASSUME TypeOK, NEW a \in Actors
  PROVE  /\ mem = [mem EXCEPT ![a] = mem[a]] /\ mem[a] \in Seq(Record)
         /\ step = [step EXCEPT ![a] = step[a]] /\ step[a] \in Nat \ {0}
BY DEF TypeOK

\* The backups an apply made have names.
LEMMA MadeNames ==
  ASSUME TypeOK, NEW s \in Sessions
  PROVE  EditsOf(s, made[s]) \subseteq Sessions \X Names /\ InHand(s) \subseteq Sessions \X Names
<1>1. ASSUME NEW k \in DOMAIN made[s] PROVE made[s][k].backup \in Names
  <2>1. made[s] \in Seq(Edit)
    BY DEF TypeOK
  <2>2. made[s][k] \in Edit
    BY <2>1
  <2>3. QED
    BY <2>2 DEF Edit
<1>2. QED
  BY <1>1 DEF EditsOf, InHand

LEMMA FinalizeTypes == ASSUME TypeInv, NEW s \in Sessions, Finalize(s) PROVE TypeInv'
<1>t. TypeOK /\ s \in Actors /\ s # Ui
  BY UiIsNoSession DEF TypeInv
<1>u. UNCHANGED <<files, time, history, tally, crossed, shared, standing, overtaken>>
  BY DEF Finalize
<1>1. CASE /\ Recordable(s) /\ mem' = [mem EXCEPT ![s] = ledger[s]]
           /\ Goto(s, "save") /\ UNCHANGED <<work, job, excused>>
  <2>1. step' = [step EXCEPT ![s] = step[s]] /\ step[s] \in Nat \ {0} /\ ledger[s] \in Seq(Record)
    BY <1>1, <1>t DEF TypeOK, work
  <2>2. UNCHANGED <<fix, data, made, ok>>
    BY <1>1 DEF work
  <2>3. QED
    BY <1>1, <1>t, <1>u, <2>1, <2>2, MoveTypes DEF Recordable, Goto
<1>2. CASE Goto(s, "rerun") /\ UNCHANGED <<work, mem, job, excused>>
  <2>1. /\ mem' = [mem EXCEPT ![s] = mem[s]] /\ mem[s] \in Seq(Record)
        /\ step' = [step EXCEPT ![s] = step[s]] /\ step[s] \in Nat \ {0}
    BY <1>2, <1>t, MemStays DEF work
  <2>2. UNCHANGED <<fix, data, made, ok>>
    BY <1>2 DEF work
  <2>3. QED
    BY <1>2, <1>t, <1>u, <2>1, <2>2, MoveTypes DEF Goto
<1>3. CASE Leave(s) /\ excused' = excused \cup InHand(s)
  <2>1. TypeOK'
    <3>1. WorkType' /\ JobType'
      BY <1>3, <1>t, LeaveTypes
    <3>2. excused' \subseteq Sessions \X Names
      BY <1>3, <1>t, MadeNames DEF TypeOK
    <3>3. QED
      BY <1>t, <1>u, <3>1, <3>2 DEF TypeOK, WorkType, JobType, files
  <2>2. UNCHANGED <<backups, ledger>>
    BY <1>u DEF files
  <2>3. AtAnEdit' /\ HasText' /\ HasRecord' /\ UiAt'
    BY <1>3, <1>t, <2>2, LeaveKeeps
  <2>4. BackupsExist'
    BY <1>3, <1>t, <2>2, LeaveBackups, LedgersStay DEF TypeInv
  <2>5. QED
    BY <2>1, <2>3, <2>4 DEF TypeInv
<1>4. QED
  BY <1>1, <1>2, <1>3 DEF Finalize

\* An actor is done, with the files as they were.
LEMMA LeaveOnly ==
  ASSUME TypeInv, NEW a \in Actors, Leave(a),
         history' \subseteq Target,
         UNCHANGED <<files, time, tally, crossed, shared, standing, excused, overtaken>>
  PROVE  TypeInv'
<1>t. TypeOK
  BY DEF TypeInv
<1>1. TypeOK'
  <2>1. WorkType' /\ JobType'
    BY <1>t, LeaveTypes
  <2>2. QED
    BY <1>t, <2>1 DEF TypeOK, WorkType, JobType, files
<1>2. UNCHANGED <<backups, ledger>>
  BY DEF files
<1>3. AtAnEdit' /\ HasText' /\ HasRecord' /\ UiAt'
  BY <1>2, LeaveKeeps
<1>4. BackupsExist'
  BY <1>2, LeaveBackups, LedgersStay DEF TypeInv
<1>5. QED
  BY <1>1, <1>3, <1>4 DEF TypeInv

LEMMA JudgeTypes == ASSUME TypeInv, NEW s \in Sessions, RerunLocal(s) \/ RerunRemote(s) PROVE TypeInv'
<1>t. TypeOK /\ s \in Actors /\ s # Ui
  BY UiIsNoSession DEF TypeInv
<1>u. UNCHANGED <<files, time, history, tally, crossed, shared, standing, excused, overtaken>>
  BY DEF RerunLocal, RerunRemote, Judge
<1>1. CASE Leave(s)
  <2>1. history' \subseteq Target
    BY <1>t, <1>u DEF TypeOK
  <2>2. QED
    BY <1>1, <1>t, <1>u, <2>1, LeaveOnly
<1>2. CASE Goto(s, "undo") /\ UNCHANGED <<work, mem, job>>
  <2>1. /\ mem' = [mem EXCEPT ![s] = mem[s]] /\ mem[s] \in Seq(Record)
        /\ step' = [step EXCEPT ![s] = step[s]] /\ step[s] \in Nat \ {0}
    BY <1>2, <1>t, MemStays DEF work
  <2>2. UNCHANGED <<fix, data, made, ok>>
    BY <1>2 DEF work
  <2>3. QED
    BY <1>2, <1>t, <1>u, <2>1, <2>2, MoveTypes DEF Goto
<1>3. QED
  BY <1>1, <1>2 DEF RerunLocal, RerunRemote, Judge

\* The ledger an actor works on is that of a session.
LEMMA LedgerOfSession ==
  ASSUME TypeInv, NEW a \in Actors, pc[a] \in {"undo", "restore", "pop"}
  PROVE  LedgerOf(a) \in Sessions
BY UiIsNoSession DEF TypeInv, UiAt, UiHasTarget, LedgerOf

LEMMA RollbackLoadTypes == ASSUME TypeInv, NEW a \in Actors, RollbackLoad(a) PROVE TypeInv'
<1> DEFINE s == LedgerOf(a)
<1>t. TypeOK /\ pc[a] = "undo" /\ s \in Sessions /\ ledger[s] \in Seq(Record)
  BY LedgerOfSession DEF TypeInv, TypeOK, RollbackLoad
<1>u. UNCHANGED <<files, time, history, tally, crossed, shared, standing, excused, overtaken>>
  BY DEF RollbackLoad
<1>1. CASE Leave(a)
  <2>1. history' \subseteq Target
    BY <1>t, <1>u DEF TypeOK
  <2>2. QED
    BY <1>1, <1>t, <1>u, <2>1, LeaveOnly
<1>2. CASE /\ ledger[s] # <<>>
           /\ mem' = [mem EXCEPT ![a] = ledger[s]]
           /\ step' = [step EXCEPT ![a] = 1]
           /\ Goto(a, "restore")
           /\ UNCHANGED <<fix, data, made, ok, job>>
  <2>1. LastOf(ledger[s]) \in Record /\ LastOf(ledger[s]).edits # <<>>
    BY <1>2, <1>t, LastOfRecords, KeptFront DEF TypeInv, BackupsExist
  <2>2. LastOf(ledger[s]).edits \in Seq(Edit)
    BY <2>1 DEF Record
  <2>3. 1 \in DOMAIN LastOf(ledger[s]).edits
    BY <2>1, <2>2
  <2>4. a = Ui => UiHasTarget
    BY <1>t DEF UiHasTarget
  <2>5. ledger[s] # <<>> /\ \E t \in Sessions : ledger[s] = ledger[t]
    BY <1>2, <1>t
  <2>6. /\ mem' = [mem EXCEPT ![a] = ledger[s]] /\ step' = [step EXCEPT ![a] = 1]
        /\ pc' = [pc EXCEPT ![a] = "restore"] /\ UNCHANGED <<fix, data, made, ok, job>>
    BY <1>2 DEF Goto
  <2>7. PICK list \in Seq(Record), k \in Nat \ {0} : list = ledger[s] /\ k = 1
    BY <1>t
  <2> HIDE DEF s
  <2>8. a = Ui => "restore" # "save" /\ "restore" # "rerun"
    OBVIOUS
  <2>9. QED
    BY <2>3, <2>4, <2>5, <2>6, <2>7, <2>8, <1>t, <1>u, MoveTypes
<1>3. QED
  BY <1>1, <1>2 DEF RollbackLoad

(***************************************************************************)
(* Restoring, the end of a rollback, the job of the web UI, and aborts.    *)
(***************************************************************************)
LEMMA SaveLedgerTypes == ASSUME TypeInv, NEW s \in Sessions, SaveLedger(s) PROVE TypeInv'
<1> DEFINE record == [fix |-> fix[s], edits |-> made[s]]
           list == Append(mem[s], record)
<1>t. TypeOK /\ s \in Actors /\ s # Ui /\ mem[s] \in Seq(Record) /\ AllKept(mem[s])
      /\ made[s] # <<>> /\ Kept(made[s])
  BY UiIsNoSession DEF TypeInv, TypeOK, HasText, SaveLedger, BackupsExist
<1>r. record \in Record
  BY <1>t DEF TypeOK, Record
<1>k. record.edits = made[s]
  OBVIOUS
<1> HIDE DEF record
<1>a. /\ list \in Seq(Record) /\ Len(list) = Len(mem[s]) + 1
      /\ \A i \in 1..Len(mem[s]) : list[i] = mem[s][i]
      /\ list[Len(mem[s]) + 1] = record
  BY <1>r, <1>t, AppendProperties
<1>l. ledger' = [ledger EXCEPT ![s] = list]
  BY DEF SaveLedger, record
<1> HIDE DEF list
<1>p. /\ \A b \in Actors : pc'[b] = IF b = s THEN "rerun" ELSE pc[b]
      /\ \A u \in Sessions : ledger'[u] = IF u = s THEN list ELSE ledger[u]
      /\ UNCHANGED <<fix, step, data, made, ok>>
  BY <1>t, <1>l DEF TypeOK, SaveLedger, Goto, work
<1>1. TypeOK'
  <2>1. ledger' \in [Sessions -> Seq(Record)] /\ newest' \in Actors
    BY <1>t, <1>l, <1>a DEF TypeOK, SaveLedger, Written
  <2>2. pc' \in [Actors -> Labels]
    BY <1>t DEF TypeOK, SaveLedger, Goto, Labels
  <2>3. overtaken' \subseteq Sessions \X Names
    BY <1>t, MadeNames DEF TypeOK, SaveLedger
  <2>4. QED
    BY <1>t, <1>p, <2>1, <2>2, <2>3 DEF TypeOK, SaveLedger, job
<1>2. AtAnEdit'
  BY <1>p, <1>t, UiIsNoSession DEF TypeInv, AtAnEdit, SessionLabels
<1>3. HasText' /\ HasRecord' /\ UiAt'
  <2>1. HasText'
    BY <1>p, <1>t, UiIsNoSession DEF TypeInv, HasText
  <2>2. HasRecord'
    BY <1>p, <1>t DEF TypeInv, HasRecord, SaveLedger
  <2>3. UiAt'
    BY <1>p, <1>t, UiIsNoSession, UiStays DEF TypeInv, SaveLedger, job
  <2>4. QED
    BY <2>1, <2>2, <2>3
<1>4. BackupsExist'
  <2>0. UNCHANGED <<backups, made, mem>>
    BY <1>p DEF SaveLedger
  <2>1. AllKept(list)
    <3>1. ASSUME NEW i \in DOMAIN list PROVE list[i].edits # <<>> /\ Kept(list[i].edits)
      <4>1. DOMAIN list = 1..(Len(mem[s]) + 1) /\ Len(mem[s]) \in Nat
            /\ DOMAIN mem[s] = 1..Len(mem[s])
        BY <1>a, <1>t
      <4>2. CASE i = Len(mem[s]) + 1
        BY <4>2, <1>a, <1>k, <1>t
      <4>3. CASE i # Len(mem[s]) + 1
        <5>1. i \in 1..Len(mem[s]) /\ list[i] = mem[s][i]
          BY <4>1, <4>3, <1>a
        <5>2. QED
          BY <5>1, <4>1, <1>t DEF AllKept
      <4>4. QED
        BY <4>2, <4>3
    <3>2. QED
      BY <3>1 DEF AllKept
  <2>2. ASSUME NEW u \in Sessions PROVE AllKept(ledger[u])'
    <3>1. AllKept(ledger'[u])
      BY <2>1, <1>p DEF TypeInv, BackupsExist
    <3>2. QED
      BY <3>1, <2>0 DEF AllKept, Kept
  <2>3. QED
    BY <2>0, <2>2 DEF TypeInv, BackupsExist, AllKept, Kept
<1>5. QED
  BY <1>1, <1>2, <1>3, <1>4 DEF TypeInv

LEMMA RestoreTypes == ASSUME TypeInv, NEW a \in Actors, Restore(a) PROVE TypeInv'
<1> DEFINE edits == LastOf(mem[a]).edits
<1>t. /\ TypeOK /\ pc[a] = "restore" /\ mem[a] \in Seq(Record) /\ mem[a] # <<>>
      /\ AllKept(mem[a]) /\ step[a] \in DOMAIN edits
  BY DEF TypeInv, TypeOK, HasRecord, BackupsExist, Restore
<1>r. LastOf(mem[a]) \in Record /\ Kept(edits)
  BY <1>t, LastOfRecords, KeptFront
<1>e. edits \in Seq(Edit)
  BY <1>r DEF Record
<1>c. config' \in Text
  <2>1. edits[step[a]] \in Edit
    BY <1>e, <1>t
  <2>2. edits[step[a]].backup \in Names /\ backups[edits[step[a]].backup] # NoFile
    BY <2>1, <1>r, <1>t DEF Edit, Kept
  <2>3. config' = backups[edits[step[a]].backup]
    BY DEF Restore
  <2>4. QED
    BY <2>2, <2>3, <1>t DEF TypeOK
<1>p. \/ /\ step' = [step EXCEPT ![a] = step[a] + 1] /\ UNCHANGED pc
         /\ step[a] + 1 \in DOMAIN edits /\ step[a] + 1 \in Nat \ {0}
      \/ pc' = [pc EXCEPT ![a] = "pop"] /\ UNCHANGED step
  <2>1. step[a] < Len(edits) => step[a] + 1 \in DOMAIN edits /\ step[a] + 1 \in Nat \ {0}
    BY <1>e, <1>t
  <2>2. QED
    BY <2>1 DEF Restore, Goto
<1>u. UNCHANGED <<remote, backups, ledger, newest, time, fix, data, made, ok, mem, job, history, tally,
                  crossed, shared, standing, excused, overtaken>>
  BY DEF Restore
<1> HIDE DEF edits
<1>1. TypeOK'
  <2>0. pc \in [Actors -> Labels] /\ step \in [Actors -> Nat \ {0}] /\ "pop" \in Labels
    BY <1>t DEF TypeOK, Labels
  <2>1. pc' \in [Actors -> Labels] /\ step' \in [Actors -> Nat \ {0}]
    <3>1. CASE pc' = [pc EXCEPT ![a] = "pop"] /\ UNCHANGED step
      BY <3>1, <2>0
    <3>2. CASE step' = [step EXCEPT ![a] = step[a] + 1] /\ UNCHANGED pc /\ step[a] + 1 \in Nat \ {0}
      BY <3>2, <2>0
    <3>3. QED
      BY <3>1, <3>2, <1>p
  <2>2. QED
    BY <1>t, <1>u, <1>c, <2>1 DEF TypeOK, job
<1>q. \A b \in Actors : /\ b # a => pc'[b] = pc[b] /\ step'[b] = step[b]
                        /\ b = a => \/ pc'[b] = "restore" /\ step'[b] \in DOMAIN edits
                                    \/ pc'[b] = "pop" /\ step'[b] = step[b]
  BY <1>p, <1>t DEF TypeOK
<1>2. AtAnEdit'
  BY <1>q, <1>t, <1>u, UiIsNoSession DEF TypeInv, AtAnEdit, SessionLabels
<1>3. HasText'
  BY <1>q, <1>t, <1>u, UiIsNoSession DEF TypeInv, HasText
<1>4. HasRecord'
  BY <1>q, <1>t, <1>u DEF TypeInv, HasRecord, edits
<1>5. UiAt'
  <2>1. CASE a = Ui
    BY <2>1, <1>q, <1>t, <1>u DEF TypeInv, UiAt, UiHasTarget, UiLabels, job
  <2>2. CASE a # Ui
    BY <2>2, <1>q, <1>u, UiIsNoSession, UiStays DEF TypeInv, job
  <2>3. QED
    BY <2>1, <2>2
<1>6. BackupsExist'
  BY <1>u, BackupsStay DEF TypeInv
<1>7. QED
  BY <1>1, <1>2, <1>3, <1>4, <1>5, <1>6 DEF TypeInv

\* A ledger is replaced by records that have their backups.
LEMMA LedgerReplaced ==
  ASSUME TypeInv, NEW s \in Sessions, NEW list \in Seq(Record), AllKept(list),
         ledger' = [ledger EXCEPT ![s] = list], UNCHANGED backups
  PROVE  /\ ledger' \in [Sessions -> Seq(Record)]
         /\ \A u \in Sessions : AllKept(ledger[u])'
<1>1. ledger' \in [Sessions -> Seq(Record)]
  BY DEF TypeInv, TypeOK
<1>2. ASSUME NEW u \in Sessions PROVE AllKept(ledger[u])'
  <2>1. AllKept(ledger'[u])
    BY DEF TypeInv, TypeOK, BackupsExist
  <2>2. QED
    BY <2>1 DEF AllKept, Kept
<1>3. QED
  BY <1>1, <1>2

LEMMA PopTypes == ASSUME TypeInv, NEW a \in Actors, Pop(a) PROVE TypeInv'
<1> DEFINE s == LedgerOf(a)
           list == FrontOf(mem[a])
<1>t. /\ TypeOK /\ pc[a] = "pop" /\ mem[a] \in Seq(Record) /\ mem[a] # <<>>
      /\ AllKept(mem[a]) /\ s \in Sessions
  BY LedgerOfSession DEF TypeInv, TypeOK, HasRecord, BackupsExist, Pop
<1>r. list \in Seq(Record) /\ AllKept(list)
  BY <1>t, LastOfRecords, KeptFront
<1>l. ledger' = [ledger EXCEPT ![s] = list] /\ newest' = s
  BY DEF Pop, Written
<1>u. /\ UNCHANGED <<remote, config, backups, time, history, tally, crossed, shared, excused, overtaken>>
      /\ standing' \subseteq standing
  BY DEF Pop
<1> HIDE DEF s, list
<1>k. ledger' \in [Sessions -> Seq(Record)] /\ \A u \in Sessions : AllKept(ledger[u])'
  BY <1>t, <1>r, <1>l, <1>u, LedgerReplaced
<1>n. newest' \in Actors
  BY <1>l, <1>t, UiIsNoSession
<1>1. CASE Leave(a)
  <2>1. TypeOK'
    <3>1. WorkType' /\ JobType'
      BY <1>1, <1>t, LeaveTypes
    <3>2. QED
      BY <3>1, <1>t, <1>u, <1>k, <1>n DEF TypeOK, WorkType, JobType
  <2>2. AtAnEdit' /\ HasText' /\ HasRecord' /\ UiAt'
    BY <1>1, LeaveKeeps
  <2>3. BackupsExist'
    BY <1>1, <1>u, <1>k, LeaveBackups
  <2>4. QED
    BY <2>1, <2>2, <2>3 DEF TypeInv
<1>2. CASE a = Ui /\ Goto(Ui, "report") /\ UNCHANGED <<work, mem, job>>
  <2>p. pc' = [pc EXCEPT ![Ui] = "report"] /\ UNCHANGED <<fix, step, data, made, ok, mem, on, asked, target>>
    BY <1>2 DEF Goto, work, job
  <2>q. \A b \in Actors : pc'[b] = IF b = Ui THEN "report" ELSE pc[b]
    BY <2>p, <1>t DEF TypeOK
  <2>1. TypeOK'
    <3>1. pc' \in [Actors -> Labels]
      BY <2>p, <1>t DEF TypeOK, Labels
    <3>2. QED
      BY <3>1, <2>p, <1>t, <1>u, <1>k, <1>n DEF TypeOK
  <2>2. AtAnEdit' /\ HasText'
    BY <2>p, <2>q, UiIsNoSession DEF TypeInv, AtAnEdit, HasText
  <2>3. HasRecord'
    BY <2>p, <2>q DEF TypeInv, HasRecord
  <2>4. UiAt'
    BY <2>p, <2>q, <1>2, <1>t, UiIsNoSession DEF TypeInv, UiAt, UiHasTarget, UiLabels
  <2>5. BackupsExist'
    BY <2>p, <1>u, <1>k DEF TypeInv, BackupsExist, AllKept, Kept
  <2>6. QED
    BY <2>1, <2>2, <2>3, <2>4, <2>5 DEF TypeInv
<1>3. QED
  BY <1>1, <1>2 DEF Pop

\* A record offered as the latest is the last of the ledger of a session.
LEMMA LatestIsLast ==
  ASSUME TypeOK, NEW t \in LatestTargets
  PROVE  /\ t \in Target /\ t.session \in Sessions /\ ledger[t.session] # <<>>
         /\ t = [session |-> t.session, index |-> Len(ledger[t.session]),
                 record |-> LastOf(ledger[t.session])]
<1>1. PICK s \in Sessions : /\ ledger[s] # <<>>
                            /\ t = [session |-> s, index |-> Len(ledger[s]),
                                    record |-> LastOf(ledger[s])]
  BY DEF LatestTargets
<1>2. ledger[s] \in Seq(Record)
  BY DEF TypeOK
<1>3. LastOf(ledger[s]) \in Record /\ Len(ledger[s]) \in Nat
  BY <1>1, <1>2, LastOfRecords
<1>4. t.session = s /\ t \in Target
  BY <1>1, <1>3 DEF Target
<1>5. QED
  BY <1>1, <1>4

LEMMA RequestTypes ==
  ASSUME TypeInv, NEW what \in Available \cup {Latest}, Request(what) PROVE TypeInv'
<1>t. TypeOK /\ Ui \in Actors /\ pc[Ui] = "idle"
  BY UiIsNoSession DEF TypeInv, Request, Busy
<1>w. what \in Target \cup {Latest}
  BY <1>t, LatestIsLast DEF Available
<1>u. UNCHANGED <<files, time, work, mem, on, target, history, crossed, shared,
                  standing, excused, overtaken>>
      /\ asked' = what /\ pc' = [pc EXCEPT ![Ui] = "queued"]
  BY DEF Request, Goto
<1>p. \A b \in Actors : pc'[b] = IF b = Ui THEN "queued" ELSE pc[b]
  BY <1>u, <1>t DEF TypeOK
<1>1. TypeOK'
  <2>1. pc' \in [Actors -> Labels] /\ asked' \in Target \cup {Latest}
    BY <1>u, <1>t, <1>w DEF TypeOK, Labels
  <2>2. tally' \in [applies : 0..MaxApplies, requests : 0..MaxRequests, aborts : 0..MaxAborts]
    BY <1>t, TallyType DEF Request
  <2>3. QED
    BY <1>t, <1>u, <2>1, <2>2 DEF TypeOK, files, work
<1>2. AtAnEdit' /\ HasText'
  BY <1>p, <1>u, UiIsNoSession DEF TypeInv, AtAnEdit, HasText, work
<1>3. HasRecord' /\ UiAt'
  BY <1>p, <1>u, <1>t DEF TypeInv, HasRecord, UiAt, UiHasTarget, UiLabels, work
<1>4. BackupsExist'
  BY <1>u, BackupsStay DEF TypeInv, files, work
<1>5. QED
  BY <1>1, <1>2, <1>3, <1>4 DEF TypeInv

LEMMA ResolveTypes == ASSUME TypeInv, Resolve PROVE TypeInv'
<1>t. TypeOK /\ Ui \in Actors /\ Ui \notin Sessions /\ pc[Ui] = "queued"
  BY UiIsNoSession DEF TypeInv, Resolve
<1>u. UNCHANGED <<files, time, work, mem, tally, standing, excused, overtaken>>
  BY DEF Resolve
<1> DEFINE Moved == /\ \E label \in {"undo", "idle"} :
                         /\ pc' = [pc EXCEPT ![Ui] = label]
                         /\ label = "undo" => on' \in Sessions /\ target' \in Target
                    /\ on' \in Actors /\ asked' \in Target \cup {Latest}
                    /\ target' \in Target \cup {Latest} /\ history' \subseteq Target
                    /\ crossed' \in BOOLEAN /\ shared' \subseteq Sessions
<1>c. Moved
  <2>1. ASSUME NEW t \in LatestTargets, target' = t, on' = t.session, crossed' = Crosses(Ui),
               shared' = IF AtWork(t.session) THEN shared \cup {t.session} ELSE shared,
               Started(t), Goto(Ui, "undo"), UNCHANGED asked
        PROVE  Moved
    <3>1. t \in Target /\ t.session \in Sessions
      BY <1>t, LatestIsLast
    <3>2. crossed' \in BOOLEAN
      BY <2>1 DEF Crosses
    <3>3. history' \subseteq Target /\ shared' \subseteq Sessions
      BY <2>1, <3>1, <1>t DEF TypeOK, Started
    <3>4. QED
      BY <2>1, <3>1, <3>2, <3>3, <1>t, UiIsNoSession DEF TypeOK, Goto
  <2>2. ASSUME Goto(Ui, "idle"), asked' = Latest, UNCHANGED <<target, on, history, crossed, shared>>
        PROVE  Moved
    BY <2>2, <1>t DEF TypeOK, Goto
  <2>3. QED
    BY <2>1, <2>2 DEF Resolve
<1>l. PICK label \in {"undo", "idle"} :
         /\ pc' = [pc EXCEPT ![Ui] = label]
         /\ label = "undo" => on' \in Sessions /\ target' \in Target
  BY <1>c
<1>p. \A b \in Actors : pc'[b] = IF b = Ui THEN label ELSE pc[b]
  BY <1>l, <1>t DEF TypeOK
<1>1. TypeOK'
  <2>1. pc' \in [Actors -> Labels]
    BY <1>l, <1>t DEF TypeOK, Labels
  <2>2. QED
    BY <2>1, <1>c, <1>t, <1>u DEF TypeOK, files, work
<1>2. AtAnEdit' /\ HasText'
  BY <1>p, <1>u, <1>t, UiIsNoSession DEF TypeInv, AtAnEdit, HasText, work
<1>3. HasRecord'
  BY <1>p, <1>u DEF TypeInv, HasRecord, work
<1>4. UiAt'
  BY <1>p, <1>l, <1>t DEF UiAt, UiHasTarget, UiLabels
<1>5. BackupsExist'
  BY <1>u, BackupsStay DEF TypeInv, files, work
<1>6. QED
  BY <1>1, <1>2, <1>3, <1>4, <1>5 DEF TypeInv

LEMMA ReportTypes == ASSUME TypeInv, Report PROVE TypeInv'
<1>1. history' \subseteq Target
  BY DEF TypeInv, TypeOK, UiAt, UiHasTarget, Report, Finished
<1>2. QED
  BY <1>1, UiIsNoSession, LeaveOnly DEF Report

LEMMA AbortTypes == ASSUME TypeInv, NEW a \in Actors, Abort(a) PROVE TypeInv'
<1>t. TypeOK /\ Leave(a)
  BY DEF TypeInv, Abort
<1>u. UNCHANGED <<remote, backups, time, history, crossed, shared, standing, overtaken>>
  BY DEF Abort, files
<1>f. /\ config' \in Text /\ newest' \in Actors /\ ledger' \in [Sessions -> Seq(Record)]
      /\ \A u \in Sessions : AllKept(ledger[u])'
  <2>1. CASE UNCHANGED files
    BY <2>1, <1>t, LedgersStay DEF TypeInv, TypeOK, files
  <2>2. CASE config' = Torn /\ UNCHANGED <<remote, backups, ledger, newest>>
    BY <2>2, <1>t, LedgersStay DEF TypeInv, TypeOK, Text
  <2>3. CASE /\ pc[a] \in {"save", "pop"}
             /\ ledger' = [ledger EXCEPT ![LedgerOf(a)] = <<>>]
             /\ Written(LedgerOf(a))
             /\ UNCHANGED <<remote, config, backups>>
    <3>1. LedgerOf(a) \in Sessions
      <4>1. CASE pc[a] = "pop"
        BY <4>1, LedgerOfSession
      <4>2. CASE pc[a] = "save"
        BY <4>2, UiIsNoSession DEF TypeInv, UiAt, UiLabels, LedgerOf
      <4>3. QED
        BY <2>3, <4>1, <4>2
    <3>2. <<>> \in Seq(Record) /\ AllKept(<<>>)
      BY DEF AllKept
    <3>3. ledger' \in [Sessions -> Seq(Record)] /\ \A u \in Sessions : AllKept(ledger[u])'
      BY <2>3, <3>1, <3>2, LedgerReplaced
    <3>4. QED
      BY <2>3, <3>1, <3>3, <1>t, UiIsNoSession DEF TypeOK, Written
  <2>4. QED
    BY <2>1, <2>2, <2>3 DEF Abort
<1>1. TypeOK'
  <2>1. WorkType' /\ JobType'
    BY <1>t, LeaveTypes
  <2>2. tally' \in [applies : 0..MaxApplies, requests : 0..MaxRequests, aborts : 0..MaxAborts]
    BY <1>t, TallyType DEF Abort
  <2>3. excused' \subseteq Sessions \X Names
    <3>1. InHand(a) \subseteq Sessions \X Names
      BY <1>t, MadeNames DEF Actors, InHand
    <3>2. excused' \subseteq excused \cup InHand(a) \cup standing
      BY DEF Abort
    <3>3. QED
      BY <3>1, <3>2, <1>t DEF TypeOK
  <2>4. QED
    BY <2>1, <2>2, <2>3, <1>t, <1>u, <1>f DEF TypeOK, WorkType, JobType
<1>2. AtAnEdit' /\ HasText' /\ HasRecord' /\ UiAt'
  BY <1>t, LeaveKeeps
<1>3. BackupsExist'
  BY <1>t, <1>u, <1>f, LeaveBackups
<1>4. QED
  BY <1>1, <1>2, <1>3 DEF TypeInv

-----------------------------------------------------------------------------
(***************************************************************************)
(* The types as a theorem.                                                 *)
(***************************************************************************)
LEMMA StepTypes == ASSUME TypeInv, [Next]_vars PROVE TypeInv'
<1>1. CASE Tick
  BY <1>1, TickTypes
<1>2. ASSUME NEW s \in Sessions, ApplyStep(s) PROVE TypeInv'
  <2>1. ASSUME NEW f \in Fixes, ApplyFix(s, f) \/ RemoteApplyFix(s, f) PROVE TypeInv'
    BY <2>1, StartsTypes
  <2>2. CASE LocalPlan(s)
    BY <2>2, LocalPlanTypes
  <2>3. CASE RemoteTry(s)
    BY <2>3, RemoteTryTypes
  <2>4. CASE EditRead(s)
    BY <2>4, EditReadTypes
  <2>5. CASE Backup(s)
    BY <2>5, BackupTypes
  <2>6. CASE EditWrite(s)
    BY <2>6, EditWriteTypes
  <2>7. CASE Finalize(s)
    BY <2>7, FinalizeTypes
  <2>8. CASE SaveLedger(s)
    BY <2>8, SaveLedgerTypes
  <2>9. CASE RerunLocal(s) \/ RerunRemote(s)
    BY <2>9, JudgeTypes
  <2>10. CASE RollbackLatestApply(s) \/ RemoteRollbackLatestApply(s)
    BY <2>10, UndoesTypes
  <2>11. QED
    BY <1>2, <2>1, <2>2, <2>3, <2>4, <2>5, <2>6, <2>7, <2>8, <2>9, <2>10 DEF ApplyStep
<1>3. ASSUME NEW a \in Actors, RollbackLoad(a) \/ Restore(a) \/ Pop(a) \/ Abort(a) PROVE TypeInv'
  BY <1>3, RollbackLoadTypes, RestoreTypes, PopTypes, AbortTypes
<1>4. ASSUME NEW what \in Available \cup {Latest}, Request(what) PROVE TypeInv'
  BY <1>4, RequestTypes
<1>5. CASE Resolve
  BY <1>5, ResolveTypes
<1>6. CASE Report
  BY <1>6, ReportTypes
<1>7. CASE UNCHANGED vars
  BY <1>7 DEF vars, job, TypeInv, TypeOK, AtAnEdit, HasText, HasRecord, UiAt, UiHasTarget,
              BackupsExist, AllKept, Kept
<1>8. QED
  BY <1>1, <1>2, <1>3, <1>4, <1>5, <1>6, <1>7 DEF Next

LEMMA TypesHold == Spec => []TypeInv
<1>1. Init => TypeInv
  BY InitTypeInv
<1>2. TypeInv /\ [Next]_vars => TypeInv'
  BY StepTypes
<1>3. QED
  BY <1>1, <1>2, PTL DEF Spec

(***************************************************************************)
(* The variables of the model are of their types, for any sessions, fixes, *)
(* edits and bounds (the executors, record files and rollback jobs).       *)
(***************************************************************************)
THEOREM TypeCorrect == Spec => []TypeOK
<1>1. TypeInv => TypeOK
  BY DEF TypeInv
<1>2. QED
  BY <1>1, TypesHold, PTL

-----------------------------------------------------------------------------
(***************************************************************************)
(* What an apply called a success can be undone.                           *)
(***************************************************************************)

\* The edits that must be in a record, and where an actor holds a list that it will write back.
Due == {e \in standing \ (excused \cup overtaken) : e \notin InHand(e[1])}
WritesBack == {"save", "restore", "pop"}

\* They are in the ledger, and in every list of it that somebody will write back.
RecordInv ==
    \A e \in Due :
        /\ RecordedIn(e, ledger[e[1]])
        /\ \A a \in Actors : pc[a] \in WritesBack /\ LedgerOf(a) = e[1] => RecordedIn(e, mem[a])

LEMMA DueHasSession == ASSUME TypeOK PROVE \A e \in Due : e \in standing /\ e[1] \in Sessions
BY DEF TypeOK, Due

LEMMA InHandOfSession ==
  ASSUME TypeInv, NEW a \in Actors
  PROVE  /\ InHand(a) = IF pc[a] \in Hand THEN EditsOf(a, made[a]) ELSE {}
         /\ pc[Ui] \notin Hand
BY UiIsNoSession DEF TypeInv, UiAt, UiLabels, Hand, InHand

\* Nothing new must be recorded when what leaves a hand is excused, and what is written is in hand.
LEMMA DueShrinks ==
  ASSUME \A e \in standing' : e[1] \in Sessions,
         \A u \in Sessions : InHand(u) \subseteq InHand(u)' \cup excused',
         excused \subseteq excused', overtaken \subseteq overtaken',
         \A e \in standing' : e \in standing \/ e \in InHand(e[1])'
  PROVE  Due' \subseteq Due
<1>1. SUFFICES ASSUME NEW e \in Due' PROVE e \in Due
  OBVIOUS
<1>2. /\ e \in standing' /\ e \notin excused' /\ e \notin overtaken' /\ e \notin InHand(e[1])'
  BY DEF Due
<1>3. e \in standing /\ e \notin excused /\ e \notin overtaken /\ e \notin InHand(e[1])
  BY <1>2
<1>4. QED
  BY <1>3 DEF Due

\* A step that makes nothing due keeps the records, if it keeps the ledgers and the lists that
\* are held, or holds what a ledger says.
LEMMA KeptRecords ==
  ASSUME RecordInv, Due' \subseteq Due,
         \A e \in Due' : ledger'[e[1]] = ledger[e[1]] \/ RecordedIn(e, ledger'[e[1]]),
         \A b \in Actors : pc'[b] \in WritesBack =>
            /\ LedgerOf(b)' = LedgerOf(b)
            /\ \/ pc[b] \in WritesBack /\ mem'[b] = mem[b]
               \/ mem'[b] = ledger[LedgerOf(b)]
  PROVE  RecordInv'
<1>1. ASSUME NEW e \in Due' PROVE RecordedIn(e, ledger'[e[1]])
  BY DEF RecordInv
<1>2. ASSUME NEW e \in Due', NEW b \in Actors, pc'[b] \in WritesBack, LedgerOf(b)' = e[1]
      PROVE  RecordedIn(e, mem'[b])
  BY <1>2 DEF RecordInv
<1>3. QED
  BY <1>1, <1>2 DEF RecordInv, RecordedIn, EditsOf

\* One actor moves on.
LEMMA MoveRecords ==
  ASSUME TypeInv, RecordInv, NEW a \in Actors, NEW label,
         pc' = [pc EXCEPT ![a] = label], pc[a] \in Hand => label \in Hand,
         UNCHANGED <<ledger, made, standing, excused, overtaken>>,
         \A b \in Actors : b # a => mem'[b] = mem[b],
         (a = Ui /\ label \notin WritesBack) \/ on' = on,
         label \in WritesBack => \/ pc[a] \in WritesBack /\ mem'[a] = mem[a]
                             \/ mem'[a] = ledger[LedgerOf(a)]
  PROVE  RecordInv'
<1>t. TypeOK
  BY DEF TypeInv
<1>p. \A b \in Actors : pc'[b] = IF b = a THEN label ELSE pc[b]
  BY <1>t DEF TypeOK
<1>1. \A u \in Sessions : InHand(u) \subseteq InHand(u)'
  BY <1>p, UiIsNoSession DEF InHand, EditsOf
<1>2. \A e \in standing' : e \in standing /\ e[1] \in Sessions
  BY <1>t DEF TypeOK
<1>3. Due' \subseteq Due
  BY <1>1, <1>2, DueShrinks
<1>4. ASSUME NEW b \in Actors, pc'[b] \in WritesBack
      PROVE  /\ LedgerOf(b)' = LedgerOf(b)
             /\ \/ pc[b] \in WritesBack /\ mem'[b] = mem[b]
                \/ mem'[b] = ledger[LedgerOf(b)]
  <2>1. LedgerOf(b)' = LedgerOf(b)
    BY <1>4, <1>p DEF LedgerOf
  <2>2. QED
    BY <1>4, <1>p, <2>1
<1>5. QED
  BY <1>3, <1>4, KeptRecords

\* One actor leaves, and what it had in hand is excused.
LEMMA LeaveDue ==
  ASSUME TypeInv, NEW a \in Actors, Leave(a), standing' \subseteq standing, overtaken' = overtaken,
         excused \cup InHand(a) \subseteq excused'
  PROVE  Due' \subseteq Due
<1>t. TypeOK
  BY DEF TypeInv
<1>1. ASSUME NEW u \in Sessions PROVE InHand(u) \subseteq InHand(u)' \cup excused'
  <2>1. CASE u = a
    BY <2>1
  <2>2. CASE u # a
    <3>1. pc'[u] = pc[u] /\ made'[u] = made[u]
      BY <1>t, <2>2, LeaveEffect, UiIsNoSession
    <3>2. QED
      BY <3>1 DEF InHand, EditsOf
  <2>3. QED
    BY <2>1, <2>2
<1>2. \A e \in standing' : e \in standing /\ e[1] \in Sessions
  BY <1>t DEF TypeOK
<1>3. QED
  BY <1>1, <1>2, DueShrinks

LEMMA LeaveLists ==
  ASSUME TypeInv, NEW a \in Actors, Leave(a), NEW b \in Actors, pc'[b] \in WritesBack
  PROVE  b # a /\ LedgerOf(b)' = LedgerOf(b) /\ pc[b] \in WritesBack /\ mem'[b] = mem[b]
<1>t. TypeOK
  BY DEF TypeInv
<1>1. b # a
  BY <1>t, LeaveEffect DEF WritesBack
<1>2. pc'[b] = pc[b] /\ mem'[b] = mem[b] /\ (a # Ui => on' = on)
  BY <1>1, <1>t, LeaveEffect DEF job
<1>3. QED
  BY <1>1, <1>2 DEF LedgerOf

LEMMA LeaveRecords ==
  ASSUME TypeInv, RecordInv, NEW a \in Actors, Leave(a), UNCHANGED <<ledger, standing, overtaken>>,
         excused \cup InHand(a) \subseteq excused'
  PROVE  RecordInv'
BY LeaveDue, LeaveLists, KeptRecords

\* The steps of an apply, but for the one that writes the record.
LEMMA ApplyRecords ==
  ASSUME TypeInv, RecordInv, NEW s \in Sessions, ApplyStep(s), ~SaveLedger(s)
  PROVE  RecordInv'
<1>t. /\ TypeOK /\ s \in Actors /\ s # Ui /\ LedgerOf(s) = s
      /\ pc[s] \in {"read", "write"} => step[s] \in DOMAIN Edits[fix[s]]
  BY UiIsNoSession DEF TypeInv, AtAnEdit, LedgerOf
<1>1. ASSUME NEW f \in Fixes, ApplyFix(s, f) \/ RemoteApplyFix(s, f) PROVE RecordInv'
  <2>1. PICK label \in {"plan", "try", "read"} : Starts(s, f, label)
    BY <1>1 DEF ApplyFix, RemoteApplyFix, LocalStart, RemoteStart
  <2>2. /\ pc[s] \notin Hand /\ pc' = [pc EXCEPT ![s] = label] /\ label \notin WritesBack
        /\ UNCHANGED <<ledger, made, mem, on, standing, excused, overtaken>>
    BY <2>1 DEF Starts, Busy, Hand, WritesBack, Goto, files, job
  <2>3. QED
    BY <2>2, <1>t, MoveRecords
<1>2. CASE RollbackLatestApply(s) \/ RemoteRollbackLatestApply(s)
  <2>1. /\ pc[s] \notin Hand /\ pc' = [pc EXCEPT ![s] = "undo"] /\ "undo" \notin WritesBack
        /\ UNCHANGED <<ledger, made, mem, on, standing, excused, overtaken>>
    BY <1>2 DEF RollbackLatestApply, RemoteRollbackLatestApply, Undoes, Busy, Hand, WritesBack, Goto,
                work, files, job
  <2>2. QED
    BY <2>1, <1>t, MoveRecords
<1>3. CASE LocalPlan(s)
  <2>1. pc[s] = "plan" /\ UNCHANGED <<ledger, made, mem, on, standing, excused, overtaken>>
    BY <1>3 DEF LocalPlan, files, job
  <2>2. PICK label \in {"read", "final"} : pc' = [pc EXCEPT ![s] = label]
    BY <1>3 DEF LocalPlan, Goto
  <2>3. pc[s] \notin Hand /\ label \notin WritesBack
    BY <2>1 DEF Hand, WritesBack
  <2>4. QED
    BY <2>1, <2>2, <2>3, <1>t, MoveRecords
<1>4. CASE RemoteTry(s)
  <2>1. pc[s] = "try" /\ UNCHANGED <<ledger, made, mem, on, standing, excused, overtaken>>
    BY <1>4 DEF RemoteTry, files, job
  <2>2. PICK label \in {"try", "backup", "final"} : pc' = [pc EXCEPT ![s] = label]
    <3>1. pc = [pc EXCEPT ![s] = "try"]
      BY <1>t, <2>1 DEF TypeOK
    <3>2. pc' = [pc EXCEPT ![s] = "backup"] \/ pc' = [pc EXCEPT ![s] = "final"] \/ pc' = pc
      BY <1>4 DEF RemoteTry, Goto
    <3>3. QED
      BY <3>1, <3>2
  <2>3. pc[s] \notin Hand /\ label \notin WritesBack
    BY <2>1 DEF Hand, WritesBack
  <2>4. QED
    BY <2>1, <2>2, <2>3, <1>t, MoveRecords
<1>5. CASE EditRead(s)
  <2>1. pc[s] = "read" /\ UNCHANGED <<ledger, made, mem, on, standing, excused, overtaken>>
    BY <1>5 DEF EditRead, files, job
  <2>2. PICK label \in {"backup", "read", "final"} : pc' = [pc EXCEPT ![s] = label]
    BY <1>5, <1>t, <2>1, NextEditEffect DEF EditRead, Goto
  <2>3. label \in Hand /\ label \notin WritesBack
    BY DEF Hand, WritesBack
  <2>4. QED
    BY <2>1, <2>2, <2>3, <1>t, MoveRecords
<1>6. CASE Backup(s)
  <2> DEFINE edit == [backup |-> Now(s), field |-> TheEdit(s).field, before |-> Torn]
  <2>1. /\ UNCHANGED <<ledger, mem, on, standing, excused, overtaken>>
        /\ \A b \in Actors : pc'[b] = IF b = s THEN "write" ELSE pc[b]
        /\ \A u \in Sessions : made'[u] = IF u = s THEN Append(made[s], edit) ELSE made[u]
    BY <1>6, <1>t DEF TypeOK, Backup, Goto, job
  <2>2. made[s] \in Seq(Edit) /\ edit \in Edit
    <3>1. Now(s) \in Names /\ TheEdit(s).field \in Fields
      BY <1>6, <1>t, NowIsName, EditOfFix DEF TypeInv, AtAnEdit, Backup
    <3>2. QED
      BY <3>1, <1>t DEF Edit, Text, TypeOK
  <2> HIDE DEF edit
  <2>3. EditsOf(s, made[s]) \subseteq EditsOf(s, made'[s])
    <3>0. made'[s] = Append(made[s], edit)
      BY <2>1, <1>t
    <3>1. /\ Len(made'[s]) = Len(made[s]) + 1 /\ made'[s] \in Seq(Edit)
          /\ \A i \in 1..Len(made[s]) : made'[s][i] = made[s][i]
      BY <3>0, <2>2, AppendProperties
    <3>2. \A i \in DOMAIN made[s] : i \in DOMAIN made'[s] /\ made'[s][i] = made[s][i]
      BY <2>2, <3>1
    <3>3. QED
      BY <3>2 DEF EditsOf
  <2>4. ASSUME NEW u \in Sessions PROVE InHand(u) \subseteq InHand(u)'
    <3>1. CASE u = s
      BY <3>1, <2>1, <2>3, <1>t DEF InHand, EditsOf, Hand
    <3>2. CASE u # s
      BY <3>2, <2>1, UiIsNoSession DEF InHand, EditsOf
    <3>3. QED
      BY <3>1, <3>2
  <2>5. Due' \subseteq Due
    BY <2>1, <2>4, <1>t, DueShrinks DEF TypeOK
  <2>6. \A b \in Actors : pc'[b] \in WritesBack =>
           LedgerOf(b)' = LedgerOf(b) /\ pc[b] \in WritesBack /\ mem'[b] = mem[b]
    BY <2>1 DEF LedgerOf, WritesBack
  <2>7. QED
    BY <2>1, <2>5, <2>6, KeptRecords
<1>7. CASE EditWrite(s)
  <2> DEFINE last == made[s][Len(made[s])].backup
  <2>1. PICK label \in {"read", "final"} : pc' = [pc EXCEPT ![s] = label]
    BY <1>7, <1>t, NextEditEffect DEF EditWrite
  <2>2. /\ UNCHANGED <<ledger, mem, on, excused, overtaken>>
        /\ standing' = standing \cup {<<s, last>>}
        /\ \A b \in Actors : pc'[b] = IF b = s THEN label ELSE pc[b]
    BY <1>7, <1>t, <2>1 DEF TypeOK, EditWrite, job
  <2>3. /\ Len(made[s]) \in DOMAIN made[s]
        /\ \A u \in Sessions : /\ DOMAIN made'[u] = DOMAIN made[u]
                               /\ \A k \in DOMAIN made[u] :
                                     made'[u][k].backup = made[u][k].backup
    BY <1>7, WriteMakes
  <2> HIDE DEF last
  <2>4. \A u \in Sessions : EditsOf(u, made'[u]) = EditsOf(u, made[u])
    BY <2>3 DEF EditsOf
  <2>5. ASSUME NEW u \in Sessions PROVE InHand(u) \subseteq InHand(u)'
    BY <2>2, <2>4, <1>t, UiIsNoSession DEF InHand, EditsOf, Hand
  <2>6. <<s, last>> \in InHand(s)'
    <3>1. <<s, last>> \in EditsOf(s, made[s])
      BY <2>3 DEF EditsOf, last
    <3>2. QED
      BY <3>1, <2>2, <2>4, <1>t DEF InHand, EditsOf, Hand
  <2>7. ASSUME NEW e \in standing'
        PROVE  (e \in standing \/ e \in InHand(e[1])') /\ e[1] \in Sessions
    <3>1. CASE e \in standing
      BY <3>1, <1>t DEF TypeOK
    <3>2. CASE e = <<s, last>>
      <4>1. e[1] = s
        BY <3>2
      <4>2. QED
        BY <3>2, <4>1, <2>6
    <3>3. QED
      BY <3>1, <3>2, <2>2
  <2>8. Due' \subseteq Due
    BY <2>2, <2>5, <2>7, DueShrinks
  <2>9. \A b \in Actors : pc'[b] \in WritesBack =>
           LedgerOf(b)' = LedgerOf(b) /\ pc[b] \in WritesBack /\ mem'[b] = mem[b]
    BY <2>2 DEF LedgerOf, WritesBack
  <2>10. QED
    BY <2>2, <2>8, <2>9, KeptRecords
<1>8. CASE Finalize(s)
  <2>1. pc[s] = "final" /\ UNCHANGED <<ledger, standing, overtaken>>
    BY <1>8 DEF Finalize, files
  <2>2. CASE Leave(s) /\ excused' = excused \cup InHand(s)
    BY <2>1, <2>2, <1>t, LeaveRecords
  <2>3. CASE mem' = [mem EXCEPT ![s] = ledger[s]] /\ Goto(s, "save") /\ UNCHANGED <<work, job, excused>>
    <3>1. /\ "save" \in Hand /\ UNCHANGED <<made, on, excused>>
          /\ mem'[s] = ledger[s] /\ \A b \in Actors : b # s => mem'[b] = mem[b]
      BY <2>3, <1>t DEF TypeOK, Hand, work, job
    <3>2. QED
      BY <2>1, <2>3, <3>1, <1>t, MoveRecords DEF Goto
  <2>4. CASE ok[s] /\ ~Recordable(s) /\ Goto(s, "rerun") /\ UNCHANGED <<work, mem, job, excused>>
    <3>1. /\ made[s] = <<>> /\ UNCHANGED <<made, mem, on, excused>>
          /\ \A b \in Actors : pc'[b] = IF b = s THEN "rerun" ELSE pc[b]
      BY <2>4, <1>t DEF TypeOK, Recordable, work, job, Goto
    <3>2. ASSUME NEW u \in Sessions PROVE InHand(u) \subseteq InHand(u)'
      <4>1. CASE u = s
        <5>1. EditsOf(s, <<>>) = {}
          BY DEF EditsOf
        <5>2. QED
          BY <4>1, <3>1, <5>1 DEF InHand
      <4>2. CASE u # s
        BY <4>2, <3>1, UiIsNoSession DEF InHand, EditsOf
      <4>3. QED
        BY <4>1, <4>2
    <3>3. Due' \subseteq Due
      BY <2>1, <3>1, <3>2, <1>t, DueShrinks DEF TypeOK
    <3>4. \A b \in Actors : pc'[b] \in WritesBack =>
             LedgerOf(b)' = LedgerOf(b) /\ pc[b] \in WritesBack /\ mem'[b] = mem[b]
      BY <3>1 DEF LedgerOf, WritesBack
    <3>5. QED
      BY <2>1, <3>3, <3>4, KeptRecords
  <2>5. QED
    BY <1>8, <2>2, <2>3, <2>4 DEF Finalize
<1>9. CASE RerunLocal(s) \/ RerunRemote(s)
  <2>1. pc[s] = "rerun" /\ UNCHANGED <<ledger, standing, excused, overtaken>>
    BY <1>9 DEF RerunLocal, RerunRemote, Judge, files
  <2>2. pc[s] \notin Hand /\ InHand(s) = {}
    BY <2>1 DEF Hand, InHand
  <2>3. CASE Leave(s)
    BY <2>1, <2>2, <2>3, <1>t, LeaveRecords
  <2>4. CASE Goto(s, "undo") /\ UNCHANGED <<work, mem, job>>
    <3>1. "undo" \notin WritesBack /\ UNCHANGED <<made, mem, on>>
      BY <2>4 DEF WritesBack, work, job
    <3>2. QED
      BY <2>1, <2>2, <2>4, <3>1, <1>t, MoveRecords DEF Goto
  <2>5. QED
    BY <1>9, <2>3, <2>4 DEF RerunLocal, RerunRemote, Judge
<1>10. QED
  BY <1>1, <1>2, <1>3, <1>4, <1>5, <1>6, <1>7, <1>8, <1>9 DEF ApplyStep

\* What is in a list is in the longer one, and in the shorter one if the last record has it not.
LEMMA RecordedLonger ==
  ASSUME NEW records \in Seq(Record), NEW record \in Record, NEW e
  PROVE  /\ RecordedIn(e, records) => RecordedIn(e, Append(records, record))
         /\ e \in EditsOf(e[1], record.edits) => RecordedIn(e, Append(records, record))
<1> DEFINE longer == Append(records, record)
<1>1. /\ longer \in Seq(Record) /\ Len(longer) = Len(records) + 1
      /\ \A i \in 1..Len(records) : longer[i] = records[i]
      /\ longer[Len(records) + 1] = record
  BY AppendProperties
<1> HIDE DEF longer
<1>2. /\ Len(records) + 1 \in DOMAIN longer
      /\ \A i \in DOMAIN records : i \in DOMAIN longer /\ longer[i] = records[i]
  BY <1>1
<1>3. QED
  BY <1>1, <1>2 DEF RecordedIn, longer

LEMMA RecordedShorter ==
  ASSUME NEW records \in Seq(Record), records # <<>>, NEW e, RecordedIn(e, records),
         e \notin EditsOf(e[1], LastOf(records).edits)
  PROVE  RecordedIn(e, FrontOf(records))
<1>1. PICK i \in DOMAIN records : e \in EditsOf(e[1], records[i].edits)
  BY DEF RecordedIn
<1>2. i # Len(records)
  BY <1>1 DEF LastOf
<1>3. /\ Len(records) \in Nat /\ i \in 1..(Len(records) - 1)
      /\ DOMAIN FrontOf(records) = 1..(Len(records) - 1)
      /\ FrontOf(records)[i] = records[i]
  BY <1>2 DEF FrontOf
<1>4. QED
  BY <1>1, <1>3 DEF RecordedIn

\* The record is written: what was in hand is in it, unless the job has an older list.
LEMMA SaveRecords ==
  ASSUME TypeInv, RecordInv, NEW s \in Sessions, SaveLedger(s)
  PROVE  RecordInv'
<1> DEFINE record == [fix |-> fix[s], edits |-> made[s]]
<1>t. /\ TypeOK /\ s \in Actors /\ s # Ui /\ LedgerOf(s) = s /\ pc[s] = "save"
      /\ mem[s] \in Seq(Record) /\ record \in Record /\ record.edits = made[s]
  BY UiIsNoSession DEF TypeInv, TypeOK, LedgerOf, SaveLedger, Record
<1>s. ledger'[s] = Append(mem[s], record)
  BY <1>t DEF TypeOK, SaveLedger
<1> HIDE DEF record
<1>1. /\ UNCHANGED <<made, mem, on, standing, excused>>
      /\ \A b \in Actors : pc'[b] = IF b = s THEN "rerun" ELSE pc[b]
      /\ \A u \in Sessions : u # s => ledger'[u] = ledger[u]
      /\ overtaken' = IF HeldByJob(s) THEN overtaken \cup InHand(s) ELSE overtaken
  BY <1>t DEF TypeOK, SaveLedger, Goto, work, job
<1>h. InHand(s) = EditsOf(s, made[s])
  BY <1>t DEF InHand, Hand
<1>2. ASSUME NEW e \in Due'
      PROVE  /\ e[1] \in Sessions
             /\ e \in Due \/ (e[1] = s /\ e \in EditsOf(s, made[s]) /\ ~HeldByJob(s))
  <2>1. /\ e \in standing /\ e \notin excused /\ e \notin overtaken' /\ e \notin InHand(e[1])'
    BY <1>1 DEF Due
  <2>2. e[1] \in Sessions /\ e \notin overtaken
    BY <2>1, <1>1, <1>t DEF TypeOK
  <2>3. CASE e[1] = s
    <3>1. CASE e \in InHand(s)
      <4>1. ~HeldByJob(s)
        BY <3>1, <2>1, <1>1
      <4>2. QED
        BY <2>3, <3>1, <4>1, <1>h, <2>2
    <3>2. CASE e \notin InHand(s)
      <4>1. e \notin InHand(e[1])
        BY <3>2, <2>3
      <4>2. e \in Due
        BY <4>1, <2>1, <2>2 DEF Due
      <4>3. QED
        BY <4>2, <2>2
    <3>3. QED
      BY <3>1, <3>2
  <2>4. CASE e[1] # s
    <3>1. e \notin InHand(e[1])
      BY <2>1, <2>2, <2>4, <1>1, UiIsNoSession DEF InHand, EditsOf
    <3>2. e \in Due
      BY <2>1, <2>2, <3>1 DEF Due
    <3>3. QED
      BY <3>2, <2>2
  <2>5. QED
    BY <2>3, <2>4
<1>3. ASSUME NEW e \in Due' PROVE RecordedIn(e, ledger'[e[1]])
  <2>1. CASE e[1] = s
    <3>1. RecordedIn(e, mem[s]) \/ e \in EditsOf(e[1], record.edits)
      BY <1>2, <1>t, <2>1 DEF RecordInv, WritesBack
    <3>2. QED
      BY <3>1, <2>1, <1>s, <1>t, RecordedLonger
  <2>2. CASE e[1] # s
    BY <2>2, <1>1, <1>2 DEF RecordInv
  <2>3. QED
    BY <2>1, <2>2
<1>4. ASSUME NEW e \in Due', NEW b \in Actors, pc'[b] \in WritesBack, LedgerOf(b)' = e[1]
      PROVE  RecordedIn(e, mem'[b])
  <2>1. b # s /\ pc[b] \in WritesBack /\ LedgerOf(b) = e[1] /\ mem'[b] = mem[b]
    BY <1>4, <1>1 DEF LedgerOf, WritesBack
  <2>2. e \in Due
    <3>1. CASE b = Ui
      <4>1. pc[Ui] \in {"restore", "pop"} /\ on = e[1]
        BY <2>1, <3>1 DEF WritesBack, LedgerOf, TypeInv, UiAt, UiLabels
      <4>2. QED
        BY <4>1, <1>2 DEF HeldByJob
    <3>2. CASE b # Ui
      BY <2>1, <3>2, <1>2 DEF LedgerOf
    <3>3. QED
      BY <3>1, <3>2
  <2>3. QED
    BY <2>1, <2>2 DEF RecordInv
<1>5. QED
  BY <1>3, <1>4 DEF RecordInv, RecordedIn, EditsOf

\* A rollback writes back the list it held, less the record whose edits it took back.
LEMMA PopRecords ==
  ASSUME TypeInv, RecordInv, NEW a \in Actors, Pop(a)
  PROVE  RecordInv'
<1> DEFINE s == LedgerOf(a)
<1>t. /\ TypeOK /\ pc[a] = "pop" /\ mem[a] \in Seq(Record) /\ mem[a] # <<>> /\ s \in Sessions
  BY LedgerOfSession DEF TypeInv, TypeOK, HasRecord, Pop
<1>1. /\ ledger'[s] = FrontOf(mem[a])
      /\ \A u \in Sessions : u # s => ledger'[u] = ledger[u]
      /\ standing' = standing \ EditsOf(s, LastOf(mem[a]).edits)
      /\ UNCHANGED <<excused, overtaken>>
  BY <1>t DEF TypeOK, Pop
<1>l. LedgerOf(a) = s
  OBVIOUS
<1> HIDE DEF s
<1>2. /\ Due' \subseteq Due
      /\ \A b \in Actors : pc'[b] \in WritesBack =>
            LedgerOf(b)' = LedgerOf(b) /\ pc[b] \in WritesBack /\ mem'[b] = mem[b]
  <2>1. CASE Leave(a)
    <3>1. InHand(a) = {} /\ standing' \subseteq standing
      BY <1>1, <1>t DEF InHand, Hand
    <3>2. QED
      BY <2>1, <3>1, <1>1, LeaveDue, LeaveLists
  <2>2. CASE a = Ui /\ Goto(Ui, "report") /\ UNCHANGED <<work, mem, job>>
    <3>1. /\ \A b \in Actors : pc'[b] = IF b = Ui THEN "report" ELSE pc[b]
          /\ UNCHANGED <<made, mem, on>>
      BY <2>2, <1>t DEF TypeOK, Goto, work, job
    <3>2. \A u \in Sessions : InHand(u) \subseteq InHand(u)'
      BY <3>1, UiIsNoSession DEF InHand, EditsOf
    <3>3. \A e \in standing' : e \in standing /\ e[1] \in Sessions
      BY <1>1, <1>t DEF TypeOK
    <3>4. Due' \subseteq Due
      BY <1>1, <3>2, <3>3, DueShrinks
    <3>5. QED
      BY <3>1, <3>4 DEF LedgerOf, WritesBack
  <2>3. QED
    BY <2>1, <2>2 DEF Pop
<1>3. ASSUME NEW e \in Due' PROVE ledger'[e[1]] = ledger[e[1]] \/ RecordedIn(e, ledger'[e[1]])
  <2>1. e \in Due /\ e[1] \in Sessions
    BY <1>2, <1>t, DueHasSession
  <2>2. CASE e[1] = s
    <3>1. RecordedIn(e, mem[a])
      BY <2>1, <2>2, <1>t, <1>l DEF RecordInv, WritesBack
    <3>2. e \notin EditsOf(e[1], LastOf(mem[a]).edits)
      BY <1>1, <2>2 DEF Due
    <3>3. QED
      BY <3>1, <3>2, <2>2, <1>1, <1>t, RecordedShorter
  <2>3. CASE e[1] # s
    BY <2>1, <2>3, <1>1
  <2>4. QED
    BY <2>2, <2>3
<1>4. QED
  BY <1>2, <1>3, KeptRecords

\* An abort excuses what was in hand, and what stood when it cut a ledger short.
LEMMA AbortRecords ==
  ASSUME TypeInv, RecordInv, NEW a \in Actors, Abort(a)
  PROVE  RecordInv'
<1>t. TypeOK /\ Leave(a) /\ UNCHANGED <<standing, overtaken>>
  BY DEF TypeInv, Abort
<1>1. CASE UNCHANGED ledger /\ excused' = excused \cup InHand(a)
  BY <1>1, <1>t, LeaveRecords
<1>2. CASE /\ ledger' = [ledger EXCEPT ![LedgerOf(a)] = <<>>]
           /\ excused' = excused \cup InHand(a) \cup {e \in standing : e[1] = LedgerOf(a)}
  <2>1. Due' \subseteq Due
    BY <1>2, <1>t, LeaveDue
  <2>2. ASSUME NEW e \in Due' PROVE ledger'[e[1]] = ledger[e[1]]
    <3>1. e \in standing /\ e \notin excused' /\ e[1] \in Sessions
      BY <2>1, <1>t, DueHasSession DEF Due
    <3>2. e[1] # LedgerOf(a)
      BY <3>1, <1>2
    <3>3. QED
      BY <3>1, <3>2, <1>2, <1>t DEF TypeOK
  <2>3. QED
    BY <2>1, <2>2, <1>t, LeaveLists, KeptRecords
<1>3. QED
  BY <1>1, <1>2 DEF Abort, files

LEMMA UndoRecords ==
  ASSUME TypeInv, RecordInv, NEW a \in Actors, RollbackLoad(a) \/ Restore(a)
  PROVE  RecordInv'
<1>t. TypeOK
  BY DEF TypeInv
<1>1. CASE RollbackLoad(a)
  <2>1. pc[a] = "undo" /\ UNCHANGED <<ledger, standing, excused, overtaken>>
    BY <1>1 DEF RollbackLoad, files
  <2>2. pc[a] \notin Hand /\ InHand(a) = {}
    BY <2>1 DEF Hand, InHand
  <2>3. CASE Leave(a)
    BY <2>1, <2>2, <2>3, LeaveRecords
  <2>4. CASE mem' = [mem EXCEPT ![a] = ledger[LedgerOf(a)]] /\ Goto(a, "restore") /\ UNCHANGED <<made, job>>
    <3>1. /\ mem'[a] = ledger[LedgerOf(a)] /\ \A b \in Actors : b # a => mem'[b] = mem[b]
          /\ on' = on
      BY <2>4, <1>t DEF TypeOK, job
    <3>2. QED
      BY <2>1, <2>2, <2>4, <3>1, MoveRecords DEF Goto
  <2>5. QED
    BY <1>1, <2>3, <2>4 DEF RollbackLoad
<1>2. CASE Restore(a)
  <2>1. pc[a] = "restore" /\ UNCHANGED <<ledger, made, mem, on, standing, excused, overtaken>>
    BY <1>2 DEF Restore, job
  <2>2. PICK label : pc' = [pc EXCEPT ![a] = label]
    <3>1. pc = [pc EXCEPT ![a] = pc[a]]
      BY <1>t DEF TypeOK
    <3>2. pc' = [pc EXCEPT ![a] = "pop"] \/ pc' = pc
      BY <1>2 DEF Restore, Goto
    <3>3. QED
      BY <3>1, <3>2
  <2>3. pc[a] \notin Hand /\ pc[a] \in WritesBack
    BY <2>1 DEF Hand, WritesBack
  <2>4. QED
    BY <2>1, <2>2, <2>3, MoveRecords
<1>3. QED
  BY <1>1, <1>2

LEMMA StepRecords == ASSUME TypeInv, RecordInv, [Next]_vars PROVE RecordInv'
<1>t. Ui \in Actors /\ TypeOK /\ pc[Ui] \notin Hand
  BY UiIsNoSession, InHandOfSession DEF TypeInv
<1>s. ASSUME UNCHANGED <<ledger, made, mem, pc, on, standing, excused, overtaken>> PROVE RecordInv'
  <2>1. pc' = [pc EXCEPT ![Ui] = pc[Ui]]
    BY <1>s, <1>t DEF TypeOK
  <2>2. QED
    BY <1>s, <1>t, <2>1, MoveRecords
<1>1. CASE Tick
  BY <1>1, <1>s DEF Tick, work, files, job
<1>2. ASSUME NEW what \in Available \cup {Latest}, Request(what) PROVE RecordInv'
  <2>1. /\ pc' = [pc EXCEPT ![Ui] = "queued"] /\ "queued" \notin WritesBack
        /\ UNCHANGED <<ledger, made, mem, on, standing, excused, overtaken>>
    BY <1>2 DEF Request, Goto, work, files, WritesBack
  <2>2. QED
    BY <2>1, <1>t, MoveRecords
<1>3. CASE Resolve
  <2>1. UNCHANGED <<ledger, made, mem, standing, excused, overtaken>>
    BY <1>3 DEF Resolve, work, files
  <2>2. PICK label \in {"undo", "idle"} : pc' = [pc EXCEPT ![Ui] = label]
    BY <1>3 DEF Resolve, Goto
  <2>3. label \notin WritesBack
    BY DEF WritesBack
  <2>4. QED
    BY <2>1, <2>2, <2>3, <1>t, MoveRecords
<1>4. CASE Report
  <2>1. Leave(Ui) /\ InHand(Ui) = {} /\ UNCHANGED <<ledger, standing, excused, overtaken>>
    BY <1>4, <1>t DEF Report, files, InHand
  <2>2. QED
    BY <2>1, <1>t, LeaveRecords
<1>5. CASE UNCHANGED vars
  BY <1>5, <1>s DEF vars
<1>6. ASSUME NEW s \in Sessions, ApplyStep(s) PROVE RecordInv'
  BY <1>6, ApplyRecords, SaveRecords
<1>7. ASSUME NEW a \in Actors, RollbackLoad(a) \/ Restore(a) \/ Pop(a) \/ Abort(a) PROVE RecordInv'
  BY <1>7, UndoRecords, PopRecords, AbortRecords
<1>8. QED
  BY <1>1, <1>2, <1>3, <1>4, <1>5, <1>6, <1>7 DEF Next

(***************************************************************************)
(* However sessions, rollback jobs, failures and crashes interleave, and   *)
(* whatever list of a ledger they write back, an edit that was written and *)
(* not taken back is in a record of its ledger, unless its apply is not    *)
(* over, failed or died, the write of the ledger was cut short, or its     *)
(* record was saved while a rollback job held an older list                *)
(* (_append_record, _save_records, rollback_latest).                       *)
(***************************************************************************)
THEOREM EditsStayRecorded == Spec => []EditsAreRecorded
<1>1. Init => RecordInv
  BY DEF Init, RecordInv, Due
<1>2. TypeInv /\ RecordInv /\ [Next]_vars => RecordInv'
  BY StepRecords
<1>3. RecordInv => EditsAreRecorded
  BY DEF RecordInv, Due, EditsAreRecorded
<1>4. QED
  BY <1>1, <1>2, <1>3, TypesHold, PTL DEF Spec

-----------------------------------------------------------------------------
(***************************************************************************)
(* What the rollback job pops.                                             *)
(***************************************************************************)

\* What a step of a session leaves alone: the job, and the other sessions.
SessionStep(s) ==
    /\ UNCHANGED <<on, asked, target>>
    /\ pc'[Ui] = pc[Ui] /\ mem'[Ui] = mem[Ui]
    /\ shared \subseteq shared'
    /\ \A u \in Sessions \ {s} : pc'[u] = pc[u] /\ ledger'[u] = ledger[u]
    /\ ~AtWork(s) /\ AtWork(Ui) /\ on = s => s \in shared'

LEMMA BegunStep ==
  ASSUME TypeInv, NEW s \in Sessions, NEW label, pc' = [pc EXCEPT ![s] = label],
         shared' = (IF AtWork(Ui) /\ on = s THEN shared \cup {s} ELSE shared),
         UNCHANGED <<ledger, mem, job>>
  PROVE  SessionStep(s)
BY UiIsNoSession DEF TypeInv, TypeOK, SessionStep, job

LEMMA MovedStep ==
  ASSUME TypeInv, NEW s \in Sessions, AtWork(s),
         NEW label, pc' = [pc EXCEPT ![s] = label], mem'[Ui] = mem[Ui],
         ledger' = ledger \/ \E list : ledger' = [ledger EXCEPT ![s] = list],
         UNCHANGED <<job, shared>>
  PROVE  SessionStep(s)
BY UiIsNoSession DEF TypeInv, TypeOK, SessionStep, job

LEMMA LeftStep ==
  ASSUME TypeInv, NEW s \in Sessions, AtWork(s), Leave(s),
         ledger' = ledger \/ \E list : ledger' = [ledger EXCEPT ![s] = list],
         UNCHANGED shared
  PROVE  SessionStep(s)
<1>1. s \in Actors /\ s # Ui /\ Ui \in Actors /\ Sessions \subseteq Actors
  BY UiIsNoSession
<1>2. UNCHANGED job /\ pc'[Ui] = pc[Ui] /\ mem'[Ui] = mem[Ui]
      /\ \A u \in Sessions \ {s} : pc'[u] = pc[u]
  BY <1>1, LeaveEffect DEF TypeInv
<1>3. \A u \in Sessions \ {s} : ledger'[u] = ledger[u]
  BY DEF TypeInv, TypeOK
<1>4. QED
  BY <1>2, <1>3 DEF SessionStep, job

LEMMA ApplyIsSessionStep ==
  ASSUME TypeInv, NEW s \in Sessions, ApplyStep(s) PROVE SessionStep(s)
<1>t. /\ TypeOK /\ s \in Actors /\ s # Ui /\ pc = [pc EXCEPT ![s] = pc[s]]
      /\ pc[s] \in {"read", "write"} => step[s] \in DOMAIN Edits[fix[s]]
  BY UiIsNoSession DEF TypeInv, TypeOK, AtAnEdit
<1>1. ASSUME NEW f \in Fixes, ApplyFix(s, f) \/ RemoteApplyFix(s, f) PROVE SessionStep(s)
  <2>1. PICK label \in {"plan", "try", "read"} : Starts(s, f, label)
    BY <1>1 DEF ApplyFix, RemoteApplyFix, LocalStart, RemoteStart
  <2>2. QED
    BY <2>1, BegunStep DEF Starts, Goto, files
<1>2. CASE RollbackLatestApply(s) \/ RemoteRollbackLatestApply(s)
  BY <1>2, BegunStep DEF RollbackLatestApply, RemoteRollbackLatestApply, Undoes, Goto, files
<1>3. CASE LocalPlan(s)
  <2>1. AtWork(s) /\ UNCHANGED <<ledger, mem, job, shared>>
    BY <1>3 DEF LocalPlan, AtWork, files
  <2>2. PICK label : pc' = [pc EXCEPT ![s] = label]
    BY <1>3 DEF LocalPlan, Goto
  <2>3. QED
    BY <2>1, <2>2, MovedStep
<1>4. CASE RemoteTry(s)
  <2>1. AtWork(s) /\ UNCHANGED <<ledger, mem, job, shared>>
    BY <1>4 DEF RemoteTry, AtWork, files
  <2>2. PICK label : pc' = [pc EXCEPT ![s] = label]
    <3>1. pc' = [pc EXCEPT ![s] = "backup"] \/ pc' = [pc EXCEPT ![s] = "final"] \/ pc' = pc
      BY <1>4 DEF RemoteTry, Goto
    <3>2. QED
      BY <3>1, <1>t
  <2>3. QED
    BY <2>1, <2>2, MovedStep
<1>5. CASE EditRead(s)
  <2>1. pc[s] = "read" /\ AtWork(s) /\ UNCHANGED <<ledger, mem, job, shared>>
    BY <1>5 DEF EditRead, AtWork, files
  <2>2. PICK label : pc' = [pc EXCEPT ![s] = label]
    BY <1>5, <1>t, <2>1, NextEditEffect DEF EditRead, Goto
  <2>3. QED
    BY <2>1, <2>2, MovedStep
<1>6. CASE Backup(s)
  <2>1. AtWork(s) /\ UNCHANGED <<ledger, mem, job, shared>> /\ pc' = [pc EXCEPT ![s] = "write"]
    BY <1>6 DEF Backup, AtWork, Goto
  <2>2. QED
    BY <2>1, MovedStep
<1>7. CASE EditWrite(s)
  <2>1. AtWork(s) /\ UNCHANGED <<ledger, mem, job, shared>>
    BY <1>7 DEF EditWrite, AtWork
  <2>2. PICK label : pc' = [pc EXCEPT ![s] = label]
    BY <1>7, <1>t, NextEditEffect DEF EditWrite
  <2>3. QED
    BY <2>1, <2>2, MovedStep
<1>8. CASE Finalize(s)
  <2>1. AtWork(s) /\ UNCHANGED <<ledger, shared>>
    BY <1>8 DEF Finalize, AtWork, files
  <2>2. CASE Leave(s)
    BY <2>1, <2>2, LeftStep
  <2>3. CASE Goto(s, "save") /\ mem' = [mem EXCEPT ![s] = ledger[s]] /\ UNCHANGED job
    <3>1. mem'[Ui] = mem[Ui]
      BY <2>3, <1>t, UiIsNoSession DEF TypeOK
    <3>2. QED
      BY <2>1, <2>3, <3>1, MovedStep DEF Goto
  <2>4. CASE Goto(s, "rerun") /\ UNCHANGED <<mem, job>>
    BY <2>1, <2>4, MovedStep DEF Goto
  <2>5. QED
    BY <1>8, <2>2, <2>3, <2>4 DEF Finalize
<1>9. CASE SaveLedger(s)
  <2>1. /\ AtWork(s) /\ UNCHANGED <<mem, job, shared>> /\ pc' = [pc EXCEPT ![s] = "rerun"]
        /\ \E list : ledger' = [ledger EXCEPT ![s] = list]
    BY <1>9 DEF SaveLedger, AtWork, Goto
  <2>2. QED
    BY <2>1, MovedStep
<1>10. CASE RerunLocal(s) \/ RerunRemote(s)
  <2>1. AtWork(s) /\ UNCHANGED <<ledger, shared>>
    BY <1>10 DEF RerunLocal, RerunRemote, Judge, AtWork, files
  <2>2. CASE Leave(s)
    BY <2>1, <2>2, LeftStep
  <2>3. CASE Goto(s, "undo") /\ UNCHANGED <<mem, job>>
    BY <2>1, <2>3, MovedStep DEF Goto
  <2>4. QED
    BY <1>10, <2>2, <2>3 DEF RerunLocal, RerunRemote, Judge
<1>11. QED
  BY <1>1, <1>2, <1>3, <1>4, <1>5, <1>6, <1>7, <1>8, <1>9, <1>10 DEF ApplyStep

LEMMA UndoIsSessionStep ==
  ASSUME TypeInv, NEW s \in Sessions, RollbackLoad(s) \/ Restore(s) \/ Pop(s) \/ Abort(s)
  PROVE  SessionStep(s)
<1>t. /\ TypeOK /\ s \in Actors /\ s # Ui /\ LedgerOf(s) = s /\ pc = [pc EXCEPT ![s] = pc[s]]
  BY UiIsNoSession DEF TypeInv, TypeOK, LedgerOf
<1>1. CASE RollbackLoad(s)
  <2>1. AtWork(s) /\ UNCHANGED <<ledger, shared>>
    BY <1>1 DEF RollbackLoad, AtWork, files
  <2>2. CASE Leave(s)
    BY <2>1, <2>2, LeftStep
  <2>3. CASE Goto(s, "restore") /\ mem' = [mem EXCEPT ![s] = ledger[s]] /\ UNCHANGED job
    <3>1. mem'[Ui] = mem[Ui]
      BY <2>3, <1>t, UiIsNoSession DEF TypeOK
    <3>2. QED
      BY <2>1, <2>3, <3>1, MovedStep DEF Goto
  <2>4. QED
    BY <1>1, <1>t, <2>2, <2>3 DEF RollbackLoad
<1>2. CASE Restore(s)
  <2>1. AtWork(s) /\ UNCHANGED <<ledger, mem, job, shared>>
    BY <1>2 DEF Restore, AtWork
  <2>2. PICK label : pc' = [pc EXCEPT ![s] = label]
    <3>1. pc' = [pc EXCEPT ![s] = "pop"] \/ pc' = pc
      BY <1>2 DEF Restore, Goto
    <3>2. QED
      BY <3>1, <1>t
  <2>3. QED
    BY <2>1, <2>2, MovedStep
<1>3. CASE Pop(s)
  <2>1. /\ AtWork(s) /\ Leave(s) /\ UNCHANGED shared
        /\ \E list : ledger' = [ledger EXCEPT ![s] = list]
    BY <1>3, <1>t DEF Pop, AtWork
  <2>2. QED
    BY <2>1, LeftStep
<1>4. CASE Abort(s)
  <2>1. /\ AtWork(s) /\ Leave(s) /\ UNCHANGED shared
        /\ ledger' = ledger \/ \E list : ledger' = [ledger EXCEPT ![s] = list]
    BY <1>4, <1>t DEF Abort, files
  <2>2. QED
    BY <2>1, LeftStep
<1>5. QED
  BY <1>1, <1>2, <1>3, <1>4

\* No step of a session disturbs what the job holds, but one that is counted as shared.
LEMMA SessionHolds ==
  ASSUME TypeInv, UiHolds, NEW s \in Sessions, SessionStep(s) PROVE UiHolds'
<1>1. SUFFICES ASSUME UiHasTarget', pc'[Ui] # "report", on' \notin shared'
               PROVE  /\ ~AtWork(on)'
                      /\ ledger'[on'] # <<>>
                      /\ target' = [session |-> on', index |-> Len(ledger'[on']),
                                    record |-> LastOf(ledger'[on'])]
                      /\ asked' \in {Latest, target'}
                      /\ pc'[Ui] \in {"restore", "pop"} => mem'[Ui] = ledger'[on']
  BY DEF UiHolds
<1>2. UiHasTarget /\ pc[Ui] # "report" /\ on \notin shared /\ on \in Sessions
  BY <1>1 DEF SessionStep, UiHasTarget, TypeInv, UiAt
<1>3. /\ ~AtWork(on) /\ ledger[on] # <<>>
      /\ target = [session |-> on, index |-> Len(ledger[on]), record |-> LastOf(ledger[on])]
      /\ asked \in {Latest, target}
      /\ pc[Ui] \in {"restore", "pop"} => mem[Ui] = ledger[on]
  BY <1>2 DEF UiHolds
<1>4. on # s
  <2>1. AtWork(Ui)
    BY <1>2 DEF AtWork, UiHasTarget
  <2>2. QED
    BY <1>1, <1>3, <2>1 DEF SessionStep
<1>5. pc'[on] = pc[on] /\ ledger'[on] = ledger[on]
  BY <1>2, <1>4 DEF SessionStep
<1>6. QED
  BY <1>3, <1>5 DEF SessionStep, AtWork

\* The steps of the job.
LEMMA ResolveHolds == ASSUME TypeInv, Resolve PROVE UiHolds'
<1>t. TypeOK /\ Ui \in Actors /\ Ui \notin Sessions /\ Sessions \subseteq Actors
  BY UiIsNoSession DEF TypeInv
<1>1. ASSUME NEW t \in LatestTargets, Meets(t), target' = t, on' = t.session,
             shared' = (IF AtWork(t.session) THEN shared \cup {t.session} ELSE shared),
             Goto(Ui, "undo"), UNCHANGED <<asked, ledger>>
      PROVE  UiHolds'
  <2>1. /\ t.session \in Sessions /\ ledger[t.session] # <<>>
        /\ t = [session |-> t.session, index |-> Len(ledger[t.session]),
                record |-> LastOf(ledger[t.session])]
    BY <1>t, LatestIsLast
  <2>2. pc'[t.session] = pc[t.session] /\ pc'[Ui] = "undo"
    BY <1>1, <1>t, <2>1 DEF Goto, TypeOK
  <2>3. on' \notin shared' => ~AtWork(on)'
    BY <1>1, <2>2 DEF AtWork
  <2>4. ledger'[on'] # <<>> /\ target' = [session |-> on', index |-> Len(ledger'[on']),
                                          record |-> LastOf(ledger'[on'])]
    <3>1. ledger'[on'] = ledger[t.session]
      BY <1>1
    <3>2. QED
      BY <1>1, <2>1, <3>1
  <2>5. asked' \in {Latest, target'}
    BY <1>1 DEF Meets
  <2>6. QED
    BY <2>2, <2>3, <2>4, <2>5 DEF UiHolds
<1>2. CASE Goto(Ui, "idle")
  BY <1>2, <1>t DEF Goto, TypeOK, UiHolds, UiHasTarget
<1>3. QED
  BY <1>1, <1>2 DEF Resolve, files

LEMMA JobHolds ==
  ASSUME TypeInv, UiHolds, RollbackLoad(Ui) \/ Restore(Ui) \/ Pop(Ui) \/ Abort(Ui)
  PROVE  UiHolds'
<1>t. /\ TypeOK /\ Ui \in Actors /\ Ui \notin Sessions /\ Sessions \subseteq Actors
      /\ LedgerOf(Ui) = on
  BY UiIsNoSession DEF TypeInv, LedgerOf
<1>1. CASE pc'[Ui] \in {"idle", "report"}
  BY <1>1 DEF UiHolds, UiHasTarget
<1>2. CASE RollbackLoad(Ui) /\ pc'[Ui] # "idle"
  <2>1. /\ pc[Ui] = "undo" /\ pc' = [pc EXCEPT ![Ui] = "restore"]
        /\ mem' = [mem EXCEPT ![Ui] = ledger[on]]
        /\ UNCHANGED <<ledger, on, asked, target, shared>>
    BY <1>2, <1>t, LeaveEffect DEF RollbackLoad, Goto, files, job
  <2>2. on \in Sessions
    BY <2>1 DEF TypeInv, UiAt, UiHasTarget
  <2>3. pc'[on] = pc[on] /\ mem'[Ui] = ledger[on]
    BY <1>t, <2>1, <2>2 DEF TypeOK
  <2>4. QED
    BY <2>1, <2>3 DEF UiHolds, UiHasTarget, AtWork
<1>3. CASE Restore(Ui)
  <2>1. /\ pc[Ui] = "restore" /\ pc' \in {pc, [pc EXCEPT ![Ui] = "pop"]}
        /\ UNCHANGED <<ledger, mem, on, asked, target, shared>>
    BY <1>3 DEF Restore, Goto, job
  <2>2. on \in Sessions
    BY <2>1 DEF TypeInv, UiAt, UiHasTarget
  <2>3. pc'[on] = pc[on] /\ pc'[Ui] \in {"restore", "pop"}
    BY <1>t, <2>1, <2>2 DEF TypeOK
  <2>4. QED
    BY <2>1, <2>3 DEF UiHolds, UiHasTarget, AtWork
<1>4. CASE Pop(Ui)
  BY <1>1, <1>4, <1>t DEF Pop, Goto, TypeOK
<1>5. CASE Abort(Ui)
  BY <1>1, <1>5, <1>t, LeaveEffect DEF Abort
<1>6. QED
  BY <1>1, <1>2, <1>3, <1>4, <1>5

LEMMA StepHolds == ASSUME TypeInv, UiHolds, [Next]_vars PROVE UiHolds'
<1>t. TypeOK /\ Ui \in Actors /\ Actors = Sessions \cup {Ui}
  BY UiIsNoSession DEF TypeInv
<1>1. CASE Tick \/ UNCHANGED vars
  <2>1. UNCHANGED <<pc, mem, ledger, on, asked, target, shared>>
    BY <1>1 DEF Tick, vars, files, job
  <2>2. QED
    BY <2>1 DEF UiHolds, UiHasTarget, AtWork
<1>2. ASSUME NEW s \in Sessions, ApplyStep(s) PROVE UiHolds'
  BY <1>2, ApplyIsSessionStep, SessionHolds
<1>3. ASSUME NEW a \in Actors, RollbackLoad(a) \/ Restore(a) \/ Pop(a) \/ Abort(a) PROVE UiHolds'
  <2>1. CASE a = Ui
    BY <1>3, <2>1, JobHolds
  <2>2. CASE a # Ui
    <3>1. a \in Sessions
      BY <1>t, <2>2
    <3>2. SessionStep(a)
      BY <1>3, <3>1, UndoIsSessionStep
    <3>3. QED
      BY <3>1, <3>2, SessionHolds
  <2>3. QED
    BY <2>1, <2>2
<1>4. ASSUME NEW what \in Available \cup {Latest}, Request(what) PROVE UiHolds'
  BY <1>4, <1>t DEF Request, Goto, TypeOK, UiHolds, UiHasTarget
<1>5. CASE Resolve
  BY <1>5, ResolveHolds
<1>6. CASE Report
  <2>1. pc'[Ui] = "idle"
    BY <1>6, <1>t, LeaveEffect DEF Report
  <2>2. QED
    BY <2>1 DEF UiHolds, UiHasTarget
<1>7. QED
  BY <1>1, <1>2, <1>3, <1>4, <1>5, <1>6 DEF Next

(***************************************************************************)
(* Whatever sessions do between the request of an operator and the end of  *)
(* its job, the record that the job pops is the last one of its ledger and *)
(* the one that was asked for, unless that session itself was at work      *)
(* during the job (_rollback_latest, _execute_rollback_history_job).       *)
(***************************************************************************)
THEOREM RequestIsRolledBack == Spec => RequestedIsRolledBack
<1>1. Init => UiHolds
  BY UiIsNoSession DEF Init, UiHolds, UiHasTarget
<1>2. TypeInv /\ UiHolds /\ [Next]_vars => UiHolds'
  BY StepHolds
<1>3. TypeInv /\ UiHolds =>
        (on \notin shared /\ Pop(Ui) =>
            /\ ledger[on] # <<>>
            /\ ledger'[on] = FrontOf(ledger[on])
            /\ target = [session |-> on, index |-> Len(ledger[on]), record |-> LastOf(ledger[on])]
            /\ asked \in {Latest, target})
  <2>1. SUFFICES ASSUME TypeInv, UiHolds, on \notin shared, Pop(Ui)
                 PROVE  /\ ledger[on] # <<>>
                        /\ ledger'[on] = FrontOf(ledger[on])
                        /\ target = [session |-> on, index |-> Len(ledger[on]),
                                     record |-> LastOf(ledger[on])]
                        /\ asked \in {Latest, target}
    OBVIOUS
  <2>2. pc[Ui] = "pop" /\ UiHasTarget
    BY <2>1 DEF Pop, UiHasTarget
  <2>3. /\ ledger[on] # <<>> /\ mem[Ui] = ledger[on] /\ asked \in {Latest, target}
        /\ target = [session |-> on, index |-> Len(ledger[on]), record |-> LastOf(ledger[on])]
    BY <2>1, <2>2 DEF UiHolds
  <2>4. ledger'[on] = FrontOf(mem[Ui])
    BY <2>1, <2>2 DEF Pop, LedgerOf, TypeInv, TypeOK, UiAt
  <2>5. QED
    BY <2>3, <2>4
<1>4. QED
  BY <1>1, <1>2, <1>3, TypesHold, PTL DEF Spec, RequestedIsRolledBack

-----------------------------------------------------------------------------
(***************************************************************************)
(* What a backup is named after: a second no later than now.  And a        *)
(* session that does nothing has nothing in its hands.                     *)
(***************************************************************************)
NoneOfTheFuture == \A n \in Names : backups[n] # NoFile => n[3] <= time
RestIsEmpty == \A s \in Sessions : pc[s] = "idle" => made[s] = <<>> /\ mem[s] = <<>>

ClockInv == NoneOfTheFuture /\ RestIsEmpty

Applying == {"plan", "try", "read", "backup", "write", "final"}

\* The backup of a single edit is what the edit replaced.
Exact(edits) == Len(edits) = 1 => backups[edits[1].backup] = edits[1].before
AllExact(records) == \A i \in DOMAIN records : Exact(records[i].edits)

\* No record of the list has the backup that s would make now.
Spares(s, records) ==
    \A i \in DOMAIN records : \A k \in DOMAIN records[i].edits :
        records[i].edits[k].backup # Now(s)

Alone == \A a, b \in Actors : a # b => ~(AtWork(a) /\ AtWork(b))

ExactInv ==
    /\ Alone
    /\ \A s \in Sessions : AllExact(ledger[s])
    /\ \A a \in Actors : AllExact(mem[a])
    /\ \A s \in Sessions : pc[s] \in Applying =>
            (\A t \in Sessions : Spares(s, ledger[t])) /\ (\A a \in Actors : Spares(s, mem[a]))
    /\ \A s \in Sessions : pc[s] = "write" /\ Len(made[s]) = 1 => backups[made[s][1].backup] = config
    /\ \A s \in Sessions : pc[s] \in (Applying \ {"write"}) \cup {"save"} => Exact(made[s])

UndoInv == ~crossed => ExactInv

\* What the history says was rolled back, and what the job is about to say of.
Aimed == history \cup (IF UiHasTarget THEN {target} ELSE {})

Lacks(records, t) == ~(t.index \in DOMAIN records /\ records[t.index] = t.record)

\* The backup of the first edit of an apply.
FirstName(s) == IF made[s] = <<>> THEN Now(s) ELSE made[s][1].backup

HistoryInv ==
    /\ UiHasTarget => target.session = on
    /\ UiHasTarget /\ on \notin shared => ~AtWork(on)
    /\ pc[Ui] = "report" /\ on \notin shared => Lacks(ledger[on], target)
    /\ \A t \in Aimed : t.record.edits # <<>> /\ Kept(t.record.edits)
    /\ \A t \in history : t.session \notin shared =>
            Lacks(ledger[t.session], t) /\ Lacks(mem[t.session], t)
    /\ \A t \in Aimed : t.session \notin shared /\ pc[t.session] \in Applying \cup {"save"} =>
            t.record.edits[1].backup # FirstName(t.session)

(***************************************************************************)
(* What a session does in a step: it begins an apply, looks at the file,   *)
(* makes a backup, writes the file, loads or saves its ledger, or does     *)
(* something else, which is no part of the edits of an apply.              *)
(***************************************************************************)
Began(s) ==
    /\ pc[s] = "idle" /\ pc'[s] \in {"plan", "try", "read"} /\ backups[Now(s)'] = NoFile
    /\ UNCHANGED <<backups, ledger, mem, made, config>>
Looked(s) ==
    /\ pc[s] \in Applying \ {"write"} /\ pc'[s] \in Applying \ {"write"}
    /\ UNCHANGED <<backups, ledger, mem, made, fix, config>>
Wrote(s) == EditWrite(s) /\ pc'[s] \in {"read", "final"}
Loaded(s) ==
    /\ pc[s] = "final" /\ pc'[s] = "save" /\ mem'[s] = ledger[s]
    /\ UNCHANGED <<backups, ledger, made, fix, config>>
Shortens(s) ==
    \/ ledger'[s] = ledger[s]
    \/ ledger'[s] = <<>>
    \/ mem[s] # <<>> /\ ledger'[s] = FrontOf(mem[s])
Moved(s) ==
    /\ pc'[s] \notin Applying \cup {"save"}
    /\ pc'[s] = "idle" => made'[s] = <<>> /\ mem'[s] = <<>>
    /\ Shortens(s)
    /\ mem'[s] \in {mem[s], ledger[s], <<>>}
    /\ AtWork(s) \/ UNCHANGED config
    /\ UNCHANGED backups

\* And what it leaves alone.
Apart(s) ==
    /\ UNCHANGED <<remote, time, history>>
    /\ \A u \in Sessions \ {s} : UNCHANGED <<made[u], mem[u], fix[u]>>
    /\ SessionStep(s)
    /\ (AtWork(s) /\ crossed' = crossed) \/ crossed' = Crosses(s)

Deed(s) ==
    /\ Apart(s)
    /\ Began(s) \/ Looked(s) \/ Backup(s) \/ Wrote(s) \/ Loaded(s) \/ SaveLedger(s) \/ Moved(s)

LEMMA LeaveDeed ==
  ASSUME TypeInv, NEW s \in Sessions, AtWork(s), Leave(s), SessionStep(s),
         UNCHANGED <<remote, time, history, backups, crossed>>, Shortens(s)
  PROVE  Deed(s)
<1>t. TypeOK /\ s \in Actors /\ Sessions \subseteq Actors
  BY UiIsNoSession DEF TypeInv
<1>1. /\ pc'[s] = "idle" /\ made'[s] = <<>> /\ mem'[s] = <<>>
      /\ \A u \in Sessions \ {s} : UNCHANGED <<made[u], mem[u], fix[u]>>
  BY <1>t, LeaveEffect
<1>2. Apart(s)
  BY <1>1 DEF Apart
<1>3. Moved(s)
  BY <1>1 DEF Moved, Applying
<1>4. QED
  BY <1>2, <1>3 DEF Deed

LEMMA MoveDeed ==
  ASSUME TypeInv, NEW s \in Sessions, NEW label, pc' = [pc EXCEPT ![s] = label],
         label \notin Applying \cup {"save", "idle"},
         mem' = mem \/ mem' = [mem EXCEPT ![s] = ledger[s]],
         AtWork(s) \/ UNCHANGED config,
         UNCHANGED <<remote, time, history, backups, ledger, made, fix>>, SessionStep(s),
         (AtWork(s) /\ crossed' = crossed) \/ crossed' = Crosses(s)
  PROVE  Deed(s)
<1>t. TypeOK /\ s \in Actors /\ Sessions \subseteq Actors
  BY UiIsNoSession DEF TypeInv
<1>1. /\ pc'[s] = label /\ mem'[s] \in {mem[s], ledger[s]}
      /\ \A u \in Sessions \ {s} : mem'[u] = mem[u]
  BY <1>t DEF TypeOK
<1>2. Apart(s)
  BY <1>1 DEF Apart
<1>3. Moved(s)
  BY <1>1 DEF Moved, Shortens
<1>4. QED
  BY <1>2, <1>3 DEF Deed

LEMMA LookDeed ==
  ASSUME TypeInv, NEW s \in Sessions, NEW label, pc[s] \in Applying \ {"write"},
         pc' = [pc EXCEPT ![s] = label], label \in Applying \ {"write"},
         UNCHANGED <<remote, config, time, history, backups, ledger, made, mem, fix, crossed>>,
         SessionStep(s)
  PROVE  Deed(s)
<1>t. TypeOK /\ s \in Actors
  BY UiIsNoSession DEF TypeInv
<1>1. pc'[s] = label
  BY <1>t DEF TypeOK
<1>2. Apart(s)
  BY DEF Apart, AtWork, Applying
<1>3. Looked(s)
  BY <1>1 DEF Looked
<1>4. QED
  BY <1>2, <1>3 DEF Deed

LEMMA ApplyDeeds ==
  ASSUME TypeInv, NEW s \in Sessions, ApplyStep(s)
  PROVE  Deed(s)
<1>t. /\ TypeOK /\ s \in Actors /\ s # Ui /\ pc = [pc EXCEPT ![s] = pc[s]]
      /\ pc[s] \in {"read", "write"} => step[s] \in DOMAIN Edits[fix[s]]
  BY UiIsNoSession DEF TypeInv, TypeOK, AtAnEdit
<1>s. SessionStep(s)
  BY ApplyIsSessionStep
<1>1. ASSUME NEW f \in Fixes, ApplyFix(s, f) \/ RemoteApplyFix(s, f) PROVE Deed(s)
  <2>1. PICK label \in {"plan", "try", "read"} : Starts(s, f, label)
    BY <1>1 DEF ApplyFix, RemoteApplyFix, LocalStart, RemoteStart
  <2>2. /\ pc[s] = "idle" /\ pc' = [pc EXCEPT ![s] = label] /\ fix' = [fix EXCEPT ![s] = f]
        /\ backups[<<Place(s), f, time>>] = NoFile /\ crossed' = Crosses(s)
        /\ UNCHANGED <<remote, time, history, backups, ledger, mem, made, config>>
    BY <2>1 DEF Starts, Goto, Busy, files
  <2>3. pc'[s] = label /\ fix'[s] = f /\ \A u \in Sessions \ {s} : fix'[u] = fix[u]
    BY <2>2, <1>t DEF TypeOK
  <2>4. Now(s)' = <<Place(s), f, time>>
    BY <2>2, <2>3 DEF Now, Place
  <2>5. Began(s)
    BY <2>2, <2>3, <2>4 DEF Began
  <2>6. Apart(s)
    BY <2>2, <2>3, <1>s DEF Apart
  <2>7. QED
    BY <2>5, <2>6 DEF Deed
<1>2. CASE RollbackLatestApply(s) \/ RemoteRollbackLatestApply(s)
  <2>1. /\ pc' = [pc EXCEPT ![s] = "undo"] /\ crossed' = Crosses(s)
        /\ UNCHANGED <<remote, time, history, backups, ledger, mem, made, config, fix>>
    BY <1>2 DEF RollbackLatestApply, RemoteRollbackLatestApply, Undoes, Goto, files, work
  <2>2. QED
    BY <2>1, <1>s, MoveDeed DEF Applying
<1>3. CASE LocalPlan(s)
  <2>1. /\ pc[s] = "plan"
        /\ UNCHANGED <<remote, config, time, history, backups, ledger, made, mem, fix, crossed>>
    BY <1>3 DEF LocalPlan, files
  <2>2. pc' = [pc EXCEPT ![s] = "read"] \/ pc' = [pc EXCEPT ![s] = "final"]
    BY <1>3 DEF LocalPlan, Goto
  <2>3. QED
    BY <2>1, <2>2, <1>s, LookDeed DEF Applying
<1>4. CASE RemoteTry(s)
  <2>1. /\ pc[s] = "try"
        /\ UNCHANGED <<remote, config, time, history, backups, ledger, made, mem, fix, crossed>>
    BY <1>4 DEF RemoteTry, files
  <2>2. PICK label \in {"backup", "final", "try"} : pc' = [pc EXCEPT ![s] = label]
    <3>1. pc' = [pc EXCEPT ![s] = "backup"] \/ pc' = [pc EXCEPT ![s] = "final"] \/ pc' = pc
      BY <1>4 DEF RemoteTry, Goto
    <3>2. QED
      BY <3>1, <2>1, <1>t
  <2>3. QED
    BY <2>1, <2>2, <1>s, LookDeed DEF Applying
<1>5. CASE EditRead(s)
  <2>1. /\ pc[s] = "read"
        /\ UNCHANGED <<remote, config, time, history, backups, ledger, made, mem, fix, crossed>>
    BY <1>5 DEF EditRead, files
  <2>2. PICK label \in {"backup", "read", "final"} : pc' = [pc EXCEPT ![s] = label]
    BY <1>5, <1>t, <2>1, NextEditEffect DEF EditRead, Goto
  <2>3. QED
    BY <2>1, <2>2, <1>s, LookDeed DEF Applying
<1>6. CASE Backup(s)
  <2>1. UNCHANGED <<remote, time, history, mem, fix, crossed>> /\ AtWork(s)
    BY <1>6 DEF Backup, AtWork
  <2>2. \A u \in Sessions \ {s} : made'[u] = made[u]
    BY <1>6, <1>t DEF Backup, TypeOK
  <2>3. QED
    BY <1>6, <1>s, <2>1, <2>2 DEF Deed, Apart
<1>7. CASE EditWrite(s)
  <2>1. UNCHANGED <<remote, time, history, mem, fix, crossed>> /\ AtWork(s) /\ pc[s] = "write"
    BY <1>7 DEF EditWrite, AtWork
  <2>2. \A u \in Sessions \ {s} : made'[u] = made[u]
    BY <1>7, <1>t DEF EditWrite, TypeOK
  <2>3. PICK label \in {"read", "final"} : pc' = [pc EXCEPT ![s] = label]
    BY <1>7, <1>t, <2>1, NextEditEffect DEF EditWrite
  <2>4. Wrote(s)
    BY <1>7, <2>3, <1>t DEF Wrote, TypeOK
  <2>5. QED
    BY <2>4, <1>s, <2>1, <2>2 DEF Deed, Apart
<1>8. CASE Finalize(s)
  <2>1. /\ pc[s] = "final" /\ AtWork(s)
        /\ UNCHANGED <<remote, config, time, history, backups, ledger, crossed>>
    BY <1>8 DEF Finalize, AtWork, files
  <2>2. CASE Leave(s)
    BY <2>1, <2>2, <1>s, LeaveDeed DEF Shortens
  <2>3. CASE Goto(s, "save") /\ mem' = [mem EXCEPT ![s] = ledger[s]] /\ UNCHANGED work
    <3>1. /\ pc'[s] = "save" /\ mem'[s] = ledger[s] /\ UNCHANGED <<made, fix>>
          /\ \A u \in Sessions \ {s} : mem'[u] = mem[u]
      BY <2>3, <1>t, UiIsNoSession DEF TypeOK, Goto, work
    <3>2. QED
      BY <2>1, <3>1, <1>s DEF Deed, Apart, Loaded
  <2>4. CASE Goto(s, "rerun") /\ UNCHANGED <<work, mem>>
    <3>1. pc' = [pc EXCEPT ![s] = "rerun"] /\ UNCHANGED <<made, fix, mem>>
      BY <2>4 DEF Goto, work
    <3>2. QED
      BY <3>1, <2>1, <1>s, MoveDeed DEF Applying
  <2>5. QED
    BY <1>8, <2>2, <2>3, <2>4 DEF Finalize
<1>9. CASE SaveLedger(s)
  <2>1. UNCHANGED <<remote, time, history, mem, made, fix, crossed>> /\ AtWork(s)
    BY <1>9 DEF SaveLedger, AtWork, work
  <2>2. QED
    BY <1>9, <1>s, <2>1 DEF Deed, Apart
<1>10. CASE RerunLocal(s) \/ RerunRemote(s)
  <2>1. AtWork(s) /\ UNCHANGED <<remote, config, time, history, backups, ledger, crossed>>
    BY <1>10 DEF RerunLocal, RerunRemote, Judge, AtWork, files
  <2>2. CASE Leave(s)
    BY <2>1, <2>2, <1>s, LeaveDeed DEF Shortens
  <2>3. CASE Goto(s, "undo") /\ UNCHANGED <<work, mem>>
    <3>1. pc' = [pc EXCEPT ![s] = "undo"] /\ UNCHANGED <<made, fix, mem>>
      BY <2>3 DEF Goto, work
    <3>2. QED
      BY <3>1, <2>1, <1>s, MoveDeed DEF Applying
  <2>4. QED
    BY <1>10, <2>2, <2>3 DEF RerunLocal, RerunRemote, Judge
<1>11. QED
  BY <1>1, <1>2, <1>3, <1>4, <1>5, <1>6, <1>7, <1>8, <1>9, <1>10 DEF ApplyStep

LEMMA UndoDeeds ==
  ASSUME TypeInv, NEW s \in Sessions, RollbackLoad(s) \/ Restore(s) \/ Pop(s) \/ Abort(s)
  PROVE  Deed(s)
<1>t. /\ TypeOK /\ s \in Actors /\ s # Ui /\ LedgerOf(s) = s /\ pc = [pc EXCEPT ![s] = pc[s]]
  BY UiIsNoSession DEF TypeInv, TypeOK, LedgerOf
<1>s. SessionStep(s)
  BY UndoIsSessionStep
<1>1. CASE RollbackLoad(s)
  <2>1. AtWork(s) /\ UNCHANGED <<remote, config, time, history, backups, ledger, crossed>>
    BY <1>1 DEF RollbackLoad, AtWork, files
  <2>2. CASE Leave(s)
    BY <2>1, <2>2, <1>s, LeaveDeed DEF Shortens
  <2>3. CASE Goto(s, "restore") /\ mem' = [mem EXCEPT ![s] = ledger[s]] /\ UNCHANGED <<fix, made>>
    BY <2>1, <2>3, <1>s, MoveDeed DEF Goto, Applying
  <2>4. QED
    BY <1>1, <1>t, <2>2, <2>3 DEF RollbackLoad
<1>2. CASE Restore(s)
  <2>1. /\ AtWork(s) /\ pc[s] = "restore"
        /\ UNCHANGED <<remote, time, history, backups, ledger, made, mem, fix, crossed>>
    BY <1>2 DEF Restore, AtWork
  <2>2. PICK label \in {"pop", "restore"} : pc' = [pc EXCEPT ![s] = label]
    <3>1. pc' = [pc EXCEPT ![s] = "pop"] \/ pc' = pc
      BY <1>2 DEF Restore, Goto
    <3>2. QED
      BY <3>1, <2>1, <1>t
  <2>3. QED
    BY <2>1, <2>2, <1>s, MoveDeed DEF Applying
<1>3. CASE Pop(s)
  <2>1. /\ AtWork(s) /\ Leave(s) /\ UNCHANGED <<remote, time, history, backups, crossed>>
        /\ mem[s] # <<>> /\ ledger'[s] = FrontOf(mem[s])
    BY <1>3, <1>t DEF Pop, AtWork, TypeInv, TypeOK, HasRecord
  <2>2. QED
    BY <2>1, <1>s, LeaveDeed DEF Shortens
<1>4. CASE Abort(s)
  <2>1. /\ AtWork(s) /\ Leave(s) /\ UNCHANGED <<remote, time, history, backups, crossed>>
        /\ ledger'[s] = ledger[s] \/ ledger'[s] = <<>>
    BY <1>4, <1>t DEF Abort, files, TypeOK
  <2>2. QED
    BY <2>1, <1>s, LeaveDeed DEF Shortens
<1>5. QED
  BY <1>1, <1>2, <1>3, <1>4

(***************************************************************************)
(* The clock, and what rests.                                              *)
(***************************************************************************)
LEMMA NowIs ==
  ASSUME TypeInv, NEW s \in Sessions
  PROVE  Now(s) \in Names /\ Now(s)[1] = Place(s) /\ Now(s)[2] = fix[s] /\ Now(s)[3] = time
BY NowIsName DEF TypeInv, Now

\* A backup there is has another name than one of a later second.
LEMMA LaterName ==
  ASSUME TypeInv, NoneOfTheFuture, NEW n \in Names, backups[n] # NoFile, NEW p, NEW f
  PROVE  n # <<p, f, time + 1>>
<1>1. n[3] <= time /\ time \in Nat
  BY DEF NoneOfTheFuture, TypeInv, TypeOK
<1>2. n = <<p, f, time + 1>> => n[3] = time + 1
  OBVIOUS
<1>3. ~(time + 1 <= time)
  BY <1>1
<1>4. QED
  BY <1>1, <1>2, <1>3

\* The name of a backup of a record.
LEMMA BackupName ==
  ASSUME NEW edits \in Seq(Edit), NEW k \in DOMAIN edits PROVE edits[k].backup \in Names
<1>1. edits[k] \in Edit
  OBVIOUS
<1>2. QED
  BY <1>1 DEF Edit

LEMMA NamesOfRecords ==
  ASSUME NEW records \in Seq(Record), AllKept(records), NEW i \in DOMAIN records
  PROVE  /\ records[i].edits \in Seq(Edit) /\ records[i].edits # <<>>
         /\ \A k \in DOMAIN records[i].edits :
                /\ records[i].edits[k].backup \in Names
                /\ backups[records[i].edits[k].backup] # NoFile
<1>1. records[i].edits \in Seq(Edit)
  <2>1. records[i] \in Record
    OBVIOUS
  <2>2. QED
    BY <2>1 DEF Record
<1>2. QED
  BY <1>1, BackupName DEF AllKept, Kept

LEMMA ClockOfDeed ==
  ASSUME TypeInv, ClockInv, NEW s \in Sessions, Deed(s) PROVE ClockInv'
<1>t. TypeOK /\ UNCHANGED time /\ s \in Actors
  BY UiIsNoSession DEF TypeInv, Deed, Apart
<1>b. backups' = backups \/ backups' = [backups EXCEPT ![Now(s)] = config]
  BY DEF Deed, Began, Looked, Backup, Wrote, EditWrite, Loaded, SaveLedger, Moved
<1>1. NoneOfTheFuture'
  <2>1. CASE backups' = backups
    BY <2>1, <1>t DEF ClockInv, NoneOfTheFuture
  <2>2. CASE backups' = [backups EXCEPT ![Now(s)] = config]
    <3>1. ASSUME NEW n \in Names, backups'[n] # NoFile PROVE n[3] <= time
      <4>1. CASE n = Now(s)
        <5>1. time <= time
          BY <1>t DEF TypeOK
        <5>2. QED
          BY <4>1, <5>1, NowIs
      <4>2. CASE n # Now(s)
        BY <2>2, <3>1, <4>2, <1>t DEF TypeOK, ClockInv, NoneOfTheFuture
      <4>3. QED
        BY <4>1, <4>2
    <3>2. QED
      BY <3>1, <1>t DEF NoneOfTheFuture
  <2>3. QED
    BY <1>b, <2>1, <2>2
<1>2. ASSUME NEW u \in Sessions, pc'[u] = "idle" PROVE made'[u] = <<>> /\ mem'[u] = <<>>
  <2>1. CASE u # s
    BY <1>2, <2>1 DEF Deed, Apart, SessionStep, ClockInv, RestIsEmpty
  <2>2. CASE u = s
    <3>1. pc'[s] = "idle" => Moved(s)
      BY <1>t DEF Deed, Began, Looked, Backup, Wrote, Loaded, SaveLedger, Applying, Goto, TypeOK
    <3>2. QED
      BY <1>2, <2>2, <3>1 DEF Moved
  <2>3. QED
    BY <2>1, <2>2
<1>3. QED
  BY <1>1, <1>2 DEF ClockInv, RestIsEmpty

\* What the job of the web UI leaves alone.
UiStep ==
    /\ UNCHANGED <<remote, time, backups>>
    /\ \A s \in Sessions : UNCHANGED <<pc[s], fix[s], made[s], mem[s]>>

LEMMA UiSteps ==
  ASSUME TypeInv, \/ RollbackLoad(Ui) \/ Restore(Ui) \/ Pop(Ui) \/ Abort(Ui) \/ Resolve \/ Report
                  \/ \E what \in Available \cup {Latest} : Request(what)
  PROVE  UiStep
<1>t. TypeOK /\ Ui \in Actors /\ Ui \notin Sessions /\ Sessions \subseteq Actors
  BY UiIsNoSession DEF TypeInv
<1>1. ASSUME Leave(Ui) PROVE \A s \in Sessions : UNCHANGED <<pc[s], fix[s], made[s], mem[s]>>
  BY <1>1, <1>t, LeaveEffect
<1>2. ASSUME NEW label, pc' = [pc EXCEPT ![Ui] = label], UNCHANGED <<fix, made>>,
             mem' = mem \/ \E list : mem' = [mem EXCEPT ![Ui] = list]
      PROVE  \A s \in Sessions : UNCHANGED <<pc[s], fix[s], made[s], mem[s]>>
  BY <1>2, <1>t DEF TypeOK
<1>3. CASE RollbackLoad(Ui)
  <2>1. UNCHANGED <<remote, time, backups>>
    BY <1>3 DEF RollbackLoad, files
  <2>2. CASE Leave(Ui)
    BY <2>1, <2>2, <1>1 DEF UiStep
  <2>3. CASE /\ mem' = [mem EXCEPT ![Ui] = ledger[on]] /\ Goto(Ui, "restore")
             /\ UNCHANGED <<fix, made>>
    BY <2>1, <2>3, <1>2 DEF UiStep, Goto
  <2>4. QED
    BY <1>3, <2>2, <2>3 DEF RollbackLoad, LedgerOf
<1>4. CASE Restore(Ui)
  <2>1. /\ UNCHANGED <<remote, time, backups, mem, fix, made>>
        /\ pc' = pc \/ pc' = [pc EXCEPT ![Ui] = "pop"]
    BY <1>4 DEF Restore, Goto
  <2>2. CASE pc' = pc
    BY <2>1, <2>2 DEF UiStep
  <2>3. QED
    BY <2>1, <2>2, <1>2 DEF UiStep
<1>5. CASE Pop(Ui)
  <2>1. /\ UNCHANGED <<remote, time, backups, mem, fix, made>>
        /\ pc' = [pc EXCEPT ![Ui] = "report"]
    BY <1>5 DEF Pop, Goto, work
  <2>2. QED
    BY <2>1, <1>2 DEF UiStep
<1>6. CASE Abort(Ui)
  <2>1. UNCHANGED <<remote, time, backups>> /\ Leave(Ui)
    BY <1>6 DEF Abort, files
  <2>2. QED
    BY <2>1, <1>1 DEF UiStep
<1>7. CASE Resolve
  <2>1. /\ UNCHANGED <<remote, time, backups, mem, fix, made>>
        /\ pc' = [pc EXCEPT ![Ui] = "undo"] \/ pc' = [pc EXCEPT ![Ui] = "idle"]
    BY <1>7 DEF Resolve, Goto, work, files
  <2>2. QED
    BY <2>1, <1>2 DEF UiStep
<1>8. CASE Report
  <2>1. UNCHANGED <<remote, time, backups>> /\ Leave(Ui)
    BY <1>8 DEF Report, files
  <2>2. QED
    BY <2>1, <1>1 DEF UiStep
<1>9. ASSUME NEW what, Request(what) PROVE UiStep
  <2>1. /\ UNCHANGED <<remote, time, backups, mem, fix, made>>
        /\ pc' = [pc EXCEPT ![Ui] = "queued"]
    BY <1>9 DEF Request, Goto, work, files
  <2>2. QED
    BY <2>1, <1>2 DEF UiStep
<1>10. QED
  BY <1>3, <1>4, <1>5, <1>6, <1>7, <1>8, <1>9

UiActs == \/ RollbackLoad(Ui) \/ Restore(Ui) \/ Pop(Ui) \/ Abort(Ui) \/ Resolve \/ Report
          \/ \E what \in Available \cup {Latest} : Request(what)

\* Every step is the clock's, a session's, or the job's.
LEMMA WhoActs ==
  ASSUME TypeInv, [Next]_vars
  PROVE  \/ Tick \/ UNCHANGED vars
         \/ \E s \in Sessions : Deed(s)
         \/ UiActs /\ UiStep
<1>1. ASSUME NEW s \in Sessions, ApplyStep(s) PROVE Deed(s)
  BY <1>1, ApplyDeeds
<1>2. ASSUME NEW a \in Actors, RollbackLoad(a) \/ Restore(a) \/ Pop(a) \/ Abort(a)
      PROVE  (\E s \in Sessions : Deed(s)) \/ (UiActs /\ UiStep)
  <2>1. CASE a = Ui
    BY <1>2, <2>1, UiSteps DEF UiActs
  <2>2. CASE a # Ui
    <3>1. a \in Sessions
      BY <2>2, UiIsNoSession
    <3>2. Deed(a)
      BY <1>2, <3>1, UndoDeeds
    <3>3. QED
      BY <3>1, <3>2
  <2>3. QED
    BY <2>1, <2>2
<1>3. ASSUME Resolve \/ Report \/ \E what \in Available \cup {Latest} : Request(what)
      PROVE  UiActs /\ UiStep
  BY <1>3, UiSteps DEF UiActs
<1>4. QED
  BY <1>1, <1>2, <1>3 DEF Next

LEMMA ClockStep == ASSUME TypeInv, ClockInv, [Next]_vars PROVE ClockInv'
<1>1. CASE Tick
  <2>1. UNCHANGED <<backups, pc, made, mem>> /\ time' = time + 1
    BY <1>1 DEF Tick, files, work
  <2>2. \A n \in Names : n[3] \in Nat
    BY BoundsAssumption DEF Names
  <2>3. time \in Nat
    BY DEF TypeInv, TypeOK
  <2>4. \A n \in Names : n[3] <= time => n[3] <= time'
    BY <2>1, <2>2, <2>3
  <2>5. QED
    BY <2>1, <2>4 DEF ClockInv, NoneOfTheFuture, RestIsEmpty
<1>2. CASE UNCHANGED vars
  BY <1>2 DEF vars, ClockInv, NoneOfTheFuture, RestIsEmpty
<1>3. CASE UiStep
  BY <1>3 DEF UiStep, ClockInv, NoneOfTheFuture, RestIsEmpty
<1>4. QED
  BY <1>1, <1>2, <1>3, WhoActs, ClockOfDeed

-----------------------------------------------------------------------------
(***************************************************************************)
(* Undoing is exact while actors do not overlap.                           *)
(***************************************************************************)

\* One actor at a time, when nobody starts to work beside another.
LEMMA StayAlone ==
  ASSUME ~crossed => Alone, crossed => crossed', ~crossed', NEW a \in Actors,
         \A b \in Actors \ {a} : AtWork(b)' => AtWork(b),
         AtWork(a)' => AtWork(a) \/ crossed' = Crosses(a)
  PROVE  ~crossed /\ Alone'
<1>1. ~crossed /\ Alone
  OBVIOUS
<1>2. ASSUME NEW b \in Actors, NEW c \in Actors, b # c, AtWork(b)', AtWork(c)' PROVE FALSE
  <2>1. CASE b # a /\ c # a
    BY <1>1, <1>2, <2>1 DEF Alone
  <2>2. CASE b = a
    <3>1. AtWork(c) /\ c # a
      BY <1>2, <2>2
    <3>2. ~AtWork(a)
      BY <1>1, <3>1 DEF Alone
    <3>3. QED
      BY <1>2, <2>2, <3>1, <3>2 DEF Crosses
  <2>3. CASE c = a
    <3>1. AtWork(b) /\ b # a
      BY <1>2, <2>3
    <3>2. ~AtWork(a)
      BY <1>1, <3>1 DEF Alone
    <3>3. QED
      BY <1>2, <2>3, <3>1, <3>2 DEF Crosses
  <2>4. QED
    BY <2>1, <2>2, <2>3
<1>3. QED
  BY <1>1, <1>2 DEF Alone

\* The lists of records there are, and what a step may make of one.
Lists == {ledger[s] : s \in Sessions} \cup {mem[a] : a \in Actors}
Shorter == Lists \cup {FrontOf(records) : records \in Lists \ {<<>>}} \cup {<<>>}

LEMMA ListsAreExact ==
  ASSUME TypeInv, ExactInv, NEW records \in Shorter
  PROVE  AllExact(records) /\ \A s \in Sessions : pc[s] \in Applying => Spares(s, records)
<1>1. ASSUME NEW list \in Lists
      PROVE  /\ list \in Seq(Record) /\ AllExact(list)
             /\ \A s \in Sessions : pc[s] \in Applying => Spares(s, list)
  BY DEF Lists, TypeInv, TypeOK, ExactInv
<1>2. CASE records \in Lists
  BY <1>1, <1>2
<1>3. CASE records = <<>>
  BY <1>3 DEF AllExact, Spares
<1>4. ASSUME NEW list \in Lists \ {<<>>}, records = FrontOf(list)
      PROVE  AllExact(records) /\ \A s \in Sessions : pc[s] \in Applying => Spares(s, records)
  <2>1. \A i \in DOMAIN records : i \in DOMAIN list /\ records[i] = list[i]
    BY <1>1, <1>4, LastOfRecords
  <2>2. QED
    BY <1>1, <2>1 DEF AllExact, Spares
<1>5. QED
  BY <1>2, <1>3, <1>4 DEF Shorter

\* Where an apply has its edits complete: each has its backup and what it replaced.
Complete == (Applying \ {"write"}) \cup {"save"}

\* Lists that a step shortens or loads, and applies that stay where they are, stay exact.
LEMMA ExactFrame ==
  ASSUME TypeInv, ExactInv, Alone', UNCHANGED <<remote, time, backups>>,
         \A s \in Sessions : ledger'[s] \in Shorter,
         \A a \in Actors : mem'[a] \in Shorter,
         \A s \in Sessions : pc'[s] \in Applying => pc[s] \in Applying /\ fix'[s] = fix[s],
         \A s \in Sessions : pc'[s] = "write" =>
            pc[s] = "write" /\ made'[s] = made[s] /\ config' = config,
         \A s \in Sessions : pc'[s] \in Complete => pc[s] \in Complete /\ made'[s] = made[s]
  PROVE  ExactInv'
<1>1. ASSUME NEW records \in Shorter
      PROVE  /\ AllExact(records)'
             /\ \A s \in Sessions : pc'[s] \in Applying => Spares(s, records)'
  <2>1. AllExact(records) /\ \A s \in Sessions : pc[s] \in Applying => Spares(s, records)
    BY ListsAreExact
  <2>2. AllExact(records)'
    BY <2>1 DEF AllExact, Exact
  <2>3. ASSUME NEW s \in Sessions, pc'[s] \in Applying PROVE Spares(s, records)'
    <3>1. Spares(s, records) /\ Now(s)' = Now(s)
      BY <2>1, <2>3 DEF Now, Place
    <3>2. QED
      BY <3>1 DEF Spares
  <2>4. QED
    BY <2>2, <2>3
<1>2. ASSUME NEW s \in Sessions PROVE AllExact(ledger[s])'
  <2>1. AllExact(ledger'[s])
    BY ListsAreExact
  <2>2. QED
    BY <2>1 DEF AllExact, Exact
<1>3. ASSUME NEW a \in Actors PROVE AllExact(mem[a])'
  <2>1. AllExact(mem'[a])
    BY ListsAreExact
  <2>2. QED
    BY <2>1 DEF AllExact, Exact
<1>4. ASSUME NEW s \in Sessions, pc'[s] \in Applying
      PROVE  /\ \A t \in Sessions : Spares(s, ledger[t])'
             /\ \A a \in Actors : Spares(s, mem[a])'
  <2>1. pc[s] \in Applying /\ Now(s)' = Now(s)
    BY <1>4 DEF Now, Place
  <2>2. /\ \A t \in Sessions : Spares(s, ledger'[t])
        /\ \A a \in Actors : Spares(s, mem'[a])
    BY <2>1, ListsAreExact
  <2>3. QED
    BY <2>1, <2>2 DEF Spares
<1>5. ASSUME NEW s \in Sessions, pc'[s] = "write" /\ Len(made'[s]) = 1
      PROVE  backups'[made'[s][1].backup] = config'
  BY <1>5 DEF ExactInv
<1>6. ASSUME NEW s \in Sessions, pc'[s] \in Complete PROVE Exact(made[s])'
  <2>1. Exact(made[s]) /\ made'[s] = made[s]
    BY <1>6 DEF ExactInv, Complete
  <2>2. QED
    BY <2>1 DEF Exact
<1>7. QED
  BY <1>2, <1>3, <1>4, <1>5, <1>6 DEF ExactInv, Complete

\* The clock goes on: no record has a backup of the new second.
LEMMA TickUndo == ASSUME TypeInv, ClockInv, ExactInv, Tick PROVE ExactInv'
<1>1. /\ UNCHANGED <<remote, config, backups, ledger, pc, fix, made, mem>> /\ time' = time + 1
  BY DEF Tick, files, work
<1>2. Alone'
  BY <1>1 DEF ExactInv, Alone, AtWork
<1>3. ASSUME NEW s \in Sessions, NEW records \in Seq(Record), AllKept(records)
      PROVE  Spares(s, records)'
  <2>1. Now(s)' = <<Place(s), fix[s], time + 1>>
    BY <1>1 DEF Now, Place
  <2>2. ASSUME NEW i \in DOMAIN records, NEW k \in DOMAIN records[i].edits
        PROVE  records[i].edits[k].backup # Now(s)'
    BY <1>3, <2>1, NamesOfRecords, LaterName DEF ClockInv
  <2>3. QED
    BY <2>2 DEF Spares
<1>4. ASSUME NEW s \in Sessions
      PROVE  /\ \A t \in Sessions : Spares(s, ledger[t])'
             /\ \A a \in Actors : Spares(s, mem[a])'
  <2>1. ASSUME NEW t \in Sessions PROVE Spares(s, ledger[t])'
    <3>1. ledger[t] \in Seq(Record) /\ AllKept(ledger[t])
      BY DEF TypeInv, TypeOK, BackupsExist
    <3>2. \A i \in DOMAIN ledger[t] : \A k \in DOMAIN ledger[t][i].edits :
             ledger[t][i].edits[k].backup # Now(s)'
      BY <3>1, <1>3 DEF Spares
    <3>3. QED
      BY <3>2, <1>1 DEF Spares
  <2>2. ASSUME NEW a \in Actors PROVE Spares(s, mem[a])'
    <3>1. mem[a] \in Seq(Record) /\ AllKept(mem[a])
      BY DEF TypeInv, TypeOK, BackupsExist
    <3>2. \A i \in DOMAIN mem[a] : \A k \in DOMAIN mem[a][i].edits :
             mem[a][i].edits[k].backup # Now(s)'
      BY <3>1, <1>3 DEF Spares
    <3>3. QED
      BY <3>2, <1>1 DEF Spares
  <2>3. QED
    BY <2>1, <2>2
<1>5. QED
  BY <1>1, <1>2, <1>4 DEF ExactInv, AllExact, Exact

\* The actors but one, and that they are not at work.
LEMMA OnlyOne ==
  ASSUME TypeInv, Alone, NEW s \in Sessions, AtWork(s) \/ (~crossed' /\ crossed' = Crosses(s))
  PROVE  \A u \in Sessions \ {s} : pc[u] = "idle"
<1>1. ASSUME NEW u \in Sessions \ {s} PROVE pc[u] = "idle"
  <2>1. u \in Actors /\ s \in Actors /\ u # s
    BY UiIsNoSession
  <2>2. ~AtWork(u)
    BY <2>1 DEF Alone, Crosses
  <2>3. pc[u] \in SessionLabels
    BY DEF TypeInv, AtAnEdit
  <2>4. QED
    BY <2>2, <2>3 DEF AtWork, SessionLabels
<1>2. QED
  BY <1>1

\* A session begins an apply: no record has a backup of this name.
LEMMA BeganUndo ==
  ASSUME TypeInv, ClockInv, ExactInv, Alone', NEW s \in Sessions, Apart(s), Began(s),
         \A u \in Sessions \ {s} : pc[u] = "idle"
  PROVE  ExactInv'
<1>1. /\ UNCHANGED <<backups, ledger, mem, made, config>> /\ made[s] = <<>>
      /\ backups[Now(s)'] = NoFile /\ pc'[s] \in {"plan", "try", "read"}
      /\ \A u \in Sessions \ {s} : pc'[u] = "idle"
  BY DEF Began, Apart, SessionStep, ClockInv, RestIsEmpty
<1>2. ASSUME NEW records \in Seq(Record), AllKept(records)
      PROVE  \A i \in DOMAIN records : \A k \in DOMAIN records[i].edits :
                records[i].edits[k].backup # Now(s)'
  BY <1>1, <1>2, NamesOfRecords
<1>3. ASSUME NEW t \in Sessions PROVE Spares(s, ledger[t])'
  <2>1. ledger[t] \in Seq(Record) /\ AllKept(ledger[t])
    BY DEF TypeInv, TypeOK, BackupsExist
  <2>2. QED
    BY <1>1, <1>2, <2>1 DEF Spares
<1>4. ASSUME NEW a \in Actors PROVE Spares(s, mem[a])'
  <2>1. mem[a] \in Seq(Record) /\ AllKept(mem[a])
    BY DEF TypeInv, TypeOK, BackupsExist
  <2>2. QED
    BY <1>1, <1>2, <2>1 DEF Spares
<1>5. /\ \A t \in Sessions : AllExact(ledger[t])'
      /\ \A a \in Actors : AllExact(mem[a])'
  BY <1>1 DEF ExactInv, AllExact, Exact
<1>6. ASSUME NEW u \in Sessions
      PROVE  /\ pc'[u] \in Applying => u = s
             /\ pc'[u] # "write"
             /\ pc'[u] \in Complete => Exact(made[u])'
  BY <1>1 DEF Applying, Complete, Exact
<1>7. QED
  BY <1>3, <1>4, <1>5, <1>6 DEF ExactInv, Complete

\* A backup is made: it is of the text the edit replaces, and spoils none of a record.
LEMMA BackupUndo ==
  ASSUME TypeInv, ExactInv, Alone', NEW s \in Sessions, Apart(s), Backup(s),
         \A u \in Sessions \ {s} : pc[u] = "idle"
  PROVE  ExactInv'
<1> DEFINE edit == [backup |-> Now(s), field |-> TheEdit(s).field, before |-> Torn]
<1>t. TypeOK /\ s \in Actors /\ made[s] \in Seq(Edit) /\ Now(s) \in Names
  BY UiIsNoSession, NowIsName DEF TypeInv, TypeOK
<1>1. /\ pc[s] = "backup" /\ pc'[s] = "write" /\ \A u \in Sessions \ {s} : pc'[u] = "idle"
      /\ backups' = [backups EXCEPT ![Now(s)] = config]
      /\ made'[s] = Append(made[s], edit)
      /\ UNCHANGED <<remote, config, ledger, mem, time, fix>>
  BY <1>t DEF Backup, Apart, SessionStep, Goto, TypeOK
<1>2. backups'[Now(s)] = config /\ \A n \in Names \ {Now(s)} : backups'[n] = backups[n]
  BY <1>1, <1>t DEF TypeOK
<1>3. ASSUME NEW records \in Seq(Record), AllKept(records), AllExact(records), Spares(s, records)
      PROVE  /\ \A i \in DOMAIN records : Exact(records[i].edits)'
             /\ Spares(s, records)'
  <2>1. ASSUME NEW i \in DOMAIN records, Len(records[i].edits) = 1
        PROVE  backups'[records[i].edits[1].backup] = records[i].edits[1].before
    <3>1. records[i].edits \in Seq(Edit)
      BY <1>3, NamesOfRecords
    <3>2. 1 \in DOMAIN records[i].edits
      BY <2>1, <3>1
    <3>3. records[i].edits[1].backup \in Names \ {Now(s)}
      BY <1>3, <3>2, NamesOfRecords DEF Spares
    <3>4. backups[records[i].edits[1].backup] = records[i].edits[1].before
      BY <1>3, <2>1 DEF AllExact, Exact
    <3>5. QED
      BY <1>2, <3>3, <3>4
  <2>2. Now(s)' = Now(s)
    BY <1>1 DEF Now, Place
  <2>3. QED
    BY <1>3, <2>1, <2>2 DEF Exact, Spares
<1>4. ASSUME NEW t \in Sessions PROVE AllExact(ledger[t])' /\ Spares(s, ledger[t])'
  <2>1. ledger[t] \in Seq(Record) /\ AllKept(ledger[t]) /\ AllExact(ledger[t])
        /\ Spares(s, ledger[t])
    BY <1>1 DEF TypeInv, TypeOK, BackupsExist, ExactInv, Applying
  <2>2. QED
    BY <1>1, <1>3, <2>1 DEF AllExact, Exact, Spares
<1>5. ASSUME NEW a \in Actors PROVE AllExact(mem[a])' /\ Spares(s, mem[a])'
  <2>1. mem[a] \in Seq(Record) /\ AllKept(mem[a]) /\ AllExact(mem[a]) /\ Spares(s, mem[a])
    BY <1>1 DEF TypeInv, TypeOK, BackupsExist, ExactInv, Applying
  <2>2. QED
    BY <1>1, <1>3, <2>1 DEF AllExact, Exact, Spares
<1>6. ASSUME Len(made'[s]) = 1 PROVE backups'[made'[s][1].backup] = config'
  <2>1. Len(made[s]) = 0 /\ made'[s][1] = edit
    <3> HIDE DEF edit
    <3>1. QED
      BY <1>1, <1>t, <1>6
  <2>2. edit.backup = Now(s)
    OBVIOUS
  <2>3. QED
    BY <1>1, <1>2, <2>1, <2>2
<1>7. ASSUME NEW u \in Sessions
      PROVE  /\ pc'[u] \in Applying => u = s
             /\ pc'[u] = "write" => u = s
             /\ pc'[u] \notin Complete
  BY <1>1 DEF Applying, Complete
<1>8. QED
  BY <1>4, <1>5, <1>6, <1>7 DEF ExactInv, Complete

\* The file is written: the text that was backed up is the one that goes.
LEMMA WroteUndo ==
  ASSUME TypeInv, ExactInv, Alone', NEW s \in Sessions, Apart(s), Wrote(s),
         \A u \in Sessions \ {s} : pc[u] = "idle"
  PROVE  ExactInv'
<1>t. TypeOK /\ made[s] \in Seq(Edit)
  BY DEF TypeInv, TypeOK
<1>1. /\ pc[s] = "write" /\ pc'[s] \in {"read", "final"}
      /\ \A u \in Sessions \ {s} : pc'[u] = "idle"
      /\ made'[s] = [made[s] EXCEPT ![Len(made[s])].before = config]
      /\ UNCHANGED <<remote, backups, ledger, mem, time, fix>>
  BY <1>t DEF Wrote, EditWrite, Apart, SessionStep, TypeOK
<1>2. Now(s)' = Now(s) /\ pc[s] \in Applying
  BY <1>1 DEF Now, Place, Applying
<1>3. ASSUME Len(made'[s]) = 1 PROVE backups'[made'[s][1].backup] = made'[s][1].before
  <2>1. Len(made[s]) = 1 /\ made[s][1] \in Edit
    BY <1>1, <1>t, <1>3
  <2>2. made'[s][1] = [made[s][1] EXCEPT !.before = config]
    BY <1>1, <1>t, <2>1
  <2>3. made'[s][1].backup = made[s][1].backup /\ made'[s][1].before = config
    BY <2>1, <2>2 DEF Edit
  <2>4. backups[made[s][1].backup] = config
    BY <1>1, <2>1 DEF ExactInv
  <2>5. QED
    BY <1>1, <2>3, <2>4
<1>4. /\ \A t \in Sessions : AllExact(ledger[t])' /\ Spares(s, ledger[t])'
      /\ \A a \in Actors : AllExact(mem[a])' /\ Spares(s, mem[a])'
  BY <1>1, <1>2 DEF ExactInv, AllExact, Exact, Spares
<1>5. ASSUME NEW u \in Sessions
      PROVE  /\ pc'[u] \in Applying => u = s
             /\ pc'[u] # "write"
             /\ pc'[u] \in Complete => u = s
  BY <1>1 DEF Applying, Complete
<1>6. QED
  BY <1>3, <1>4, <1>5 DEF ExactInv, Complete, Exact

\* The record of an apply joins the others.
LEMMA SavedUndo ==
  ASSUME TypeInv, ExactInv, Alone', NEW s \in Sessions, Apart(s), SaveLedger(s),
         \A u \in Sessions \ {s} : pc[u] = "idle"
  PROVE  ExactInv'
<1> DEFINE record == [fix |-> fix[s], edits |-> made[s]]
<1>t. TypeOK /\ mem[s] \in Seq(Record) /\ s \in Actors /\ AllExact(mem[s])
  BY UiIsNoSession DEF TypeInv, TypeOK, ExactInv
<1>1. /\ pc[s] = "save" /\ pc'[s] = "rerun" /\ \A u \in Sessions \ {s} : pc'[u] = "idle"
      /\ ledger'[s] = Append(mem[s], record)
      /\ \A u \in Sessions \ {s} : ledger'[u] = ledger[u]
      /\ UNCHANGED <<backups, mem>>
  BY <1>t DEF SaveLedger, Apart, SessionStep, Goto, TypeOK
<1>2. record.edits = made[s] /\ Exact(made[s])
  BY <1>1 DEF ExactInv
<1> HIDE DEF record
<1>3. ASSUME NEW t \in Sessions PROVE AllExact(ledger[t])'
  <2>1. AllExact(ledger'[t])
    <3>1. CASE t = s
      BY SMTT(30), <1>1, <1>2, <1>t, <3>1 DEF AllExact
    <3>2. CASE t # s
      BY <1>1, <3>2 DEF ExactInv
    <3>3. QED
      BY <3>1, <3>2
  <2>2. QED
    BY <1>1, <2>1 DEF AllExact, Exact
<1>4. \A a \in Actors : AllExact(mem[a])'
  BY <1>1 DEF ExactInv, AllExact, Exact
<1>5. \A u \in Sessions : pc'[u] \notin Applying /\ pc'[u] \notin Complete
  BY <1>1 DEF Applying, Complete
<1>6. \A u \in Sessions : pc'[u] # "write"
  BY <1>1
<1>7. QED
  BY <1>3, <1>4, <1>5, <1>6 DEF ExactInv, Complete

\* An apply that looks at the file or loads its ledger, and what is no part of an apply.
LEMMA OtherUndo ==
  ASSUME TypeInv, ExactInv, Alone', NEW s \in Sessions, Apart(s),
         Looked(s) \/ Loaded(s) \/ Moved(s),
         \A u \in Sessions \ {s} : pc[u] = "idle"
  PROVE  ExactInv'
<1>t. TypeOK /\ s \in Actors /\ Actors = Sessions \cup {Ui}
  BY UiIsNoSession DEF TypeInv
<1>1. /\ UNCHANGED <<remote, time, backups>> /\ mem'[Ui] = mem[Ui]
      /\ \A u \in Sessions \ {s} : /\ pc'[u] = "idle" /\ ledger'[u] = ledger[u]
                                   /\ mem'[u] = mem[u]
  BY DEF Apart, SessionStep, Looked, Loaded, Moved
<1>2. ledger'[s] \in Shorter /\ mem'[s] \in Shorter
  <2>1. ledger[s] \in Lists /\ mem[s] \in Lists /\ <<>> \in Shorter /\ Lists \subseteq Shorter
    BY <1>t DEF Lists, Shorter
  <2>2. mem[s] # <<>> => FrontOf(mem[s]) \in Shorter
    BY <2>1 DEF Shorter
  <2>3. /\ ledger'[s] = ledger[s] \/ ledger'[s] = <<>> \/ (mem[s] # <<>> /\ ledger'[s] = FrontOf(mem[s]))
        /\ mem'[s] \in {mem[s], ledger[s], <<>>}
    BY DEF Looked, Loaded, Moved, Shortens
  <2>4. QED
    BY <2>1, <2>2, <2>3
<1>3. \A u \in Sessions : ledger'[u] \in Shorter
  <2>1. \A u \in Sessions : ledger[u] \in Shorter
    BY DEF Lists, Shorter
  <2>2. QED
    BY <1>1, <1>2, <2>1
<1>4. \A a \in Actors : mem'[a] \in Shorter
  <2>1. \A a \in Actors : mem[a] \in Shorter
    BY DEF Lists, Shorter
  <2>2. QED
    BY <1>1, <1>2, <1>t, <2>1
<1>5. ASSUME NEW u \in Sessions
      PROVE  /\ pc'[u] \in Applying => pc[u] \in Applying /\ fix'[u] = fix[u]
             /\ pc'[u] # "write"
             /\ pc'[u] \in Complete => pc[u] \in Complete /\ made'[u] = made[u]
  <2>1. CASE u = s
    BY <2>1 DEF Looked, Loaded, Moved, Applying, Complete
  <2>2. CASE u # s
    BY <2>2, <1>1 DEF Applying, Complete
  <2>3. QED
    BY <2>1, <2>2
<1>6. QED
  BY <1>1, <1>3, <1>4, <1>5, ExactFrame

LEMMA DeedUndo ==
  ASSUME TypeInv, ClockInv, UndoInv, NEW s \in Sessions, Deed(s) PROVE UndoInv'
<1> SUFFICES ASSUME ~crossed' PROVE ExactInv'
  BY DEF UndoInv
<1>t. s \in Actors /\ Actors = Sessions \cup {Ui} /\ Apart(s)
  BY UiIsNoSession DEF Deed
<1>1. (AtWork(s) /\ crossed' = crossed) \/ crossed' = Crosses(s)
  BY <1>t DEF Apart
<1>2. crossed => crossed'
  BY <1>1 DEF Crosses
<1>3. \A b \in Actors \ {s} : AtWork(b)' => AtWork(b)
  BY <1>t DEF Apart, SessionStep, AtWork
<1>4. ExactInv /\ Alone'
  <2>1. ExactInv
    BY <1>2 DEF UndoInv
  <2>2. Alone'
    BY <1>1, <1>2, <1>3, <1>t, <2>1, StayAlone DEF ExactInv
  <2>3. QED
    BY <2>1, <2>2
<1>5. \A u \in Sessions \ {s} : pc[u] = "idle"
  BY <1>1, <1>4, OnlyOne DEF ExactInv
<1>6. QED
  BY <1>4, <1>5, <1>t, BeganUndo, BackupUndo, WroteUndo, SavedUndo, OtherUndo DEF Deed

\* The job of the web UI: it loads and shortens lists, and has the file to itself.
UiTouches ==
    /\ \A s \in Sessions : ledger'[s] \in Shorter
    /\ mem'[Ui] \in Shorter
    /\ AtWork(Ui) \/ UNCHANGED config
    /\ crossed => crossed'
    /\ AtWork(Ui)' => AtWork(Ui) \/ crossed' = Crosses(Ui)

LEMMA UiTouching == ASSUME TypeInv, UiActs PROVE UiTouches
<1>t. TypeOK /\ Ui \in Actors /\ Ui \notin Sessions /\ LedgerOf(Ui) = on
  BY UiIsNoSession DEF TypeInv, LedgerOf
<1>s. /\ \A s \in Sessions : ledger[s] \in Shorter /\ <<>> \in Shorter
      /\ \A a \in Actors : mem[a] \in Shorter
      /\ mem[Ui] # <<>> => FrontOf(mem[Ui]) \in Shorter
  BY <1>t DEF Lists, Shorter
<1>m. Leave(Ui) => mem'[Ui] = <<>>
  BY <1>t, LeaveEffect
<1>i. \A s \in Sessions : <<>> \in Shorter
  BY <1>s
<1>e. <<>> \in Shorter
  BY DEF Shorter
<1>1. CASE RollbackLoad(Ui)
  <2>1. UNCHANGED <<config, ledger, crossed>> /\ AtWork(Ui) /\ pc[Ui] = "undo"
    BY <1>1 DEF RollbackLoad, files, AtWork
  <2>2. on \in Sessions
    BY <2>1 DEF TypeInv, UiAt, UiHasTarget
  <2>3. mem'[Ui] = <<>> \/ mem'[Ui] = ledger[on]
    <3>1. CASE Leave(Ui)
      BY <3>1, <1>m
    <3>2. CASE mem' = [mem EXCEPT ![Ui] = ledger[on]]
      BY <3>2, <1>t DEF TypeOK
    <3>3. QED
      BY <3>1, <3>2, <1>1, <1>t DEF RollbackLoad
  <2>4. QED
    BY <2>1, <2>2, <2>3, <1>s, <1>e DEF UiTouches
<1>2. CASE Restore(Ui)
  <2>1. UNCHANGED <<ledger, mem, crossed>> /\ AtWork(Ui)
    BY <1>2 DEF Restore, AtWork
  <2>2. QED
    BY <2>1, <1>s, <1>t DEF UiTouches
<1>3. CASE Pop(Ui)
  <2>1. /\ UNCHANGED <<mem, crossed>> /\ AtWork(Ui) /\ pc[Ui] = "pop"
        /\ ledger' = [ledger EXCEPT ![on] = FrontOf(mem[Ui])]
    BY <1>3, <1>t DEF Pop, AtWork
  <2>2. mem[Ui] # <<>>
    BY <2>1, <1>t DEF TypeInv, HasRecord
  <2>3. \A s \in Sessions : ledger'[s] \in Shorter
    BY <2>1, <2>2, <1>s, <1>t DEF TypeOK
  <2>4. QED
    BY <2>1, <2>3, <1>s, <1>t DEF UiTouches
<1>4. CASE Abort(Ui)
  <2>1. AtWork(Ui) /\ UNCHANGED crossed /\ mem'[Ui] = <<>>
    BY <1>4, <1>m DEF Abort
  <2>2. ledger' = ledger \/ ledger' = [ledger EXCEPT ![on] = <<>>]
    BY <1>4, <1>t DEF Abort, files
  <2>3. \A s \in Sessions : ledger'[s] \in Shorter
    BY <2>2, <1>s, <1>e, <1>t DEF TypeOK
  <2>4. QED
    BY <2>1, <2>3, <1>e DEF UiTouches
<1>5. CASE Resolve
  <2>1. UNCHANGED <<config, ledger, mem>>
    BY <1>5 DEF Resolve, files
  <2>2. crossed' = Crosses(Ui) \/ (crossed' = crossed /\ ~AtWork(Ui)')
    BY <1>5, <1>t DEF Resolve, Goto, AtWork, TypeOK
  <2>3. crossed => crossed'
    <3>1. crossed => Crosses(Ui)
      BY DEF Crosses
    <3>2. QED
      BY <2>2, <3>1, Zenon
  <2>4. QED
    BY <2>1, <2>2, <2>3, <1>s, <1>t DEF UiTouches
<1>6. CASE Report
  <2>1. UNCHANGED <<config, ledger, crossed>> /\ mem'[Ui] = <<>> /\ AtWork(Ui)
    BY <1>6, <1>m DEF Report, files, AtWork
  <2>2. QED
    BY <2>1, <1>s, <1>e DEF UiTouches
<1>7. ASSUME NEW what, Request(what) PROVE UiTouches
  <2>1. UNCHANGED <<config, ledger, crossed, mem>> /\ pc'[Ui] = "queued"
    BY <1>7, <1>t DEF Request, files, work, Goto, TypeOK
  <2>2. QED
    BY <2>1, <1>s, <1>t DEF UiTouches, AtWork
<1>8. QED
  BY <1>1, <1>2, <1>3, <1>4, <1>5, <1>6, <1>7 DEF UiActs

LEMMA UiUndo == ASSUME TypeInv, UndoInv, UiStep, UiTouches PROVE UndoInv'
<1> SUFFICES ASSUME ~crossed' PROVE ExactInv'
  BY DEF UndoInv
<1>t. Ui \in Actors /\ Actors = Sessions \cup {Ui}
  BY UiIsNoSession
<1>1. \A b \in Actors \ {Ui} : AtWork(b)' => AtWork(b)
  BY <1>t DEF UiStep, AtWork
<1>2. ExactInv
  BY DEF UndoInv, UiTouches
<1>3. Alone'
  BY <1>1, <1>2, <1>t, StayAlone DEF ExactInv, UiTouches
<1>4. \A a \in Actors : mem'[a] \in Shorter
  <2>1. \A a \in Actors : mem[a] \in Shorter
    BY DEF Lists, Shorter
  <2>2. QED
    BY <2>1, <1>t DEF UiStep, UiTouches
<1>5. ASSUME NEW s \in Sessions, pc'[s] = "write" PROVE config' = config
  <2>1. AtWork(s) /\ s # Ui /\ s \in Actors
    BY <1>5, UiIsNoSession DEF UiStep, AtWork
  <2>2. ~AtWork(Ui)
    BY <1>2, <2>1, <1>t DEF ExactInv, Alone
  <2>3. QED
    BY <2>2 DEF UiTouches
<1>6. QED
  BY <1>2, <1>3, <1>4, <1>5, ExactFrame DEF UiStep, UiTouches

LEMMA UndoSteps == ASSUME TypeInv, ClockInv, UndoInv, [Next]_vars PROVE UndoInv'
<1>1. CASE Tick
  <2>1. UNCHANGED crossed
    BY <1>1 DEF Tick
  <2>2. QED
    BY <1>1, <2>1, TickUndo DEF UndoInv
<1>2. CASE UNCHANGED vars
  <2>1. /\ UNCHANGED <<remote, time, backups, ledger, mem, pc, fix, made, config, crossed>>
    BY <1>2 DEF vars
  <2>2. QED
    BY <2>1 DEF UndoInv, ExactInv, Alone, AtWork, AllExact, Exact, Spares, Now, Place
<1>3. ASSUME NEW s \in Sessions, Deed(s) PROVE UndoInv'
  BY <1>3, DeedUndo
<1>4. CASE UiActs /\ UiStep
  BY <1>4, UiTouching, UiUndo
<1>5. QED
  BY <1>1, <1>2, <1>3, <1>4, WhoActs

LEMMA ClockHolds == Spec => []ClockInv
<1>1. Init => ClockInv
  BY UiIsNoSession DEF Init, ClockInv, NoneOfTheFuture, RestIsEmpty
<1>2. TypeInv /\ ClockInv /\ [Next]_vars => ClockInv'
  BY ClockStep
<1>3. QED
  BY <1>1, <1>2, TypesHold, PTL DEF Spec

(***************************************************************************)
(* While actors do not overlap, the backup of a record of one edit is what *)
(* that edit replaced, however many applies, rollbacks, failures and       *)
(* crashes came after it: no later apply spoils it                         *)
(* (update_json_field, rollback_latest).                                   *)
(***************************************************************************)
THEOREM UndoStaysExact == Spec => []UndoIsExact
<1>1. Init => UndoInv
  <2>1. SUFFICES ASSUME Init PROVE ExactInv
    BY DEF UndoInv
  <2>2. /\ \A a \in Actors : pc[a] = "idle" /\ mem[a] = <<>>
        /\ \A s \in Sessions : pc[s] = "idle" /\ ledger[s] = <<>>
    BY <2>1, UiIsNoSession DEF Init
  <2>3. QED
    BY <2>2 DEF ExactInv, Alone, AtWork, AllExact, Exact, Applying
<1>2. TypeInv /\ ClockInv /\ UndoInv /\ [Next]_vars => UndoInv'
  BY UndoSteps
<1>3. UndoInv => UndoIsExact
  BY DEF UndoInv, ExactInv, AllExact, Exact, UndoIsExact
<1>4. QED
  BY <1>1, <1>2, <1>3, TypesHold, ClockHolds, PTL DEF Spec

-----------------------------------------------------------------------------
(***************************************************************************)
(* What the history says was rolled back is no longer there.               *)
(***************************************************************************)
LEMMA FrontLacks ==
  ASSUME NEW records \in Seq(Record), records # <<>>, NEW t, Lacks(records, t)
  PROVE  Lacks(FrontOf(records), t)
BY LastOfRecords DEF Lacks

\* The target of a job and the records of the history are records of a session, with backups.
LEMMA AimedIsTarget ==
  ASSUME TypeInv, HistoryInv, NEW t \in Aimed
  PROVE  /\ t \in Target /\ t.session \in Sessions /\ t.record.edits \in Seq(Edit)
         /\ 1 \in DOMAIN t.record.edits /\ t.record.edits[1].backup \in Names
         /\ backups[t.record.edits[1].backup] # NoFile
<1>1. t \in Target
  BY DEF Aimed, TypeInv, TypeOK, UiAt
<1>2. t.session \in Sessions /\ t.record.edits \in Seq(Edit)
  BY <1>1 DEF Target, Record
<1>3. t.record.edits # <<>> /\ Kept(t.record.edits)
  BY DEF HistoryInv
<1>4. 1 \in DOMAIN t.record.edits
  BY <1>2, <1>3
<1>5. QED
  BY <1>1, <1>2, <1>3, <1>4, BackupName DEF Kept

\* The records of s that the history or the job has, when s is at work without the job.
LEMMA LacksOfDeed ==
  ASSUME TypeInv, HistoryInv, NEW s \in Sessions, Deed(s), NEW t \in history,
         t.session = s, s \notin shared'
  PROVE  Lacks(ledger'[s], t) /\ Lacks(mem'[s], t)
<1>t. TypeOK /\ s \in Actors /\ mem[s] \in Seq(Record) /\ made[s] \in Seq(Edit)
  BY UiIsNoSession DEF TypeInv, TypeOK
<1>1. s \notin shared
  BY DEF Deed, Apart, SessionStep
<1>2. Lacks(ledger[s], t) /\ Lacks(mem[s], t)
  BY <1>1 DEF HistoryInv
<1>3. CASE SaveLedger(s)
  <2> DEFINE record == [fix |-> fix[s], edits |-> made[s]]
  <2>1. /\ ledger'[s] = Append(mem[s], record) /\ mem'[s] = mem[s] /\ pc[s] = "save"
        /\ made[s] # <<>>
    BY <1>3, <1>t DEF SaveLedger, TypeOK, TypeInv, HasText
  <2>2. t \in Aimed /\ t.session \notin shared
    BY <1>1 DEF Aimed
  <2>3. t.record.edits[1].backup # FirstName(s)
    BY <2>1, <2>2 DEF HistoryInv, Applying
  <2>4. record # t.record
    <3>1. record.edits = made[s]
      OBVIOUS
    <3>2. QED
      BY <2>1, <2>3, <3>1 DEF FirstName
  <2> HIDE DEF record
  <2>5. ASSUME t.index \in DOMAIN ledger'[s] PROVE ledger'[s][t.index] # t.record
    <3>1. DOMAIN mem[s] = 1..Len(mem[s]) /\ Len(mem[s]) \in Nat
          /\ DOMAIN Append(mem[s], record) = 1..(Len(mem[s]) + 1)
      BY <1>t
    <3>2. CASE t.index \in DOMAIN mem[s]
      <4>1. ledger'[s][t.index] = mem[s][t.index]
        BY <1>t, <2>1, <3>1, <3>2
      <4>2. QED
        BY <4>1, <3>2, <1>2 DEF Lacks
    <3>3. CASE t.index \notin DOMAIN mem[s]
      <4>1. t.index = Len(mem[s]) + 1
        BY <2>1, <2>5, <3>1, <3>3
      <4>2. ledger'[s][t.index] = record
        BY <1>t, <2>1, <4>1
      <4>3. QED
        BY <4>2, <2>4
    <3>4. QED
      BY <3>2, <3>3
  <2>6. QED
    BY <2>1, <2>5, <1>2 DEF Lacks
<1>4. CASE Moved(s)
  <2>1. Lacks(<<>>, t)
    BY DEF Lacks
  <2>2. Lacks(ledger'[s], t)
    <3>1. CASE mem[s] # <<>> /\ ledger'[s] = FrontOf(mem[s])
      BY <3>1, <1>2, <1>t, FrontLacks
    <3>2. QED
      BY <1>2, <1>4, <2>1, <3>1 DEF Moved, Shortens
  <2>3. mem'[s] = mem[s] \/ mem'[s] = ledger[s] \/ mem'[s] = <<>>
    BY <1>4 DEF Moved
  <2>4. QED
    BY <1>2, <2>1, <2>2, <2>3
<1>5. CASE Began(s) \/ Looked(s) \/ Backup(s) \/ Wrote(s) \/ Loaded(s)
  <2>1. ledger'[s] = ledger[s] /\ (mem'[s] = mem[s] \/ mem'[s] = ledger[s])
    BY <1>5 DEF Began, Looked, Backup, Wrote, EditWrite, Loaded
  <2>2. QED
    BY <1>2, <2>1
<1>6. QED
  BY <1>3, <1>4, <1>5 DEF Deed

\* An apply is of a backup that no record of its session in the history or with the job has.
LEMMA NameOfDeed ==
  ASSUME TypeInv, ClockInv, HistoryInv, NEW s \in Sessions, Deed(s), NEW t \in Aimed,
         t.session = s, s \notin shared', pc'[s] \in Applying \cup {"save"}
  PROVE  t.record.edits[1].backup # FirstName(s)'
<1>t. TypeOK /\ s \in Actors /\ made[s] \in Seq(Edit)
  BY UiIsNoSession DEF TypeInv, TypeOK
<1>1. s \notin shared /\ UNCHANGED <<remote, time>>
  BY DEF Deed, Apart, SessionStep
<1>2. pc[s] \in Applying \cup {"save"} => t.record.edits[1].backup # FirstName(s)
  BY <1>1 DEF HistoryInv
<1>3. CASE Began(s)
  <2>1. made'[s] = <<>>
    BY <1>3 DEF Began, ClockInv, RestIsEmpty
  <2>2. FirstName(s)' = Now(s)'
    BY <2>1 DEF FirstName
  <2>3. QED
    BY <1>3, <2>2, AimedIsTarget DEF Began
<1>4. CASE Looked(s) \/ Loaded(s)
  <2>1. /\ pc[s] \in Applying \cup {"save"} /\ made'[s] = made[s] /\ fix'[s] = fix[s]
    BY <1>4 DEF Looked, Loaded, Applying
  <2>2. FirstName(s)' = FirstName(s)
    BY <1>1, <2>1 DEF FirstName, Now, Place
  <2>3. QED
    BY <1>2, <2>1, <2>2
<1>5. CASE Backup(s)
  <2> DEFINE edit == [backup |-> Now(s), field |-> TheEdit(s).field, before |-> Torn]
  <2>1. pc[s] = "backup" /\ made'[s] = Append(made[s], edit)
    BY <1>5, <1>t DEF Backup, TypeOK
  <2>2. edit.backup = Now(s)
    OBVIOUS
  <2> HIDE DEF edit
  <2>3. FirstName(s)' = FirstName(s)
    <3>1. made'[s] # <<>>
      BY <2>1, <1>t
    <3>2. CASE made[s] = <<>>
      <4>1. made'[s][1] = edit
        BY <2>1, <3>2
      <4>2. QED
        BY <3>1, <3>2, <4>1, <2>2 DEF FirstName
    <3>3. CASE made[s] # <<>>
      <4>1. made'[s][1] = made[s][1]
        BY <2>1, <3>3, <1>t
      <4>2. QED
        BY <3>1, <3>3, <4>1 DEF FirstName
    <3>4. QED
      BY <3>2, <3>3
  <2>4. QED
    BY <1>2, <2>1, <2>3 DEF Applying
<1>6. CASE Wrote(s)
  <2>1. made[s] # <<>> /\ made'[s] # <<>> /\ made'[s][1].backup = made[s][1].backup
    <3>1. EditWrite(s)
      BY <1>6 DEF Wrote
    <3>2. 1 \in DOMAIN made[s]
      BY <1>t, <3>1, WriteMakes
    <3>3. QED
      BY <3>1, <3>2, WriteMakes
  <2>2. pc[s] \in Applying
    BY <1>6 DEF Wrote, EditWrite, Applying
  <2>3. QED
    BY <1>2, <2>1, <2>2 DEF FirstName
<1>7. CASE SaveLedger(s)
  BY <1>7, <1>t DEF SaveLedger, Goto, TypeOK, Applying
<1>8. CASE Moved(s)
  BY <1>8 DEF Moved
<1>9. QED
  BY <1>3, <1>4, <1>5, <1>6, <1>7, <1>8 DEF Deed

LEMMA HistoryOfDeed ==
  ASSUME TypeInv, ClockInv, HistoryInv, NEW s \in Sessions, Deed(s) PROVE HistoryInv'
<1>t. TypeOK /\ s \in Actors /\ Sessions \subseteq Actors
  BY UiIsNoSession DEF TypeInv
<1>1. /\ UNCHANGED <<on, target, history>> /\ pc'[Ui] = pc[Ui] /\ shared \subseteq shared'
      /\ \A u \in Sessions \ {s} : UNCHANGED <<pc[u], ledger[u], made[u], mem[u], fix[u]>>
      /\ ~AtWork(s) /\ AtWork(Ui) /\ on = s => s \in shared'
      /\ UNCHANGED <<remote, time>>
  BY DEF Deed, Apart, SessionStep
<1>2. (UiHasTarget <=> UiHasTarget') /\ Aimed' = Aimed
  BY <1>1 DEF UiHasTarget, Aimed
<1>3. ASSUME UiHasTarget, on \notin shared' PROVE ~AtWork(on) /\ on \in Sessions \ {s}
  <2>1. ~AtWork(on) /\ on \in Sessions /\ AtWork(Ui)
    BY <1>1, <1>3 DEF HistoryInv, TypeInv, UiAt, UiHasTarget, AtWork
  <2>2. on # s
    BY <1>1, <1>3, <2>1
  <2>3. QED
    BY <2>1, <2>2
<1>4. UiHasTarget' => target'.session = on'
  BY <1>1, <1>2 DEF HistoryInv
<1>5. UiHasTarget' /\ on' \notin shared' => ~AtWork(on)'
  BY <1>1, <1>2, <1>3 DEF AtWork
<1>6. pc'[Ui] = "report" /\ on' \notin shared' => Lacks(ledger[on], target)'
  <2>1. ASSUME pc[Ui] = "report", on \notin shared' PROVE Lacks(ledger[on], target)'
    <3>1. UiHasTarget /\ on \notin shared
      BY <1>1, <2>1 DEF UiHasTarget
    <3>2. Lacks(ledger[on], target) /\ ledger'[on] = ledger[on]
      BY <1>1, <1>3, <2>1, <3>1 DEF HistoryInv
    <3>3. QED
      BY <1>1, <3>2 DEF Lacks
  <2>2. QED
    BY <1>1, <2>1
<1>7. ASSUME NEW t \in Aimed PROVE t.record.edits # <<>> /\ Kept(t.record.edits)'
  <2>1. t.record.edits # <<>> /\ Kept(t.record.edits) /\ t.record.edits \in Seq(Edit)
    BY AimedIsTarget DEF HistoryInv
  <2>2. \A n \in Names : backups[n] # NoFile => backups'[n] # NoFile
    <3>1. backups' = backups \/ backups' = [backups EXCEPT ![Now(s)] = config]
      BY DEF Deed, Began, Looked, Backup, Wrote, EditWrite, Loaded, SaveLedger, Moved
    <3>2. config # NoFile
      BY <1>t, ModelValuesAssumption DEF TypeOK
    <3>3. QED
      BY <3>1, <3>2, <1>t DEF TypeOK
  <2>3. \A k \in DOMAIN t.record.edits : t.record.edits[k].backup \in Names
    BY <2>1, BackupName
  <2>4. QED
    BY <2>1, <2>2, <2>3 DEF Kept
<1>8. ASSUME NEW t \in history, t.session \notin shared'
      PROVE  Lacks(ledger'[t.session], t) /\ Lacks(mem'[t.session], t)
  <2>1. CASE t.session = s
    BY <1>8, <2>1, LacksOfDeed
  <2>2. CASE t.session # s
    <3>1. t.session \in Sessions \ {s}
      BY <2>2, AimedIsTarget DEF Aimed
    <3>2. ledger'[t.session] = ledger[t.session] /\ mem'[t.session] = mem[t.session]
      BY <1>1, <3>1
    <3>3. QED
      BY <1>1, <1>8, <3>2 DEF HistoryInv
  <2>3. QED
    BY <2>1, <2>2
<1>9. ASSUME NEW t \in Aimed, t.session \notin shared', pc'[t.session] \in Applying \cup {"save"}
      PROVE  t.record.edits[1].backup # FirstName(t.session)'
  <2>1. CASE t.session = s
    BY <1>9, <2>1, NameOfDeed
  <2>2. CASE t.session # s
    <3>1. t.session \in Sessions \ {s}
      BY <2>2, AimedIsTarget
    <3>2. FirstName(t.session)' = FirstName(t.session) /\ pc'[t.session] = pc[t.session]
      BY <1>1, <3>1 DEF FirstName, Now, Place
    <3>3. QED
      BY <1>1, <1>9, <3>2 DEF HistoryInv
  <2>3. QED
    BY <2>1, <2>2
<1>10. \A t \in history' : t.session \notin shared' =>
            Lacks(ledger[t.session], t)' /\ Lacks(mem[t.session], t)'
  BY <1>1, <1>8 DEF Lacks
<1>11. \A t \in Aimed' : t.record.edits # <<>> /\ Kept(t.record.edits)'
  BY <1>2, <1>7
<1>12. \A t \in Aimed' : t.session \notin shared' /\ pc'[t.session] \in Applying \cup {"save"} =>
            t.record.edits[1].backup # FirstName(t.session)'
  BY <1>2, <1>9
<1>13. QED
  BY <1>4, <1>5, <1>6, <1>10, <1>11, <1>12 DEF HistoryInv, Kept

\* The clock goes on: a record of the history has no backup of the new second.
LEMMA HistoryOfTick == ASSUME TypeInv, ClockInv, HistoryInv, Tick PROVE HistoryInv'
<1>1. /\ UNCHANGED <<remote, config, backups, ledger, pc, fix, made, mem, on, target, history, shared>>
      /\ time' = time + 1
  BY DEF Tick, files, work, job
<1>2. Aimed' = Aimed /\ (UiHasTarget' <=> UiHasTarget)
  BY <1>1 DEF Aimed, UiHasTarget
<1>3. ASSUME NEW t \in Aimed, t.session \notin shared, pc[t.session] \in Applying \cup {"save"}
      PROVE  t.record.edits[1].backup # FirstName(t.session)'
  <2>1. CASE made[t.session] = <<>>
    <3>1. FirstName(t.session)' = <<Place(t.session), fix[t.session], time + 1>>
      BY <1>1, <2>1 DEF FirstName, Now, Place
    <3>2. QED
      BY <3>1, AimedIsTarget, LaterName DEF ClockInv
  <2>2. CASE made[t.session] # <<>>
    <3>1. FirstName(t.session)' = FirstName(t.session)
      BY <1>1, <2>2 DEF FirstName
    <3>2. QED
      BY <1>3, <3>1 DEF HistoryInv
  <2>3. QED
    BY <2>1, <2>2
<1>4. \A t \in Aimed' : t.session \notin shared' /\ pc'[t.session] \in Applying \cup {"save"} =>
            t.record.edits[1].backup # FirstName(t.session)'
  BY <1>1, <1>2, <1>3
<1>5. QED
  BY <1>1, <1>2, <1>4 DEF HistoryInv, AtWork, Lacks, Kept

\* A step of the job leaves alone what the sessions have in their hands.
LEMMA UiKeeps ==
  ASSUME TypeInv, HistoryInv, UiStep, shared \subseteq shared'
  PROVE  /\ \A t \in Aimed : /\ t.record.edits # <<>> /\ Kept(t.record.edits)'
                             /\ t.session \notin shared' /\ pc'[t.session] \in Applying \cup {"save"} =>
                                    t.record.edits[1].backup # FirstName(t.session)'
         /\ \A t \in history : t.session \notin shared' =>
                Lacks(ledger[t.session], t) /\ Lacks(mem'[t.session], t)
<1>1. ASSUME NEW t \in Aimed
      PROVE  /\ t.record.edits # <<>> /\ Kept(t.record.edits)'
             /\ t.session \notin shared' /\ pc'[t.session] \in Applying \cup {"save"} =>
                    t.record.edits[1].backup # FirstName(t.session)'
  <2>1. t.session \in Sessions
    BY AimedIsTarget
  <2>2. FirstName(t.session)' = FirstName(t.session) /\ pc'[t.session] = pc[t.session]
    BY <2>1 DEF UiStep, FirstName, Now, Place
  <2>3. Kept(t.record.edits)' /\ t.record.edits # <<>>
    BY DEF UiStep, HistoryInv, Kept
  <2>4. QED
    BY <2>2, <2>3 DEF HistoryInv
<1>2. ASSUME NEW t \in history, t.session \notin shared'
      PROVE  Lacks(ledger[t.session], t) /\ Lacks(mem'[t.session], t)
  <2>1. t.session \in Sessions
    BY AimedIsTarget DEF Aimed
  <2>2. mem'[t.session] = mem[t.session]
    BY <2>1 DEF UiStep
  <2>3. QED
    BY <1>2, <2>2 DEF HistoryInv
<1>3. QED
  BY <1>1, <1>2

\* A session that is not at work has nothing in its hands.
LEMMA RestOfSession ==
  ASSUME TypeInv, ClockInv, NEW s \in Sessions, ~AtWork(s) PROVE pc[s] = "idle" /\ mem[s] = <<>>
<1>1. pc[s] \in SessionLabels
  BY DEF TypeInv, AtAnEdit
<1>2. QED
  BY <1>1 DEF AtWork, SessionLabels, ClockInv, RestIsEmpty

\* The job stops, or is asked for: no target is left.
LEMMA UiStops ==
  ASSUME TypeInv, HistoryInv, UiStep, pc'[Ui] \in {"idle", "queued"}, UNCHANGED <<history, shared>>,
         ledger' = ledger \/ ledger' = [ledger EXCEPT ![on] = <<>>]
  PROVE  HistoryInv'
<1>1. ~UiHasTarget' /\ Aimed' = history /\ history \subseteq Aimed
  BY DEF UiHasTarget, Aimed
<1>2. ASSUME NEW t \in history, t.session \notin shared'
      PROVE  Lacks(ledger[t.session], t)' /\ Lacks(mem[t.session], t)'
  <2>1. Lacks(ledger[t.session], t) /\ Lacks(mem'[t.session], t)
    BY <1>2, UiKeeps
  <2>2. ledger'[t.session] = ledger[t.session] \/ ledger'[t.session] = <<>>
    <3>1. t.session \in Sessions
      BY <1>1, AimedIsTarget
    <3>2. QED
      BY <3>1 DEF TypeInv, TypeOK
  <2>3. Lacks(<<>>, t)
    BY DEF Lacks
  <2>4. QED
    BY <2>1, <2>2, <2>3 DEF Lacks
<1>3. QED
  BY <1>1, <1>2, UiKeeps DEF HistoryInv, UiHasTarget

\* The job goes on, with its target and the ledgers as they are.
LEMMA UiGoesOn ==
  ASSUME TypeInv, HistoryInv, UiStep, UiHasTarget, pc'[Ui] \in {"undo", "restore", "pop"},
         UNCHANGED <<on, target, history, shared, ledger>>
  PROVE  HistoryInv'
<1>1. UiHasTarget' /\ Aimed' = Aimed
  BY DEF UiHasTarget, Aimed
<1>2. on' \notin shared' => ~AtWork(on)'
  <2>1. on \in Sessions
    BY DEF TypeInv, UiAt
  <2>2. QED
    BY <2>1 DEF HistoryInv, UiStep, AtWork
<1>3. \A t \in history' : t.session \notin shared' =>
          Lacks(ledger[t.session], t)' /\ Lacks(mem[t.session], t)'
  BY UiKeeps DEF Lacks
<1>4. QED
  BY <1>1, <1>2, <1>3, UiKeeps DEF HistoryInv

\* The job pops the record it was asked for.
LEMMA PopHistory ==
  ASSUME TypeInv, HistoryInv, UiHolds, UiStep, Pop(Ui) PROVE HistoryInv'
<1>t. TypeOK /\ Ui \in Actors /\ LedgerOf(Ui) = on
  BY UiIsNoSession DEF TypeInv, LedgerOf
<1>1. /\ pc[Ui] = "pop" /\ pc'[Ui] = "report" /\ UNCHANGED <<on, target, history, shared>>
      /\ ledger' = [ledger EXCEPT ![on] = FrontOf(mem[Ui])]
  BY <1>t DEF Pop, Goto, job, TypeOK
<1>2. UiHasTarget /\ UiHasTarget' /\ Aimed' = Aimed /\ on \in Sessions
  BY <1>1 DEF UiHasTarget, Aimed, TypeInv, UiAt
<1>3. /\ ledger'[on] = FrontOf(mem[Ui])
      /\ \A u \in Sessions \ {on} : ledger'[u] = ledger[u]
  BY <1>1, <1>2, <1>t DEF TypeOK
<1>4. ASSUME on \notin shared
      PROVE  /\ mem[Ui] = ledger[on] /\ ledger[on] # <<>> /\ ledger[on] \in Seq(Record)
             /\ target.index = Len(ledger[on])
  <2>1. /\ mem[Ui] = ledger[on] /\ ledger[on] # <<>>
        /\ target = [session |-> on, index |-> Len(ledger[on]), record |-> LastOf(ledger[on])]
    BY <1>1, <1>2, <1>4 DEF UiHolds
  <2>2. QED
    BY <2>1, <1>2, <1>t DEF TypeOK
<1>5. on' \notin shared' => Lacks(ledger[on], target)'
  <2>1. ASSUME on \notin shared PROVE Lacks(ledger'[on], target)
    <3>1. Len(ledger[on]) \in Nat \ {0} /\ Len(FrontOf(ledger[on])) = Len(ledger[on]) - 1
          /\ FrontOf(ledger[on]) \in Seq(Record)
      BY <1>4, <2>1, LastOfRecords
    <3>2. Len(ledger[on]) \notin DOMAIN FrontOf(ledger[on])
      BY <3>1
    <3>3. QED
      BY <1>3, <1>4, <2>1, <3>2 DEF Lacks
  <2>2. QED
    BY <1>1, <2>1 DEF Lacks
<1>6. ASSUME NEW t \in history, t.session \notin shared
      PROVE  Lacks(ledger'[t.session], t) /\ Lacks(mem'[t.session], t)
  <2>1. Lacks(ledger[t.session], t) /\ Lacks(mem'[t.session], t)
    BY <1>1, <1>6, UiKeeps
  <2>2. CASE t.session = on
    BY <1>3, <1>4, <1>6, <2>1, <2>2, FrontLacks
  <2>3. CASE t.session # on
    <3>1. t.session \in Sessions
      BY AimedIsTarget DEF Aimed
    <3>2. QED
      BY <1>3, <2>1, <2>3, <3>1
  <2>4. QED
    BY <2>2, <2>3
<1>7. \A t \in history' : t.session \notin shared' =>
          Lacks(ledger[t.session], t)' /\ Lacks(mem[t.session], t)'
  BY <1>1, <1>6 DEF Lacks
<1>8. on' \notin shared' => ~AtWork(on)'
  BY <1>1, <1>2 DEF HistoryInv, UiStep, AtWork
<1>9. QED
  BY <1>1, <1>2, <1>5, <1>7, <1>8, UiKeeps DEF HistoryInv

\* The job books its success.
LEMMA ReportHistory ==
  ASSUME TypeInv, ClockInv, HistoryInv, UiStep, Report PROVE HistoryInv'
<1>t. TypeOK /\ Ui \in Actors
  BY UiIsNoSession DEF TypeInv
<1>1. /\ pc[Ui] = "report" /\ pc'[Ui] = "idle" /\ history' = history \cup {target}
      /\ UNCHANGED <<ledger, shared>>
  BY <1>t, LeaveEffect DEF Report, Finished, files
<1>2. UiHasTarget /\ ~UiHasTarget' /\ Aimed' = Aimed /\ on \in Sessions /\ target.session = on
  BY <1>1 DEF UiHasTarget, Aimed, TypeInv, UiAt, HistoryInv
<1>3. ASSUME on \notin shared PROVE Lacks(ledger[on], target) /\ Lacks(mem'[on], target)
  <2>1. Lacks(ledger[on], target) /\ ~AtWork(on)
    BY <1>1, <1>2, <1>3 DEF HistoryInv
  <2>2. mem'[on] = <<>>
    BY <1>2, <2>1, RestOfSession DEF UiStep
  <2>3. QED
    BY <2>1, <2>2 DEF Lacks
<1>4. \A t \in history' : t.session \notin shared' =>
          Lacks(ledger[t.session], t)' /\ Lacks(mem[t.session], t)'
  BY <1>1, <1>2, <1>3, UiKeeps DEF Lacks
<1>5. QED
  BY <1>1, <1>2, <1>4, UiKeeps DEF HistoryInv

\* The job takes a target: the last record of a ledger, whose session is not at work or counted.
LEMMA ResolveHistory ==
  ASSUME TypeInv, ClockInv, HistoryInv, UiStep, Resolve PROVE HistoryInv'
<1>t. TypeOK /\ Ui \in Actors
  BY UiIsNoSession DEF TypeInv
<1>u. UNCHANGED ledger
  BY DEF Resolve, files
<1>1. ASSUME NEW t \in LatestTargets, target' = t, on' = t.session, history' = history \ {t},
             shared' = (IF AtWork(t.session) THEN shared \cup {t.session} ELSE shared),
             pc' = [pc EXCEPT ![Ui] = "undo"]
      PROVE  HistoryInv'
  <2>1. /\ t.session \in Sessions /\ ledger[t.session] # <<>>
        /\ t.record = LastOf(ledger[t.session])
    <3>1. /\ t.session \in Sessions /\ ledger[t.session] # <<>>
          /\ t = [session |-> t.session, index |-> Len(ledger[t.session]),
                  record |-> LastOf(ledger[t.session])]
      BY <1>t, LatestIsLast
    <3>2. QED
      BY <3>1
  <2>2. t.record.edits # <<>> /\ Kept(t.record.edits)
    <3>1. ledger[t.session] \in Seq(Record) /\ AllKept(ledger[t.session])
      BY <2>1, <1>t DEF TypeOK, TypeInv, BackupsExist
    <3>2. QED
      BY <2>1, <3>1, KeptFront
  <2>3. shared \subseteq shared' /\ pc'[Ui] = "undo" /\ UiHasTarget'
    BY <1>1, <1>t DEF TypeOK, UiHasTarget
  <2>4. Aimed' = (history \ {t}) \cup {t}
    BY <1>1, <2>3 DEF Aimed
  <2>5. t.session \notin shared' => pc[t.session] = "idle" /\ pc'[t.session] = "idle"
    BY <1>1, <2>1, RestOfSession DEF UiStep
  <2>6. \A r \in Aimed' : /\ r.record.edits # <<>> /\ Kept(r.record.edits)'
                          /\ r.session \notin shared' /\ pc'[r.session] \in Applying \cup {"save"} =>
                                r.record.edits[1].backup # FirstName(r.session)'
    <3>1. ASSUME NEW r \in history
          PROVE  /\ r.record.edits # <<>> /\ Kept(r.record.edits)'
                 /\ r.session \notin shared' /\ pc'[r.session] \in Applying \cup {"save"} =>
                       r.record.edits[1].backup # FirstName(r.session)'
      BY <2>3, UiKeeps DEF Aimed
    <3>2. Kept(t.record.edits)'
      BY <2>2 DEF UiStep, Kept
    <3>3. t.session \notin shared' => pc'[t.session] \notin Applying \cup {"save"}
      BY <2>5 DEF Applying
    <3>4. QED
      BY <2>2, <2>4, <3>1, <3>2, <3>3
  <2>7. \A r \in history' : r.session \notin shared' =>
            Lacks(ledger[r.session], r)' /\ Lacks(mem[r.session], r)'
    BY <1>1, <1>u, <2>3, UiKeeps DEF Lacks
  <2>8. on' \notin shared' => ~AtWork(on)'
    BY <1>1, <2>5 DEF AtWork
  <2>9. target'.session = on' /\ pc'[Ui] # "report"
    BY <1>1, <2>3
  <2>10. QED
    BY <2>6, <2>7, <2>8, <2>9 DEF HistoryInv
<1>2. CASE Goto(Ui, "idle") /\ UNCHANGED <<history, shared>>
  <2>1. pc'[Ui] = "idle"
    BY <1>2, <1>t DEF Goto, TypeOK
  <2>2. QED
    BY <1>2, <1>u, <2>1, UiStops
<1>3. QED
  BY <1>1, <1>2 DEF Resolve, Started, Goto

LEMMA UiHistory ==
  ASSUME TypeInv, ClockInv, HistoryInv, UiHolds, UiActs, UiStep PROVE HistoryInv'
<1>t. TypeOK /\ Ui \in Actors /\ LedgerOf(Ui) = on
  BY UiIsNoSession DEF TypeInv, LedgerOf
<1>1. CASE RollbackLoad(Ui)
  <2>1. pc[Ui] = "undo" /\ UNCHANGED <<history, shared, ledger>> /\ UiHasTarget
    BY <1>1 DEF RollbackLoad, files, UiHasTarget
  <2>2. CASE Leave(Ui)
    BY <2>1, <2>2, <1>t, LeaveEffect, UiStops
  <2>3. CASE Goto(Ui, "restore") /\ UNCHANGED job
    BY <2>1, <2>3, <1>t, UiGoesOn DEF Goto, job, TypeOK
  <2>4. QED
    BY <1>1, <2>2, <2>3 DEF RollbackLoad
<1>2. CASE Restore(Ui)
  <2>1. /\ pc[Ui] = "restore" /\ UNCHANGED <<on, target, history, shared, ledger>> /\ UiHasTarget
    BY <1>2 DEF Restore, job, UiHasTarget
  <2>2. pc'[Ui] \in {"restore", "pop"}
    BY <1>2, <1>t DEF Restore, Goto, TypeOK
  <2>3. QED
    BY <2>1, <2>2, UiGoesOn
<1>3. CASE Pop(Ui)
  BY <1>3, PopHistory
<1>4. CASE Abort(Ui)
  <2>1. pc'[Ui] = "idle" /\ UNCHANGED <<history, shared>>
    BY <1>4, <1>t, LeaveEffect DEF Abort
  <2>2. ledger' = ledger \/ ledger' = [ledger EXCEPT ![on] = <<>>]
    BY <1>4, <1>t DEF Abort, files
  <2>3. QED
    BY <2>1, <2>2, UiStops
<1>5. CASE Resolve
  BY <1>5, ResolveHistory
<1>6. CASE Report
  BY <1>6, ReportHistory
<1>7. ASSUME NEW what, Request(what) PROVE HistoryInv'
  <2>1. pc'[Ui] = "queued" /\ UNCHANGED <<history, shared, ledger>>
    BY <1>7, <1>t DEF Request, files, Goto, TypeOK
  <2>2. QED
    BY <2>1, UiStops
<1>8. QED
  BY <1>1, <1>2, <1>3, <1>4, <1>5, <1>6, <1>7 DEF UiActs

LEMMA HistorySteps ==
  ASSUME TypeInv, ClockInv, UiHolds, HistoryInv, [Next]_vars PROVE HistoryInv'
<1>1. CASE UNCHANGED vars
  <2>1. /\ UNCHANGED <<remote, time, backups, ledger, mem, pc, fix, made, on, target, history, shared>>
    BY <1>1 DEF vars
  <2>2. Aimed' = Aimed /\ (UiHasTarget' <=> UiHasTarget)
    BY <2>1 DEF Aimed, UiHasTarget
  <2>3. QED
    BY <2>1, <2>2 DEF HistoryInv, AtWork, Lacks, Kept, FirstName, Now, Place
<1>2. QED
  BY <1>1, HistoryOfTick, HistoryOfDeed, UiHistory, WhoActs

(***************************************************************************)
(* Whatever sessions apply and roll back, in any order and however they    *)
(* fail, the history never says of a record that it was rolled back that   *)
(* is in its ledger, unless the session was at work on the ledger during   *)
(* the job (record_rollback_finished, _identity).                          *)
(***************************************************************************)
THEOREM HistoryStaysTrue == Spec => []HistoryIsTrue
<1>1. Init => UiHolds /\ HistoryInv
  BY UiIsNoSession DEF Init, UiHolds, UiHasTarget, HistoryInv, Aimed
<1>2. TypeInv /\ UiHolds /\ [Next]_vars => UiHolds'
  BY StepHolds
<1>3. TypeInv /\ ClockInv /\ UiHolds /\ HistoryInv /\ [Next]_vars => HistoryInv'
  BY HistorySteps
<1>4. HistoryInv => HistoryIsTrue
  BY DEF HistoryInv, HistoryIsTrue, Lacks
<1>5. QED
  BY <1>1, <1>2, <1>3, <1>4, TypesHold, ClockHolds, PTL DEF Spec
=============================================================================
