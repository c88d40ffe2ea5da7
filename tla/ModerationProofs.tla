-------------------------- MODULE ModerationProofs --------------------------
(***************************************************************************)
(* Warnings and bans, then comment reports: what the row locks of the two  *)
(* services guarantee, for any number of administrators and of reports.    *)
(***************************************************************************)
EXTENDS Warnings, Reports, FiniteSetTheorems, TLAPS

(***************************************************************************)
(* What the row locks guarantee: a transaction that creates a warning      *)
(* knows the number of rows at its commit, and so does a removal that was  *)
(* not overtaken.                                                          *)
(***************************************************************************)

(* The count of a transaction that is about to commit, against the table.  *)
Exact(k, rows) ==
  /\ IsFiniteSet(k.ids)
  /\ k.pc = "update" =>
       /\ k.op \in {"warn", "remove"}
       /\ k.op = "warn" => k.count = Cardinality(rows \cup k.ids)
       /\ k.op = "remove" /\ ~k.stale => k.count = Cardinality(rows \ k.ids)

Counted == \A t \in AdminTasks : Exact(admin[t], warnings)

WarningsInv == WarningsTypeOK /\ Counted /\ CountIsRows /\ BannedForCause

LEMMA NoTaskType == NoTask \in AdminTask
  BY DEF NoTask, AdminTask

LEMMA NoTaskExact == ASSUME NEW rows PROVE Exact(NoTask, rows)
<1>1. IsFiniteSet({}) BY FS_EmptySet
<1> QED BY <1>1 DEF Exact, NoTask

LEMMA WarningsInitInv == WarningsInit => WarningsInv
<1> SUFFICES ASSUME WarningsInit PROVE WarningsInv OBVIOUS
<1>1. IsFiniteSet({}) /\ Cardinality({}) = 0 BY FS_EmptySet
<1>2. WarningsTypeOK BY <1>1, NoTaskType DEF WarningsInit, WarningsTypeOK
<1>3. Counted BY NoTaskExact DEF WarningsInit, Counted
<1>4. CountIsRows BY <1>1 DEF WarningsInit, CountIsRows
<1>5. BannedForCause BY <1>1 DEF WarningsInit, BannedForCause
<1> QED BY <1>2, <1>3, <1>4, <1>5 DEF WarningsInv

(* A step that changes only the task of t. *)
LEMMA AdminTaskStep ==
  ASSUME WarningsInv, NEW t \in AdminTasks, NEW k \in AdminTask, Exact(k, warnings),
         Becomes(t, k), UNCHANGED <<user, warnings, drifted, ruling>>
  PROVE  WarningsInv'
<1>1. admin' = [admin EXCEPT ![t] = k] BY DEF Becomes
<1>2. admin \in [AdminTasks -> AdminTask] BY DEF WarningsInv, WarningsTypeOK
<1>3. WarningsTypeOK' BY <1>1, <1>2 DEF WarningsInv, WarningsTypeOK
<1>4. Counted' BY <1>1, <1>2 DEF WarningsInv, Counted
<1>5. CountIsRows' BY DEF WarningsInv, CountIsRows
<1>6. BannedForCause' BY DEF WarningsInv, BannedForCause
<1> QED BY <1>3, <1>4, <1>5, <1>6 DEF WarningsInv

(* A commit writes what the transaction has counted; nobody else then      *)
(* holds a count that is taken for exact.                                  *)
LEMMA CommitStep ==
  ASSUME WarningsInv, NEW t \in AdminTasks, Counting(t), RowFree(t),
         user' = ByCount(admin[t].count), EndAndOutdate(t), ruling' = "none",
         warnings' \subseteq Warnings, IsFiniteSet(warnings'), drifted' \in BOOLEAN,
         ~drifted' => admin[t].count = Cardinality(warnings')
  PROVE  WarningsInv'
<1> USE DEF Counting
<1>1. admin \in [AdminTasks -> AdminTask] /\ admin[t] \in AdminTask
  BY DEF WarningsInv, WarningsTypeOK
<1>2. /\ admin' \in [AdminTasks -> AdminTask]
      /\ admin'[t] = NoTask
      /\ \A s \in AdminTasks : s # t =>
           admin'[s] = [admin[s] EXCEPT !.stale = @ \/ admin[s].pc = "update"]
  BY <1>1, NoTaskType DEF EndAndOutdate, AdminTask
<1>3. admin[t].count \in Nat BY <1>1 DEF AdminTask
<1>4. user' \in [isBanned: BOOLEAN, warningCount: Nat]
  BY <1>3 DEF ByCount
<1>5. WarningsTypeOK' BY <1>2, <1>4 DEF WarningsTypeOK
<1>6. Counted'
  <2>1. SUFFICES ASSUME NEW s \in AdminTasks PROVE Exact(admin'[s], warnings')
    BY DEF Counted
  <2>2. CASE s = t BY <2>2, <1>2, NoTaskExact
  <2>3. CASE s # t
    <3>1. admin[s] \in AdminTask /\ Exact(admin[s], warnings)
      BY <1>1 DEF WarningsInv, Counted
    <3>2. ~(admin[s].pc = "update" /\ admin[s].op = "warn")
      BY <2>3 DEF RowFree, Sharing
    <3>3. /\ admin'[s].ids = admin[s].ids
          /\ admin'[s].pc = admin[s].pc
          /\ admin'[s].op = admin[s].op
      BY <2>3, <1>2, <3>1 DEF AdminTask
    <3>4. admin[s].pc = "update" => admin'[s].stale
      BY <2>3, <1>2, <3>1 DEF AdminTask
    <3> QED BY <3>1, <3>2, <3>3, <3>4 DEF Exact
  <2> QED BY <2>2, <2>3
<1>7. CountIsRows' BY <1>3 DEF CountIsRows, ByCount
<1>8. BannedForCause'
  <2>1. user'.isBanned = (admin[t].count >= 3) BY DEF ByCount
  <2>2. ruling' # "ban" OBVIOUS
  <2>3. ~drifted' => (user'.isBanned <=> Cardinality(warnings') >= 3) BY <2>1
  <2>4. user'.isBanned \in BOOLEAN BY <1>3, <2>1
  <2> QED BY <2>2, <2>3, <2>4 DEF BannedForCause
<1> QED BY <1>5, <1>6, <1>7, <1>8 DEF WarningsInv

LEMMA ReadForWarningInv ==
  ASSUME WarningsInv, NEW t \in AdminTasks, ReadForWarning(t) PROVE WarningsInv'
<1> DEFINE k == [NoTask EXCEPT !.op = "warn", !.pc = "transaction"]
<1>1. k \in AdminTask BY DEF NoTask, AdminTask
<1>2. Exact(k, warnings) BY FS_EmptySet DEF Exact, NoTask
<1> QED BY <1>1, <1>2, AdminTaskStep DEF ReadForWarning

LEMMA InsertWarningInv ==
  ASSUME WarningsInv, NEW t \in AdminTasks, NEW w \in Warnings, InsertWarning(t, w) PROVE WarningsInv'
<1> DEFINE k == [admin[t] EXCEPT !.pc = "update", !.ids = {w},
                                 !.count = Cardinality(warnings) + 1]
<1>1. admin[t] \in AdminTask /\ IsFiniteSet(warnings) BY DEF WarningsInv, WarningsTypeOK
<1>2. /\ Cardinality(warnings) \in Nat
      /\ Cardinality(warnings \cup {w}) = Cardinality(warnings) + 1
  <2>1. w \notin warnings BY DEF InsertWarning
  <2>2. Cardinality(warnings) \in Nat BY <1>1, FS_CardinalityType
  <2> QED BY <1>1, <2>1, <2>2, FS_AddElement
<1>3. k \in AdminTask
  <2>1. {w} \in SUBSET Warnings OBVIOUS
  <2>2. Cardinality(warnings) + 1 \in Nat BY <1>2
  <2>3. ASSUME NEW c \in Nat, NEW ids \in SUBSET Warnings
        PROVE  [admin[t] EXCEPT !.pc = "update", !.ids = ids, !.count = c] \in AdminTask
    BY <1>1 DEF AdminTask
  <2> QED BY <2>1, <2>2, <2>3
<1>4. IsFiniteSet({w}) BY FS_Singleton
<1>5. admin[t].op = "warn" BY DEF InsertWarning
<1>6. Exact(k, warnings) BY <1>1, <1>2, <1>4, <1>5 DEF Exact, AdminTask
<1>7. Becomes(t, k) BY DEF InsertWarning
<1> QED BY <1>3, <1>6, <1>7, AdminTaskStep DEF InsertWarning

LEMMA CommitWarningInv ==
  ASSUME WarningsInv, NEW t \in AdminTasks, CommitWarning(t)
  PROVE  WarningsInv' /\ user' = ByCount(Cardinality(warnings'))
<1>1. admin[t] \in AdminTask /\ IsFiniteSet(warnings) /\ warnings \subseteq Warnings
  BY DEF WarningsInv, WarningsTypeOK
<1>2. Exact(admin[t], warnings) BY DEF WarningsInv, Counted
<1>3. /\ warnings' = warnings \cup admin[t].ids
      /\ Counting(t) /\ admin[t].op = "warn" /\ RowFree(t) /\ EndAndOutdate(t)
      /\ user' = ByCount(admin[t].count) /\ drifted' = FALSE /\ ruling' = "none"
  BY DEF CommitWarning
<1>4. IsFiniteSet(warnings') BY <1>1, <1>2, <1>3, FS_Union DEF Exact
<1>5. warnings' \subseteq Warnings BY <1>1, <1>3 DEF AdminTask
<1>6. admin[t].count = Cardinality(warnings') BY <1>2, <1>3 DEF Exact, Counting
<1>7. WarningsInv' BY <1>3, <1>4, <1>5, <1>6, CommitStep
<1> QED BY <1>3, <1>6, <1>7

LEMMA ReadForRemoveInv ==
  ASSUME WarningsInv, NEW t \in AdminTasks, NEW w \in Warnings, ReadForRemove(t, w) PROVE WarningsInv'
<1> DEFINE k == [NoTask EXCEPT !.op = "remove", !.pc = "transaction", !.ids = {w}]
<1>1. k \in AdminTask BY DEF NoTask, AdminTask
<1>2. Exact(k, warnings) BY FS_Singleton DEF Exact, NoTask
<1> QED BY <1>1, <1>2, AdminTaskStep DEF ReadForRemove

LEMMA DeleteWarningInv ==
  ASSUME WarningsInv, NEW t \in AdminTasks, DeleteWarning(t) PROVE WarningsInv'
<1> DEFINE k == [admin[t] EXCEPT !.pc = "update", !.count = Cardinality(Remaining(t))]
<1>1. admin[t] \in AdminTask /\ IsFiniteSet(warnings) BY DEF WarningsInv, WarningsTypeOK
<1>2. Remaining(t) = warnings \ admin[t].ids BY DEF Remaining
<1>3. Cardinality(Remaining(t)) \in Nat
  BY <1>1, <1>2, FS_Difference, FS_CardinalityType
<1>4. k \in AdminTask BY <1>1, <1>3 DEF AdminTask
<1>5. Exact(admin[t], warnings) /\ admin[t].op = "remove"
  BY DEF WarningsInv, Counted, DeleteWarning
<1>6. Exact(k, warnings) BY <1>1, <1>2, <1>5 DEF Exact, AdminTask
<1>7. Becomes(t, k) BY DEF DeleteWarning
<1> QED BY <1>4, <1>6, <1>7, AdminTaskStep DEF DeleteWarning

LEMMA CommitRemoveInv ==
  ASSUME WarningsInv, NEW t \in AdminTasks, CommitRemove(t) PROVE WarningsInv'
<1>1. admin[t] \in AdminTask /\ IsFiniteSet(warnings) /\ warnings \subseteq Warnings
  BY DEF WarningsInv, WarningsTypeOK
<1>2. Exact(admin[t], warnings) BY DEF WarningsInv, Counted
<1>3. /\ warnings' = warnings \ admin[t].ids
      /\ Counting(t) /\ admin[t].op = "remove" /\ RowFree(t) /\ EndAndOutdate(t)
      /\ user' = ByCount(admin[t].count) /\ drifted' = admin[t].stale /\ ruling' = "none"
  BY DEF CommitRemove
<1>4. IsFiniteSet(warnings') BY <1>1, <1>3, FS_Difference
<1>5. warnings' \subseteq Warnings BY <1>1, <1>3
<1>6. drifted' \in BOOLEAN BY <1>1, <1>3 DEF AdminTask
<1>7. ~drifted' => admin[t].count = Cardinality(warnings')
  BY <1>2, <1>3 DEF Exact, Counting
<1> QED BY <1>3, <1>4, <1>5, <1>6, <1>7, CommitStep

LEMMA ReadForBanInv ==
  ASSUME WarningsInv, NEW t \in AdminTasks, ReadForBan(t) PROVE WarningsInv'
<1> DEFINE k == [NoTask EXCEPT !.op = IF user.isBanned THEN "unban" ELSE "ban",
                               !.pc = "transaction"]
<1>1. k \in AdminTask BY DEF NoTask, AdminTask
<1>2. Exact(k, warnings) BY FS_EmptySet DEF Exact, NoTask
<1> QED BY <1>1, <1>2, AdminTaskStep DEF ReadForBan

LEMMA WriteBanInv ==
  ASSUME WarningsInv, NEW t \in AdminTasks, WriteBan(t) PROVE WarningsInv'
<1>1. /\ admin' = [admin EXCEPT ![t] = NoTask]
      /\ user' = [user EXCEPT !.isBanned = (admin[t].op = "ban")]
      /\ ruling' = admin[t].op /\ ruling' \in {"ban", "unban"}
      /\ UNCHANGED <<warnings, drifted>>
  BY DEF WriteBan, Becomes
<1>2. /\ admin \in [AdminTasks -> AdminTask]
      /\ user \in [isBanned: BOOLEAN, warningCount: Nat]
  BY DEF WarningsInv, WarningsTypeOK
<1>3. /\ user' \in [isBanned: BOOLEAN, warningCount: Nat]
      /\ user'.warningCount = user.warningCount
      /\ user'.isBanned = (ruling' = "ban")
  BY <1>1, <1>2
<1>4. WarningsTypeOK' BY <1>1, <1>2, <1>3, NoTaskType DEF WarningsInv, WarningsTypeOK
<1>5. Counted' BY <1>1, <1>2, NoTaskExact DEF WarningsInv, Counted
<1>6. CountIsRows' BY <1>1, <1>3 DEF WarningsInv, CountIsRows
<1>7. BannedForCause' BY <1>1, <1>3 DEF BannedForCause
<1> QED BY <1>4, <1>5, <1>6, <1>7 DEF WarningsInv

LEMMA FailAdminInv ==
  ASSUME WarningsInv, NEW t \in AdminTasks, FailAdmin(t) PROVE WarningsInv'
  BY NoTaskType, NoTaskExact, AdminTaskStep DEF FailAdmin

LEMMA WarningsStutterInv == ASSUME WarningsInv, UNCHANGED warningsVars PROVE WarningsInv'
  BY DEF WarningsInv, warningsVars, WarningsTypeOK, Counted, Exact, CountIsRows, BannedForCause

LEMMA WarningsStepInv == WarningsInv /\ [WarningsNext]_warningsVars => WarningsInv'
<1> SUFFICES ASSUME WarningsInv, [WarningsNext]_warningsVars PROVE WarningsInv' OBVIOUS
<1>1. CASE UNCHANGED warningsVars BY <1>1, WarningsStutterInv
<1>2. ASSUME NEW t \in AdminTasks, ReadForWarning(t) \/ CommitWarning(t) PROVE WarningsInv'
  BY <1>2, ReadForWarningInv, CommitWarningInv
<1>3. ASSUME NEW t \in AdminTasks, DeleteWarning(t) \/ CommitRemove(t) PROVE WarningsInv'
  BY <1>3, DeleteWarningInv, CommitRemoveInv
<1>4. ASSUME NEW t \in AdminTasks, ReadForBan(t) \/ WriteBan(t) \/ FailAdmin(t) PROVE WarningsInv'
  BY <1>4, ReadForBanInv, WriteBanInv, FailAdminInv
<1>5. ASSUME NEW t \in AdminTasks, NEW w \in Warnings,
             InsertWarning(t, w) \/ ReadForRemove(t, w)
      PROVE WarningsInv'
  BY <1>5, InsertWarningInv, ReadForRemoveInv
<1> QED BY <1>1, <1>2, <1>3, <1>4, <1>5 DEF WarningsNext

LEMMA WarningsInvariant == WarningsSpec => []WarningsInv
<1>1. WarningsInit => WarningsInv BY WarningsInitInv
<1>2. WarningsInv /\ [WarningsNext]_warningsVars => WarningsInv' BY WarningsStepInv
<1> QED BY <1>1, <1>2, PTL DEF WarningsSpec

(* Counts stay natural numbers and the table finite, for any admins and    *)
(* any supply of warnings.                                                 *)
THEOREM WarningsTypeCorrect == WarningsSpec => []WarningsTypeOK
<1>1. WarningsInv => WarningsTypeOK BY DEF WarningsInv
<1> QED BY <1>1, WarningsInvariant, PTL

(* warning_count is the number of rows unless the last change was a        *)
(* removal that had been overtaken.                                        *)
THEOREM CountCorrect == WarningsSpec => []CountIsRows
<1>1. WarningsInv => CountIsRows BY DEF WarningsInv
<1> QED BY <1>1, WarningsInvariant, PTL

(* Whoever is banned has three warnings or was banned by an admin since.   *)
THEOREM BanCorrect == WarningsSpec => []BannedForCause
<1>1. WarningsInv => BannedForCause BY DEF WarningsInv
<1> QED BY <1>1, WarningsInvariant, PTL

LEMMA StepCounts ==
  WarningsInv /\ [WarningsNext]_warningsVars =>
    [~(warnings' \subseteq warnings) => user' = ByCount(Cardinality(warnings'))]_warningsVars
<1> SUFFICES ASSUME WarningsInv, [WarningsNext]_warningsVars, ~(warnings' \subseteq warnings)
             PROVE  user' = ByCount(Cardinality(warnings'))
  OBVIOUS
<1>1. ~UNCHANGED warnings OBVIOUS
<1>2. ASSUME NEW t \in AdminTasks, CommitRemove(t) PROVE FALSE BY <1>2 DEF CommitRemove
<1>3. PICK t \in AdminTasks : CommitWarning(t)
  BY <1>1, <1>2 DEF WarningsNext, warningsVars, ReadForWarning, InsertWarning,
     ReadForRemove, DeleteWarning, ReadForBan, WriteBan, FailAdmin
<1> QED BY <1>3, CommitWarningInv

(* A created warning is counted with all that exist at its commit.         *)
THEOREM CreationCountsAll == WarningsSpec => CreatedWarningCountsAll
<1>1. WarningsInv /\ [WarningsNext]_warningsVars =>
        [~(warnings' \subseteq warnings) => user' = ByCount(Cardinality(warnings'))]_warningsVars
  BY StepCounts
<1> QED BY <1>1, WarningsInvariant, PTL DEF WarningsSpec, CreatedWarningCountsAll


-----------------------------------------------------------------------------
(***************************************************************************)
(* Why the racing writes of one comment's counter and flag are exact: an   *)
(* inserted report keeps the comment's row from being written, so what its *)
(* transaction has read is still there when it commits.  Reviews lock      *)
(* nothing of the kind: two dismissals can each count the other's report.  *)
(***************************************************************************)

(* A request in flight is about one report. *)
About == \A t \in ReportTasks :
           work[t].op # "none" => \E r \in Reporters : work[t].who = {r}

(* What the holder of the row lock has read is what is there. *)
Fresh(t) == /\ comment.exists
            /\ work[t].who \cap Filed = {}
            /\ work[t].count = comment.reportCount
            /\ work[t].isHidden = comment.isHidden

Locked == \A t \in ReportTasks : Doing(t, "report", "transaction") => Fresh(t)

AllDismissed == Filed # {} /\ \A r \in Filed : report[r] = "DISMISSED"

AutoHidden == comment.exists /\ comment.isHidden /\ ~byHand

(* A comment that stays hidden without reports was left so by a review     *)
(* that was overtaken.                                                     *)
Left == AutoHidden /\ AllDismissed => overtaken

ReportsInv == ReportsTypeOK /\ About /\ Locked /\ CountMatchesReports /\ Left

-----------------------------------------------------------------------------
LEMMA NoWorkType == NoWork \in Work /\ NoWork.op = "none"
  BY DEF NoWork, Work, Statuses

LEMMA FiledFinite == /\ IsFiniteSet(Filed) /\ Filed \subseteq Reporters
                     /\ Cardinality(Filed) \in Nat
<1>1. Filed \subseteq Reporters BY DEF Filed
<1>2. IsFiniteSet(Filed) BY <1>1, ReportsAssumption, FS_Subset
<1> QED BY <1>1, <1>2, FS_CardinalityType

LEMMA PendingFinite ==
  ASSUME NEW t \in ReportTasks
  PROVE  IsFiniteSet(StillPending(t)) /\ Cardinality(StillPending(t)) \in Nat
<1>1. StillPending(t) \subseteq Reporters BY DEF StillPending, Pending
<1>2. IsFiniteSet(StillPending(t)) BY <1>1, ReportsAssumption, FS_Subset
<1> QED BY <1>2, FS_CardinalityType

LEMMA ReportsInitInv == ReportsInit => ReportsInv
<1> SUFFICES ASSUME ReportsInit PROVE ReportsInv OBVIOUS
<1>1. ReportsTypeOK BY NoWorkType DEF ReportsInit, ReportsTypeOK
<1>2. About /\ Locked
  BY NoWorkType DEF ReportsInit, About, Locked, Doing
<1>3. Filed = {} BY DEF ReportsInit, Filed
<1>4. CountMatchesReports BY <1>3, FS_EmptySet DEF ReportsInit, CountMatchesReports
<1>5. Left BY DEF ReportsInit, Left, AutoHidden
<1> QED BY <1>1, <1>2, <1>4, <1>5 DEF ReportsInv

(* A step that changes only the request of t, to one that is idle or has   *)
(* read what is there.                                                     *)
WorkBecomes(t, w) ==
  /\ w \in Work /\ Set(t, w) /\ UNCHANGED <<comment, report, byHand, overtaken>>
  /\ w.op # "none" => \E r \in Reporters : w.who = {r}

LEMMA WorkStep ==
  ASSUME ReportsInv, NEW t \in ReportTasks, NEW w, WorkBecomes(t, w),
         w.op = "report" /\ w.pc = "transaction" => Fresh(t)'
  PROVE  ReportsInv'
<1>1. /\ work' = [work EXCEPT ![t] = w] /\ work \in [ReportTasks -> Work]
      /\ UNCHANGED <<comment, report, byHand, overtaken>> /\ w \in Work
  BY DEF WorkBecomes, Set, ReportsInv, ReportsTypeOK
<1>2. work'[t] = w /\ \A s \in ReportTasks : s # t => work'[s] = work[s]
  BY <1>1
<1>3. ReportsTypeOK' BY <1>1 DEF ReportsInv, ReportsTypeOK
<1>4. About' BY <1>1, <1>2 DEF ReportsInv, About, WorkBecomes
<1>5. Filed' = Filed BY <1>1 DEF Filed
<1>6. Locked'
  <2>1. SUFFICES ASSUME NEW s \in ReportTasks, Doing(s, "report", "transaction")'
                 PROVE  Fresh(s)'
    BY DEF Locked
  <2>2. CASE s = t BY <2>1, <2>2, <1>2 DEF Doing
  <2>3. CASE s # t
    <3>1. Fresh(s) BY <2>1, <2>3, <1>2 DEF ReportsInv, Locked, Doing
    <3> QED BY <3>1, <2>3, <1>1, <1>2, <1>5 DEF Fresh
  <2> QED BY <2>2, <2>3
<1>7. CountMatchesReports' BY <1>1, <1>5 DEF ReportsInv, CountMatchesReports
<1>8. Left' BY <1>1, <1>5 DEF ReportsInv, Left, AutoHidden, AllDismissed
<1> QED BY <1>3, <1>4, <1>6, <1>7, <1>8 DEF ReportsInv

LEMMA ReadForReportInv ==
  ASSUME ReportsInv, NEW t \in ReportTasks, NEW r \in Reporters, ReadForReport(t, r) PROVE ReportsInv'
<1> DEFINE w == [NoWork EXCEPT !.op = "report", !.pc = "read", !.who = {r}]
<1>1. w \in Work /\ w.op = "report" /\ w.pc = "read" /\ w.who = {r}
  BY DEF NoWork, Work, Statuses
<1>2. WorkBecomes(t, w) BY <1>1 DEF ReadForReport, WorkBecomes
<1> QED BY <1>1, <1>2, WorkStep

LEMMA InsertReportInv ==
  ASSUME ReportsInv, NEW t \in ReportTasks, InsertReport(t) PROVE ReportsInv'
<1> DEFINE w == [work[t] EXCEPT !.pc = "transaction", !.count = comment.reportCount,
                                !.isHidden = comment.isHidden]
<1>1. /\ work \in [ReportTasks -> Work] /\ work[t] \in Work
      /\ comment.reportCount \in Nat /\ comment.isHidden \in BOOLEAN
  BY DEF ReportsInv, ReportsTypeOK
<1>2. /\ work[t].op = "report" /\ comment.exists /\ work[t].who \cap Filed = {}
      /\ Set(t, w) /\ UNCHANGED <<comment, report, byHand, overtaken>>
  BY DEF InsertReport, Doing
<1>3. /\ w \in Work /\ w.op = "report" /\ w.who = work[t].who
      /\ w.count = comment.reportCount /\ w.isHidden = comment.isHidden
  BY <1>1, <1>2 DEF Work
<1>4. WorkBecomes(t, w) BY <1>2, <1>3 DEF WorkBecomes, ReportsInv, About
<1>5. work'[t] = w BY <1>1, <1>2 DEF Set
<1>6. Filed' = Filed BY <1>2 DEF Filed
<1>7. Fresh(t)' BY <1>2, <1>3, <1>5, <1>6 DEF Fresh
<1> QED BY <1>3, <1>4, <1>7, WorkStep

LEMMA ReadForReviewInv ==
  ASSUME ReportsInv, NEW t \in ReportTasks, NEW r \in Reporters, NEW s \in Statuses,
         ReadForReview(t, r, s)
  PROVE  ReportsInv'
<1> DEFINE w == [NoWork EXCEPT !.op = "review", !.pc = "read", !.who = {r},
                               !.status = s, !.isHidden = comment.isHidden]
<1>1. comment.isHidden \in BOOLEAN BY DEF ReportsInv, ReportsTypeOK
<1>2. w \in Work /\ w.op = "review" /\ w.who = {r} BY <1>1 DEF NoWork, Work
<1>3. Set(t, w) /\ UNCHANGED <<comment, report, byHand, overtaken>> BY DEF ReadForReview
<1>4. WorkBecomes(t, w) BY <1>2, <1>3 DEF WorkBecomes
<1> QED BY <1>2, <1>4, WorkStep

LEMMA CountPendingInv ==
  ASSUME ReportsInv, NEW t \in ReportTasks, CountPending(t) PROVE ReportsInv'
<1> DEFINE n == Cardinality(StillPending(t))
           w == [work[t] EXCEPT !.pc = "transaction", !.count = n]
<1>1. work \in [ReportTasks -> Work] /\ work[t] \in Work BY DEF ReportsInv, ReportsTypeOK
<1>2. /\ work[t].op = "review" /\ Set(t, w)
      /\ UNCHANGED <<comment, report, byHand, overtaken>>
  BY DEF CountPending, Doing
<1>3. n \in Nat BY PendingFinite
<1> HIDE DEF n
<1>4. w \in Work /\ w.op = "review" /\ w.who = work[t].who BY <1>1, <1>2, <1>3 DEF Work
<1>5. WorkBecomes(t, w) BY <1>2, <1>4 DEF WorkBecomes, ReportsInv, About
<1> QED BY <1>4, <1>5, WorkStep

LEMMA FailReportInv ==
  ASSUME ReportsInv, NEW t \in ReportTasks, FailReport(t) PROVE ReportsInv'
<1>1. WorkBecomes(t, NoWork) BY NoWorkType DEF FailReport, WorkBecomes
<1> QED BY <1>1, NoWorkType, WorkStep

-----------------------------------------------------------------------------
LEMMA CommitReportInv ==
  ASSUME ReportsInv, NEW t \in ReportTasks, CommitReport(t)
  PROVE  /\ ReportsInv'
         /\ comment'.isHidden <=> \/ comment.isHidden
                                  \/ Cardinality(Filed') >= AUTO_HIDE_THRESHOLD
<1>1. /\ work \in [ReportTasks -> Work] /\ report \in [Reporters -> Statuses \cup {"none"}]
      /\ comment \in [exists: BOOLEAN, reportCount: Nat, isHidden: BOOLEAN]
      /\ byHand \in BOOLEAN /\ overtaken \in BOOLEAN
  BY DEF ReportsInv, ReportsTypeOK
<1>2. /\ work[t].op = "report" /\ work[t].pc = "transaction" /\ Writable(t)
      /\ report' = [r \in Reporters |-> IF r \in work[t].who THEN "PENDING" ELSE report[r]]
      /\ work' = [work EXCEPT ![t] = NoWork] /\ UNCHANGED <<byHand, overtaken>>
  BY DEF CommitReport, Doing, Set
<1>3. Fresh(t) BY <1>2 DEF ReportsInv, Locked, Doing
<1>4. PICK r \in Reporters : work[t].who = {r} BY <1>2 DEF ReportsInv, About
<1>5. r \notin Filed /\ report'[r] = "PENDING"
      /\ \A x \in Reporters : x # r => report'[x] = report[x]
  BY <1>2, <1>3, <1>4 DEF Fresh
<1>6. Filed' = Filed \cup {r} BY <1>5 DEF Filed
<1>7. Cardinality(Filed') = Cardinality(Filed) + 1
  BY <1>5, <1>6, FiledFinite, FS_AddElement
<1>8. comment.exists /\ comment.reportCount = Cardinality(Filed)
  BY <1>3 DEF Fresh, ReportsInv, CountMatchesReports
<1>9. /\ comment'.exists /\ comment'.reportCount = Cardinality(Filed')
      /\ comment' \in [exists: BOOLEAN, reportCount: Nat, isHidden: BOOLEAN]
      /\ comment'.isHidden <=> comment.isHidden \/ Cardinality(Filed') >= AUTO_HIDE_THRESHOLD
  <2>1. comment' = [comment EXCEPT
          !.reportCount = comment.reportCount + 1,
          !.isHidden = comment.isHidden \/ AutoHides(comment.reportCount + 1)]
    BY <1>3 DEF CommitReport, Fresh
  <2>2. comment.reportCount + 1 = Cardinality(Filed') BY <1>7, <1>8
  <2>3. AutoHides(comment.reportCount + 1) <=> Cardinality(Filed') >= AUTO_HIDE_THRESHOLD
    BY <2>2 DEF AutoHides
  <2>4. (comment.isHidden \/ AutoHides(comment.reportCount + 1)) \in BOOLEAN OBVIOUS
  <2>5. ASSUME NEW n \in Nat, NEW h \in BOOLEAN,
               comment' = [comment EXCEPT !.reportCount = n, !.isHidden = h]
        PROVE  /\ comment' \in [exists: BOOLEAN, reportCount: Nat, isHidden: BOOLEAN]
               /\ comment'.exists = comment.exists
               /\ comment'.reportCount = n /\ comment'.isHidden = h
    BY <2>5, <1>1
  <2>6. comment.reportCount + 1 \in Nat BY <1>1
  <2>7. /\ comment' \in [exists: BOOLEAN, reportCount: Nat, isHidden: BOOLEAN]
        /\ comment'.exists = comment.exists
        /\ comment'.reportCount = comment.reportCount + 1
        /\ comment'.isHidden = (comment.isHidden \/ AutoHides(comment.reportCount + 1))
    BY <2>1, <2>4, <2>5, <2>6
  <2> QED BY <2>7, <2>2, <2>3, <1>8
<1>10. work'[t] = NoWork /\ \A s \in ReportTasks : s # t => work'[s] = work[s]
  BY <1>1, <1>2
<1>11. ReportsTypeOK'
  <2>1. report' \in [Reporters -> Statuses \cup {"none"}]
    BY <1>1, <1>2 DEF Statuses
  <2>2. work' \in [ReportTasks -> Work] BY <1>1, <1>2, NoWorkType
  <2> QED BY <2>1, <2>2, <1>1, <1>2, <1>9 DEF ReportsTypeOK
<1>12. About' BY <1>10, NoWorkType DEF ReportsInv, About
<1>13. Locked'
  <2>1. \A s \in ReportTasks : s # t => ~(work[s].op = "report" /\ work[s].pc = "transaction")
    BY <1>2 DEF Writable, Inserting, Doing
  <2> QED BY <2>1, <1>10, NoWorkType DEF Locked, Doing
<1>14. CountMatchesReports' BY <1>9 DEF CountMatchesReports
<1>15. Left' BY <1>5, <1>6 DEF Left, AllDismissed
<1>16. ReportsInv' BY <1>11, <1>12, <1>13, <1>14, <1>15 DEF ReportsInv
<1> QED BY <1>9, <1>16

LEMMA CommitReviewInv ==
  ASSUME ReportsInv, NEW t \in ReportTasks, CommitReview(t) PROVE ReportsInv' /\ Filed' = Filed
<1>1. /\ work \in [ReportTasks -> Work] /\ report \in [Reporters -> Statuses \cup {"none"}]
      /\ comment \in [exists: BOOLEAN, reportCount: Nat, isHidden: BOOLEAN]
      /\ byHand \in BOOLEAN /\ work[t] \in Work /\ work[t].status \in Statuses
  BY DEF ReportsInv, ReportsTypeOK, Work
<1>2. /\ work[t].op = "review" /\ work[t].pc = "transaction" /\ work[t].who \subseteq Filed
      /\ report' = [r \in Reporters |-> IF r \in work[t].who THEN work[t].status ELSE report[r]]
      /\ work' = [work EXCEPT ![t] = NoWork]
  BY DEF CommitReview, Doing, Set
<1>3. PICK r \in Reporters : work[t].who = {r} BY <1>2 DEF ReportsInv, About
<1>4. /\ r \in Filed /\ report'[r] = work[t].status
      /\ \A x \in Reporters : x # r => report'[x] = report[x]
  BY <1>2, <1>3
<1>5. Filed' = Filed BY <1>1, <1>4 DEF Filed, Statuses
<1>6. /\ comment' \in [exists: BOOLEAN, reportCount: Nat, isHidden: BOOLEAN]
      /\ comment'.exists = comment.exists /\ comment'.reportCount = comment.reportCount
      /\ comment'.isHidden <=> Hides(t) \/ (comment.isHidden /\ ~Unhides(t))
      /\ byHand' \in BOOLEAN /\ overtaken' \in BOOLEAN
      /\ byHand' <=> byHand /\ ~Unhides(t)
      /\ ~overtaken' => /\ work[t].isHidden = comment.isHidden
                        /\ work[t].count = Cardinality(StillPending(t))
  <2>1. ASSUME NEW h \in BOOLEAN, comment' = [comment EXCEPT !.isHidden = h]
        PROVE  /\ comment' \in [exists: BOOLEAN, reportCount: Nat, isHidden: BOOLEAN]
               /\ comment'.exists = comment.exists
               /\ comment'.reportCount = comment.reportCount /\ comment'.isHidden = h
    BY <2>1, <1>1
  <2>2. comment' = [comment EXCEPT !.isHidden = Hides(t) \/ (comment.isHidden /\ ~Unhides(t))]
    BY DEF CommitReview
  <2>3. (Hides(t) \/ (comment.isHidden /\ ~Unhides(t))) \in BOOLEAN OBVIOUS
  <2>4. /\ byHand' = (byHand /\ ~Unhides(t))
        /\ overtaken' = \/ work[t].isHidden # comment.isHidden
                        \/ work[t].count # Cardinality(StillPending(t))
    BY DEF CommitReview
  <2> QED BY <2>1, <2>2, <2>3, <2>4
<1>7. work'[t] = NoWork /\ \A s \in ReportTasks : s # t => work'[s] = work[s]
  BY <1>1, <1>2
<1>8. ReportsTypeOK'
  <2>1. report' \in [Reporters -> Statuses \cup {"none"}] BY <1>1, <1>2
  <2>2. work' \in [ReportTasks -> Work] BY <1>1, <1>2, NoWorkType
  <2> QED BY <2>1, <2>2, <1>6 DEF ReportsTypeOK
<1>9. About' BY <1>7, NoWorkType DEF ReportsInv, About
<1>10. Locked'
  <2>1. SUFFICES ASSUME NEW s \in ReportTasks, Doing(s, "report", "transaction")'
                 PROVE  Fresh(s)'
    BY DEF Locked
  <2>2. s # t /\ work'[s] = work[s] BY <2>1, <1>7, NoWorkType DEF Doing
  <2>3. Doing(s, "report", "transaction") BY <2>1, <2>2 DEF Doing
  <2>4. Fresh(s) BY <2>3 DEF ReportsInv, Locked
  <2>5. ~Writable(t) BY <2>2, <2>3 DEF Writable, Inserting
  <2>6. ~Hides(t) /\ ~Unhides(t) BY <2>5 DEF CommitReview
  <2>7. comment'.isHidden = comment.isHidden BY <2>6, <1>1, <1>6
  <2> QED BY <2>2, <2>4, <2>7, <1>5, <1>6 DEF Fresh
<1>11. CountMatchesReports' BY <1>5, <1>6 DEF ReportsInv, CountMatchesReports
<1>12. Left'
  <2>1. SUFFICES ASSUME AutoHidden', AllDismissed', ~overtaken' PROVE FALSE
    BY <1>6 DEF Left
  <2>2. work[t].status = "DISMISSED" BY <2>1, <1>4, <1>5 DEF AllDismissed
  <2>3. StillPending(t) = {}
    <3>1. SUFFICES ASSUME NEW x \in Reporters, report[x] = "PENDING", x # r
                   PROVE  FALSE
      BY <1>3 DEF StillPending, Pending
    <3>2. x \in Filed' /\ report'[x] = "PENDING" BY <3>1, <1>4, <1>5 DEF Filed
    <3> QED BY <3>2, <2>1 DEF AllDismissed
  <2>4. comment.isHidden BY <2>1, <2>2, <1>6 DEF AutoHidden, Hides
  <2>5. work[t].count = 0 /\ work[t].isHidden
    BY <2>1, <2>3, <2>4, <1>6, FS_EmptySet
  <2>6. Unhides(t) BY <2>2, <2>5 DEF Unhides
  <2> QED BY <2>1, <2>2, <2>6, <1>6 DEF AutoHidden, Hides
<1> QED BY <1>5, <1>8, <1>9, <1>10, <1>11, <1>12 DEF ReportsInv

LEMMA HideCommentInv ==
  ASSUME ReportsInv, NEW hide \in BOOLEAN, HideComment(hide) PROVE ReportsInv'
<1>1. /\ comment \in [exists: BOOLEAN, reportCount: Nat, isHidden: BOOLEAN]
      /\ UNCHANGED <<report, work, overtaken>> /\ comment' = [comment EXCEPT !.isHidden = hide]
      /\ byHand' = hide /\ Inserting = {}
  BY DEF ReportsInv, ReportsTypeOK, HideComment
<1>2. /\ comment' \in [exists: BOOLEAN, reportCount: Nat, isHidden: BOOLEAN]
      /\ comment'.exists = comment.exists /\ comment'.reportCount = comment.reportCount
      /\ comment'.isHidden = hide
  BY <1>1
<1>3. ReportsTypeOK' BY <1>1, <1>2 DEF ReportsInv, ReportsTypeOK
<1>4. About' BY <1>1 DEF ReportsInv, About
<1>5. Locked' BY <1>1 DEF Locked, Inserting, Doing
<1>6. Filed' = Filed BY <1>1 DEF Filed
<1>7. CountMatchesReports' BY <1>2, <1>6 DEF ReportsInv, CountMatchesReports
<1>8. ~AutoHidden' BY <1>1, <1>2 DEF AutoHidden
<1>9. Left' BY <1>8 DEF Left
<1> QED BY <1>3, <1>4, <1>5, <1>7, <1>9 DEF ReportsInv

LEMMA DeleteCommentInv == ASSUME ReportsInv, DeleteComment PROVE ReportsInv' /\ Filed' = {}
<1>1. /\ comment \in [exists: BOOLEAN, reportCount: Nat, isHidden: BOOLEAN]
      /\ UNCHANGED <<byHand, work, overtaken>> /\ comment' = [comment EXCEPT !.exists = FALSE]
      /\ report' = [r \in Reporters |-> "none"] /\ Inserting = {}
  BY DEF ReportsInv, ReportsTypeOK, DeleteComment
<1>2. /\ comment' \in [exists: BOOLEAN, reportCount: Nat, isHidden: BOOLEAN]
      /\ ~comment'.exists
  BY <1>1
<1>3. ReportsTypeOK' BY <1>1, <1>2 DEF ReportsInv, ReportsTypeOK
<1>4. About' BY <1>1 DEF ReportsInv, About
<1>5. Locked' BY <1>1 DEF Locked, Inserting, Doing
<1>6. CountMatchesReports' BY <1>2 DEF CountMatchesReports
<1>7. Left' BY <1>2 DEF Left, AutoHidden
<1>8. Filed' = {} BY <1>1 DEF Filed
<1> QED BY <1>3, <1>4, <1>5, <1>6, <1>7, <1>8 DEF ReportsInv

LEMMA ReportsStutterInv == ASSUME ReportsInv, UNCHANGED reportsVars PROVE ReportsInv'
<1>1. UNCHANGED <<comment, report, work, byHand, overtaken>> BY DEF reportsVars
<1>2. ReportsTypeOK' /\ About' /\ Locked' /\ CountMatchesReports'
  BY <1>1 DEF ReportsInv, ReportsTypeOK, About, Locked, Doing, Fresh, Filed, CountMatchesReports
<1>3. Left' BY <1>1 DEF ReportsInv, Left, AutoHidden, AllDismissed, Filed
<1> QED BY <1>2, <1>3 DEF ReportsInv

LEMMA ReportsStepInv == ReportsInv /\ [ReportsNext]_reportsVars => ReportsInv'
<1> SUFFICES ASSUME ReportsInv, [ReportsNext]_reportsVars PROVE ReportsInv' OBVIOUS
<1>1. CASE UNCHANGED reportsVars BY <1>1, ReportsStutterInv
<1>2. ASSUME NEW hide \in BOOLEAN, HideComment(hide) PROVE ReportsInv' BY <1>2, HideCommentInv
<1>3. CASE DeleteComment BY <1>3, DeleteCommentInv
<1>4. ASSUME NEW t \in ReportTasks, InsertReport(t) \/ CommitReport(t) PROVE ReportsInv'
  BY <1>4, InsertReportInv, CommitReportInv
<1>5. ASSUME NEW t \in ReportTasks, CountPending(t) \/ CommitReview(t) \/ FailReport(t)
      PROVE  ReportsInv'
  BY <1>5, CountPendingInv, CommitReviewInv, FailReportInv
<1>6. ASSUME NEW t \in ReportTasks, NEW r \in Reporters, ReadForReport(t, r) PROVE ReportsInv'
  BY <1>6, ReadForReportInv
<1>7. ASSUME NEW t \in ReportTasks, NEW r \in Reporters, NEW s \in Statuses,
             ReadForReview(t, r, s)
      PROVE  ReportsInv'
  BY <1>7, ReadForReviewInv
<1> QED BY <1>1, <1>2, <1>3, <1>4, <1>5, <1>6, <1>7 DEF ReportsNext

LEMMA ReportsInvariant == ReportsSpec => []ReportsInv
<1>1. ReportsInit => ReportsInv BY ReportsInitInv
<1>2. ReportsInv /\ [ReportsNext]_reportsVars => ReportsInv' BY ReportsStepInv
<1> QED BY <1>1, <1>2, PTL DEF ReportsSpec

-----------------------------------------------------------------------------
(* Counter, statuses and requests stay of their kind, for any reporters.   *)
THEOREM ReportsTypeCorrect == ReportsSpec => []ReportsTypeOK
<1>1. ReportsInv => ReportsTypeOK BY DEF ReportsInv
<1> QED BY <1>1, ReportsInvariant, PTL

(* report_count is the number of reports, whoever reports at once.         *)
THEOREM CounterCorrect == ReportsSpec => []CountMatchesReports
<1>1. ReportsInv => CountMatchesReports BY DEF ReportsInv
<1> QED BY <1>1, ReportsInvariant, PTL

(* A comment all of whose reports are dismissed and that nobody hid by     *)
(* hand is visible, unless what the last review had read changed before it *)
(* committed: a later review repairs what overlapping ones left hidden.    *)
THEOREM DismissedCorrect == ReportsSpec => []AllDismissedIsVisible
<1>1. ReportsInv => AllDismissedIsVisible
  BY DEF ReportsInv, Left, AutoHidden, AllDismissed, AllDismissedIsVisible
<1> QED BY <1>1, ReportsInvariant, PTL

HidesEnough ==
  (comment.exists /\ ~(Filed' \subseteq Filed))
  => comment'.isHidden = \/ comment.isHidden
                         \/ Cardinality(Filed') >= AUTO_HIDE_THRESHOLD

LEMMA StepHides == ReportsInv /\ [ReportsNext]_reportsVars => [HidesEnough]_reportsVars
<1> SUFFICES ASSUME ReportsInv, ReportsNext, ~(Filed' \subseteq Filed) PROVE HidesEnough
  BY DEF HidesEnough, reportsVars, Filed
<1>1. report' # report BY DEF Filed
<1>2. ~DeleteComment BY DeleteCommentInv
<1>3. \A t \in ReportTasks : ~CommitReview(t) BY CommitReviewInv, SMTT(30)
<1>4. PICK t \in ReportTasks : CommitReport(t)
  BY <1>1, <1>2, <1>3 DEF ReportsNext, HideComment, InsertReport, CountPending,
     FailReport, ReadForReport, ReadForReview
<1>5. comment'.isHidden <=> \/ comment.isHidden
                            \/ Cardinality(Filed') >= AUTO_HIDE_THRESHOLD
  BY <1>4, CommitReportInv
<1>6. comment'.isHidden \in BOOLEAN
  <2>1. ReportsInv' BY <1>4, CommitReportInv
  <2> QED BY <2>1 DEF ReportsInv, ReportsTypeOK
<1> QED BY <1>5, <1>6 DEF HidesEnough

(* The report that reaches the threshold hides the comment, and no report  *)
(* brings back a hidden one, although its transaction writes a flag and a  *)
(* counter it read earlier.                                                *)
THEOREM HidingCorrect == ReportsSpec => EnoughReportsHide
<1>1. ReportsInv /\ [ReportsNext]_reportsVars => [HidesEnough]_reportsVars BY StepHides
<1>2. EnoughReportsHide <=> [][HidesEnough]_reportsVars
  BY PTL DEF EnoughReportsHide, HidesEnough
<1> QED BY <1>1, <1>2, ReportsInvariant, PTL DEF ReportsSpec

=============================================================================
