------------------------------ MODULE Reports ------------------------------
(***************************************************************************)
(* AuctionCommentsService: the reports about one auction comment, its      *)
(* report counter and its visibility.                                      *)
(*                                                                         *)
(* createReport inserts the report, reads the comment and writes counter   *)
(* and flag as absolute values.  The insert holds the comment's row shared *)
(* (foreign key comment_reports.comment_id), so nobody commits a write of  *)
(* the comment between that read and the commit.  updateReportStatus reads *)
(* report and comment before its transaction and counts the pending        *)
(* reports in the transaction's snapshot, without a lock on the comment.   *)
(* The notices to the admins are the input of Notifications.               *)
(***************************************************************************)
EXTENDS Naturals, FiniteSets

CONSTANTS
  Reporters,            \* users that may report the comment
  ReportTasks,          \* requests the server works on at the same time
  AUTO_HIDE_THRESHOLD

ASSUME ReportsAssumption ==
  /\ IsFiniteSet(Reporters)
  /\ AUTO_HIDE_THRESHOLD \in Nat

Statuses == {"PENDING", "REVIEWED", "RESOLVED", "DISMISSED"}

VARIABLES
  comment,   \* the row of `auction_comments'
  report,    \* status of each reporter's report, "none" when there is none:
             \* (comment_id, reporter_id) is unique
  work,      \* requests in flight
  byHand,    \* history: hidden by an admin's hideComment
  overtaken  \* history: when the last review was committed, the flag or the
             \* number of pending reports was not what it had read

reportsVars == <<comment, report, work, byHand, overtaken>>

NoWork == [op |-> "none", pc |-> "idle", who |-> {}, status |-> "PENDING",
           count |-> 0, isHidden |-> FALSE]

Work ==
  [op: {"none", "report", "review"},
   pc: {"idle", "read", "transaction"},
   who: SUBSET Reporters,  \* whose report it creates or reviews
   status: Statuses,       \* the new status, of a review
   count: Nat,             \* report_count, or the pending reports, it read
   isHidden: BOOLEAN]      \* comment.isHidden when it was read

ReportsTypeOK ==
  /\ comment \in [exists: BOOLEAN, reportCount: Nat, isHidden: BOOLEAN]
  /\ report \in [Reporters -> Statuses \cup {"none"}]
  /\ work \in [ReportTasks -> Work]
  /\ byHand \in BOOLEAN /\ overtaken \in BOOLEAN

ReportsInit ==
  /\ comment = [exists |-> TRUE, reportCount |-> 0, isHidden |-> FALSE]
  /\ report = [r \in Reporters |-> "none"]
  /\ work = [t \in ReportTasks |-> NoWork]
  /\ byHand = FALSE /\ overtaken = FALSE

-----------------------------------------------------------------------------
Filed == {r \in Reporters : report[r] # "none"}
Pending == {r \in Reporters : report[r] = "PENDING"}

Doing(t, op, pc) == work[t].op = op /\ work[t].pc = pc

(* The transactions that hold the comment's row shared. *)
Inserting == {t \in ReportTasks : Doing(t, "report", "transaction")}

(* Mutant: no foreign key on comment_reports.comment_id. *)
Writable_NoForeignKey(t) == comment.exists /\ t \in ReportTasks

(* A write of the comment by t gets the row. *)
Writable(t) == comment.exists /\ Inserting \subseteq {t}

Set(t, w) == work' = [work EXCEPT ![t] = w]

-----------------------------------------------------------------------------
(* createReport *)

ReadForReport(t, r) ==
  /\ work[t] = NoWork
  /\ comment.exists /\ report[r] = "none"
  /\ Set(t, [NoWork EXCEPT !.op = "report", !.pc = "read", !.who = {r}])
  /\ UNCHANGED <<comment, report, byHand, overtaken>>

(* The unique index makes a second insert of the reporter wait, then fail. *)
InsertReport(t) ==
  /\ Doing(t, "report", "read")
  /\ comment.exists /\ work[t].who \cap Filed = {}
  /\ \A s \in Inserting : work[s].who \cap work[t].who = {}
  /\ Set(t, [work[t] EXCEPT !.pc = "transaction", !.count = comment.reportCount,
                            !.isHidden = comment.isHidden])
  /\ UNCHANGED <<comment, report, byHand, overtaken>>

(* Mutant: only above the threshold. *)
AutoHides_Above(n) == n > AUTO_HIDE_THRESHOLD

AutoHides(n) == n >= AUTO_HIDE_THRESHOLD

(* Two that hold the row shared wait for one another; one is rolled back. *)
CommitReport(t) ==
  /\ Doing(t, "report", "transaction")
  /\ Writable(t)
  /\ report' = [r \in Reporters |-> IF r \in work[t].who THEN "PENDING" ELSE report[r]]
  /\ comment' = [comment EXCEPT
       !.reportCount = work[t].count + 1,
       !.isHidden = work[t].isHidden \/ AutoHides(work[t].count + 1)]
  /\ Set(t, NoWork)
  /\ UNCHANGED <<byHand, overtaken>>

-----------------------------------------------------------------------------
(* updateReportStatus *)

ReadForReview(t, r, s) ==
  /\ work[t] = NoWork
  /\ r \in Filed
  /\ Set(t, [NoWork EXCEPT !.op = "review", !.pc = "read", !.who = {r},
                           !.status = s, !.isHidden = comment.isHidden])
  /\ UNCHANGED <<comment, report, byHand, overtaken>>

(* Mutant: the reviewed report itself still counts. *)
StillPending_All(t) == Pending

(* The transaction sees its own update of the report. *)
StillPending(t) == Pending \ work[t].who

CountPending(t) ==
  /\ Doing(t, "review", "read")
  /\ Set(t, [work[t] EXCEPT !.pc = "transaction",
                            !.count = Cardinality(StillPending(t))])
  /\ UNCHANGED <<comment, report, byHand, overtaken>>

(* What the review does to isHidden, given the flag as it is. *)
Hides(t) == work[t].status = "RESOLVED"
Unhides(t) == work[t].status = "DISMISSED" /\ work[t].count = 0 /\ work[t].isHidden

CommitReview(t) ==
  /\ Doing(t, "review", "transaction")
  /\ work[t].who \subseteq Filed
  /\ Hides(t) \/ Unhides(t) => Writable(t)
  /\ report' = [r \in Reporters |-> IF r \in work[t].who THEN work[t].status ELSE report[r]]
  /\ comment' = [comment EXCEPT !.isHidden = Hides(t) \/ (@ /\ ~Unhides(t))]
  /\ byHand' = (byHand /\ ~Unhides(t))
  /\ overtaken' = \/ work[t].isHidden # comment.isHidden
                  \/ work[t].count # Cardinality(StillPending(t))
  /\ Set(t, NoWork)

-----------------------------------------------------------------------------
(* hideComment and unhideComment: the query before the write only looks    *)
(* whether the comment exists.                                             *)
HideComment(hide) ==
  /\ comment.exists /\ Inserting = {}
  /\ comment' = [comment EXCEPT !.isHidden = hide]
  /\ byHand' = hide
  /\ UNCHANGED <<report, work, overtaken>>

(* deleteComment; its reports go with it (ON DELETE CASCADE). *)
DeleteComment ==
  /\ comment.exists /\ Inserting = {}
  /\ comment' = [comment EXCEPT !.exists = FALSE]
  /\ report' = [r \in Reporters |-> "none"]
  /\ UNCHANGED <<work, byHand, overtaken>>

FailReport(t) ==
  /\ work[t] # NoWork
  /\ Set(t, NoWork)
  /\ UNCHANGED <<comment, report, byHand, overtaken>>

ReportsNext ==
  \/ \E hide \in BOOLEAN : HideComment(hide)
  \/ DeleteComment
  \/ \E t \in ReportTasks :
       \/ InsertReport(t) \/ CommitReport(t)
       \/ CountPending(t) \/ CommitReview(t) \/ FailReport(t)
       \/ \E r \in Reporters :
            \/ ReadForReport(t, r)
            \/ \E s \in Statuses : ReadForReview(t, r, s)

ReportsSpec == ReportsInit /\ [][ReportsNext]_reportsVars

-----------------------------------------------------------------------------
(* report_count, written as an absolute value by racing reports, is the    *)
(* number of reports, reviewed ones included.                              *)
CountMatchesReports == comment.exists => comment.reportCount = Cardinality(Filed)

(* A report that is stored hides the comment from the threshold on and     *)
(* never brings back a comment that is hidden, although it writes the flag *)
(* it has read.                                                            *)
EnoughReportsHide ==
  [][(comment.exists /\ ~(Filed' \subseteq Filed))
     => comment'.isHidden = \/ comment.isHidden
                            \/ Cardinality(Filed') >= AUTO_HIDE_THRESHOLD]_reportsVars

(* Once all reports are dismissed, a comment that no admin hid by hand is  *)
(* visible again, unless the last review was overtaken: one whose readings *)
(* were still true finds the comment hidden and nothing pending, also when *)
(* overlapping reviews before it had each counted the other's report as    *)
(* pending and left the comment hidden.                                    *)
AllDismissedIsVisible ==
  (/\ comment.exists /\ ~byHand /\ ~overtaken
   /\ Filed # {} /\ \A r \in Filed : report[r] = "DISMISSED") => ~comment.isHidden

(* "auto-hidden, unhide it": what a dismissal brings back was hidden       *)
(* because of the number of its reports, not because an admin confirmed    *)
(* a violation.                                                            *)
ConfirmedStaysHidden ==
  [][(/\ comment.exists /\ comment.isHidden
      /\ \E r \in Reporters : report[r] # "DISMISSED" /\ report'[r] = "DISMISSED"
      /\ \E r \in Filed : report[r] = "RESOLVED" /\ report'[r] = "RESOLVED")
     => comment'.isHidden]_reportsVars

=============================================================================
