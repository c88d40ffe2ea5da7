----------------------------- MODULE Warnings ------------------------------
(***************************************************************************)
(* UsersService: the warnings of one user and the ban that follows from    *)
(* them, together with the bans an admin sets and lifts by hand.           *)
(*                                                                         *)
(* createWarning and removeWarning are interactive transactions (MySQL,    *)
(* REPEATABLE READ).  Inserting a warning takes a shared lock on its       *)
(* user's row (foreign key warnings.user_id), every update of that row     *)
(* needs it exclusively: a created warning is therefore counted while      *)
(* nobody else can commit.  Deleting a warning locks no user.  The events  *)
(* these operations emit are the input of Notifications.                   *)
(***************************************************************************)
EXTENDS Naturals, FiniteSets

CONSTANTS
  Warnings,     \* the ids of all warnings ever created: a bound
  AdminTasks    \* admin requests the server works on at the same time

VARIABLES
  user,       \* the row of `users'
  warnings,   \* the committed rows of `warnings' of the user
  admin,      \* the admin requests in flight
  drifted,    \* history: the last transaction was a removal that had counted
              \* rows another one changed before it committed
  ruling      \* history: the ban flag as an admin set it by hand, if no
              \* warning was created or removed since

warningsVars == <<user, warnings, admin, drifted, ruling>>

NoTask == [op |-> "none", pc |-> "idle", ids |-> {}, count |-> 0, stale |-> FALSE]

AdminTask ==
  [op: {"none", "warn", "remove", "ban", "unban"},
   pc: {"idle", "transaction", "update"},
   ids: SUBSET Warnings,  \* the warning it creates or removes
   count: Nat,            \* warnings counted in its snapshot
   stale: BOOLEAN]        \* history: rows changed after that count

WarningsTypeOK ==
  /\ user \in [isBanned: BOOLEAN, warningCount: Nat]
  /\ warnings \subseteq Warnings /\ IsFiniteSet(warnings)
  /\ admin \in [AdminTasks -> AdminTask]
  /\ drifted \in BOOLEAN
  /\ ruling \in {"none", "ban", "unban"}

WarningsInit ==
  /\ user = [isBanned |-> FALSE, warningCount |-> 0]
  /\ warnings = {}
  /\ admin = [t \in AdminTasks |-> NoTask]
  /\ drifted = FALSE
  /\ ruling = "none"

-----------------------------------------------------------------------------
Counting(t) == admin[t].pc = "update"

(* The transactions that hold the user's row shared. *)
Sharing == {t \in AdminTasks : Counting(t) /\ admin[t].op = "warn"}

(* Mutant: no foreign key on warnings.user_id. *)
RowFree_NoForeignKey(t) == t \in AdminTasks

(* An update of the user's row by t gets the row. *)
RowFree(t) == Sharing \subseteq {t}

Becomes(t, task) == admin' = [admin EXCEPT ![t] = task]

(* t ends; the counts other transactions took before are stale now. *)
EndAndOutdate(t) ==
  admin' = [s \in AdminTasks |->
              IF s = t THEN NoTask
              ELSE [admin[s] EXCEPT !.stale = @ \/ Counting(s)]]

(* Mutants: banned from the fourth on; the warnings that are left. *)
ByCount_Fourth(n) == [isBanned |-> n > 3, warningCount |-> n]
ByCount_Left(n) == [isBanned |-> n >= 3, warningCount |-> 3 - n]

(* What both transactions write into the user's row. *)
ByCount(n) == [isBanned |-> n >= 3, warningCount |-> n]

-----------------------------------------------------------------------------
(* createWarning *)

ReadForWarning(t) ==
  /\ admin[t] = NoTask
  /\ ~user.isBanned
  /\ Becomes(t, [NoTask EXCEPT !.op = "warn", !.pc = "transaction"])
  /\ UNCHANGED <<user, warnings, drifted, ruling>>

(* The insert, which locks, and the count after it. *)
InsertWarning(t, w) ==
  /\ admin[t].op = "warn" /\ admin[t].pc = "transaction"
  /\ w \notin warnings /\ \A s \in AdminTasks : w \notin admin[s].ids
  /\ Becomes(t, [admin[t] EXCEPT !.pc = "update", !.ids = {w},
                                 !.count = Cardinality(warnings) + 1])
  /\ UNCHANGED <<user, warnings, drifted, ruling>>

(* Two that hold the row shared wait for one another; one is rolled back. *)
CommitWarning(t) ==
  /\ Counting(t) /\ admin[t].op = "warn"
  /\ RowFree(t)
  /\ warnings' = warnings \cup admin[t].ids
  /\ user' = ByCount(admin[t].count)
  /\ EndAndOutdate(t)
  /\ drifted' = FALSE
  /\ ruling' = "none"

-----------------------------------------------------------------------------
(* removeWarning *)

ReadForRemove(t, w) ==
  /\ admin[t] = NoTask
  /\ w \in warnings
  /\ Becomes(t, [NoTask EXCEPT !.op = "remove", !.pc = "transaction", !.ids = {w}])
  /\ UNCHANGED <<user, warnings, drifted, ruling>>

(* Mutant: counted before the delete. *)
Remaining_Before(t) == warnings

Remaining(t) == warnings \ admin[t].ids

(* The delete and the count after it.  The row is locked until the commit: *)
(* a second removal of it waits, then finds nothing and fails.             *)
DeleteWarning(t) ==
  /\ admin[t].op = "remove" /\ admin[t].pc = "transaction"
  /\ admin[t].ids \subseteq warnings
  /\ \A s \in AdminTasks : Counting(s) => admin[s].ids \cap admin[t].ids = {}
  /\ Becomes(t, [admin[t] EXCEPT !.pc = "update",
                                 !.count = Cardinality(Remaining(t))])
  /\ UNCHANGED <<user, warnings, drifted, ruling>>

CommitRemove(t) ==
  /\ Counting(t) /\ admin[t].op = "remove"
  /\ RowFree(t)
  /\ warnings' = warnings \ admin[t].ids
  /\ user' = ByCount(admin[t].count)
  /\ EndAndOutdate(t)
  /\ drifted' = admin[t].stale
  /\ ruling' = "none"

-----------------------------------------------------------------------------
(* banUser and unbanUser *)

ReadForBan(t) ==
  /\ admin[t] = NoTask
  /\ Becomes(t, [NoTask EXCEPT !.op = IF user.isBanned THEN "unban" ELSE "ban",
                               !.pc = "transaction"])
  /\ UNCHANGED <<user, warnings, drifted, ruling>>

WriteBan(t) ==
  /\ admin[t].op \in {"ban", "unban"}
  /\ RowFree(t)
  /\ user' = [user EXCEPT !.isBanned = (admin[t].op = "ban")]
  /\ ruling' = admin[t].op
  /\ Becomes(t, NoTask)
  /\ UNCHANGED <<warnings, drifted>>

(* A check fails, the transaction is rolled back, the server restarts. *)
FailAdmin(t) ==
  /\ admin[t] # NoTask
  /\ Becomes(t, NoTask)
  /\ UNCHANGED <<user, warnings, drifted, ruling>>

WarningsNext ==
  \E t \in AdminTasks :
    \/ ReadForWarning(t) \/ CommitWarning(t)
    \/ DeleteWarning(t) \/ CommitRemove(t)
    \/ ReadForBan(t) \/ WriteBan(t) \/ FailAdmin(t)
    \/ \E w \in Warnings : InsertWarning(t, w) \/ ReadForRemove(t, w)

WarningsSpec == WarningsInit /\ [][WarningsNext]_warningsVars

-----------------------------------------------------------------------------
(* A created warning is counted together with all others that exist when   *)
(* it commits, whatever else is in flight: warning_count is the number of  *)
(* rows, and the user is banned exactly from the third on.  It rests on    *)
(* the lock of the foreign key, the code itself does not serialize.        *)
CreatedWarningCountsAll ==
  [][~(warnings' \subseteq warnings) => user' = ByCount(Cardinality(warnings'))]_warningsVars

(* warning_count differs from the rows only when the last change of the    *)
(* warnings was a removal that overlapped another change; a created        *)
(* warning, or a removal that overlaps nothing, puts it right.             *)
CountIsRows == ~drifted => user.warningCount = Cardinality(warnings)

(* Without such an overlap a user is banned because of three warnings or   *)
(* because an admin banned him since the warnings last changed, and he is  *)
(* free with three warnings only if an admin let him.                      *)
BannedForCause ==
  ~drifted => user.isBanned = \/ ruling = "ban"
                              \/ ruling = "none" /\ Cardinality(warnings) >= 3

=============================================================================
