----------------------------- MODULE MCServices -----------------------------
(***************************************************************************)
(* Warnings, Reports, Chat, Notices and AuctionPage share no state, and to *)
(* interleave them adds nothing: a behaviour is one of one of them, chosen *)
(* at the start.                                                           *)
(***************************************************************************)
EXTENDS Warnings, Reports, Chat, Notices, AuctionPage, TLC

CONSTANT Parts   \* those to run

VARIABLE part

Init ==
  /\ WarningsInit /\ ReportsInit /\ ChatInit /\ NoticesInit /\ PageInit
  /\ part \in Parts

Next ==
  /\ UNCHANGED part
  /\ \/ /\ part = "warnings" /\ WarningsNext
        /\ UNCHANGED <<reportsVars, chatVars, noticesVars, pageVars>>
     \/ /\ part = "reports" /\ ReportsNext
        /\ UNCHANGED <<warningsVars, chatVars, noticesVars, pageVars>>
     \/ /\ part = "chat" /\ ChatNext
        /\ UNCHANGED <<warningsVars, reportsVars, noticesVars, pageVars>>
     \/ /\ part = "notices" /\ NoticesNext
        /\ UNCHANGED <<warningsVars, reportsVars, chatVars, pageVars>>
     \/ /\ part = "page" /\ PageNext
        /\ UNCHANGED <<warningsVars, reportsVars, chatVars, noticesVars>>

Spec == Init /\ [][Next]_<<warningsVars, reportsVars, chatVars, noticesVars, pageVars, part>>

TypeOK == WarningsTypeOK /\ ReportsTypeOK /\ ChatTypeOK /\ NoticesTypeOK /\ PageTypeOK

(* Reporters and Placers are one set of values, as are the tasks of the    *)
(* chat and of the reports: one permutation exchanges them in both parts.  *)
Symmetric == UNION {Permutations(S) : S \in {ChatTasks, Reporters, ReportTasks, Placers}}

=============================================================================
