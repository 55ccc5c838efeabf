--------------------------- MODULE CommandOutcomes ---------------------------
(***************************************************************************)
(* What the rows of desktop_commands promise to who submitted them: a      *)
(* command is open until it gets one outcome, which is final.  How often   *)
(* its request reaches a device, and over which connection, is left out.   *)
(***************************************************************************)
EXTENDS Naturals

CONSTANT Commands   \* rows, numbered in the order of created_at

VARIABLE outcome

\* What a device may report.  VERIFIED is COMPLETED with the verification that
\* the handler of the command looks for (output.verified of a build,
\* verification.verified of a click); failed, timeout and cancelled are FAILED:
\* no handler tells them apart.
Verdicts == {"VERIFIED", "COMPLETED", "FAILED"}

Outcomes == {"none", "open", "TIMEOUT"} \cup Verdicts

\* The row that is inserted next.
IsNext(d, table) ==
    /\ table[d] = "none"
    /\ \A e \in Commands : table[e] = "none" => d <= e

Submitted(d, table) == [table EXCEPT ![d] = "open"]

\* A second report of a command changes nothing.
Reported(c, verdict, table) ==
    IF table[c] = "open" THEN [table EXCEPT ![c] = verdict] ELSE table

Init == outcome = [c \in Commands |-> "none"]

Submit == \E d \in Commands : IsNext(d, outcome) /\ outcome' = Submitted(d, outcome)

Report(c, verdict) ==
    /\ outcome[c] # "none"
    /\ outcome' = Reported(c, verdict, outcome)

\* The handlers of a report may submit the command that follows.
ReportAndFollow(c, verdict) ==
    /\ outcome[c] # "none"
    /\ \E d \in Commands :
          /\ IsNext(d, outcome)
          /\ outcome' = Submitted(d, Reported(c, verdict, outcome))

TimeOut ==
    \E S \in SUBSET Commands :
        /\ \A c \in S : outcome[c] = "open"
        /\ outcome' = [c \in Commands |-> IF c \in S THEN "TIMEOUT" ELSE outcome[c]]

Next ==
    \/ Submit
    \/ \E c \in Commands, verdict \in Verdicts :
          Report(c, verdict) \/ ReportAndFollow(c, verdict)
    \/ TimeOut

Spec == Init /\ [][Next]_outcome
=============================================================================
