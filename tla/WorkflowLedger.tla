--------------------------- MODULE WorkflowLedger ---------------------------
(***************************************************************************)
(* What a resumable workflow promises, without processes or files: a       *)
(* ledger of completed steps.  A step is entered once, after its           *)
(* dependencies; after a pause step nothing is entered until somebody      *)
(* approves; -fresh empties the ledger.  The approval flow of README.md    *)
(* (lines 76-83) describes this much.                                      *)
(***************************************************************************)
CONSTANT Flows    \* workflows: records with the fields steps, deps and pause

VARIABLES flow, done, waiting

Init == flow \in Flows /\ done = {} /\ waiting = FALSE

Enter(s) ==
  /\ ~ waiting
  /\ s \notin done
  /\ flow.deps[s] \subseteq done
  /\ done' = done \cup {s}
  /\ waiting' = (s \in flow.pause)

\* A manual resume job is played, or the first job of the pipeline starts.
Approve == waiting' = FALSE /\ UNCHANGED done

\* A new pipeline: nothing has been done.
Reset == ~ waiting /\ done' = {} /\ UNCHANGED waiting

Next ==
  /\ (\E s \in flow.steps : Enter(s)) \/ Approve \/ Reset
  /\ UNCHANGED flow

Spec == Init /\ [][Next]_<<flow, done, waiting>>
=============================================================================
