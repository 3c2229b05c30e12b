------------------------------ MODULE SessionFSM ------------------------------
(***************************************************************************)
(* The session state machine of domain/session_fsm.py: its states, the     *)
(* table of legal transitions and the predicates computed from it.  Every  *)
(* module that follows a call session shares these definitions.            *)
(***************************************************************************)

SessionState ==
    {"IDLE", "LISTENING", "SPEAKING_DETECTED", "PROCESSING", "INFERRING",
     "RESPONDING", "TRANSFER_REQUESTED", "TRANSFER_ACCEPTED",
     "TRANSFER_FAILED", "ENDED"}

VALID_TRANSITIONS ==
    [IDLE               |-> {"LISTENING", "ENDED"},
     LISTENING          |-> {"SPEAKING_DETECTED", "IDLE",
                             "TRANSFER_REQUESTED", "ENDED"},
     SPEAKING_DETECTED  |-> {"PROCESSING", "LISTENING",
                             "TRANSFER_REQUESTED", "ENDED"},
     PROCESSING         |-> {"INFERRING", "LISTENING",
                             "TRANSFER_REQUESTED", "ENDED"},
     INFERRING          |-> {"RESPONDING", "LISTENING",
                             "TRANSFER_REQUESTED", "ENDED"},
     RESPONDING         |-> {"LISTENING", "IDLE",
                             "TRANSFER_REQUESTED", "ENDED"},
     TRANSFER_REQUESTED |-> {"TRANSFER_ACCEPTED", "TRANSFER_FAILED", "ENDED"},
     TRANSFER_ACCEPTED  |-> {"ENDED"},
     TRANSFER_FAILED    |-> {"LISTENING", "ENDED"},
     ENDED              |-> {}]

can_transition(s, t) == t \in VALID_TRANSITIONS[s]

\* _do_transition of the orchestrator: move if the table allows it, else stay.
DoTransition(s, t) == IF can_transition(s, t) THEN t ELSE s

is_transfer_in_progress(s) == s \in {"TRANSFER_REQUESTED", "TRANSFER_ACCEPTED"}

\* restore_or_create_orchestrator: a snapshot outside _SAFE_STATES is taken to
\* LISTENING where the table allows it.
\* Mutant: the restore forces LISTENING without asking the table.
RestoredState_Forced(snapshot) ==
    IF snapshot \in {"IDLE", "LISTENING", "ENDED"} THEN snapshot ELSE "LISTENING"

RestoredState(snapshot) ==
    IF snapshot \in {"IDLE", "LISTENING", "ENDED"}
    THEN snapshot
    ELSE DoTransition(snapshot, "LISTENING")

===============================================================================
