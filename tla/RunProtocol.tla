---------------------------- MODULE RunProtocol ----------------------------
(***************************************************************************)
(* What the AG-UI client takes from one run, the promise AguiStream keeps. *)
(*                                                                         *)
(* The client's state machine wants RUN_STARTED first, or the error of a   *)
(* run that was refused, and throws at any frame behind the one terminal   *)
(* event; a run that finishes has shown something, and a response that     *)
(* completes has said how the run ended.                                   *)
(***************************************************************************)
EXTENDS Naturals

VARIABLES
  phase,     \* of the run, as the client sees it
  frames,    \* how many frames have come
  answered,  \* some text, tool call or surface was among them
  response   \* the HTTP response that carries them

vars == <<phase, frames, answered, response>>

Phases == {"idle", "running", "finished", "failed"}

Init ==
  /\ phase = "idle" /\ frames = 0 /\ answered = FALSE
  /\ response = "open"

\* RUN_STARTED, alone or with the progress events that waited for it.
Start ==
  /\ response = "open"
  /\ phase = "idle" /\ phase' = "running"
  /\ frames' > frames
  /\ UNCHANGED <<answered, response>>

\* Frames of a run that goes on.
Show ==
  /\ response = "open"
  /\ phase = "running" /\ frames' > frames
  /\ answered' \in {answered, TRUE}
  /\ UNCHANGED <<phase, response>>

\* RUN_FINISHED, for a run that showed something.
Finish ==
  /\ response = "open"
  /\ phase = "running" /\ answered
  /\ phase' = "finished" /\ frames' = frames + 1
  /\ UNCHANGED <<answered, response>>

\* RUN_ERROR.  The exception that ends a run may end the response with it.
Fail ==
  /\ response = "open"
  /\ phase \in {"idle", "running"}
  /\ phase' = "failed" /\ frames' = frames + 1
  /\ UNCHANGED <<answered, response>>

\* The response ends after the terminal event.
Complete ==
  /\ response = "open" /\ phase \in {"finished", "failed"}
  /\ response' = "complete"
  /\ UNCHANGED <<phase, frames, answered>>

\* The connection is cut, by the client or an exception nothing translates.
Cut ==
  /\ response = "open" /\ response' = "cut"
  /\ UNCHANGED <<phase, frames, answered>>

Next == Start \/ Show \/ Finish \/ Fail \/ Complete \/ Cut

Spec == Init /\ [][Next]_vars
=============================================================================
