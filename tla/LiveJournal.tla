---------------------------- MODULE LiveJournal ----------------------------
(***************************************************************************)
(* The durable journal of impeccable's live mode                           *)
(* (.agents/skills/impeccable/scripts/live/session-store.mjs).  A session  *)
(* is one JSONL file; its snapshot is the fold of ApplyEvent over the      *)
(* lines, so the model keeps the snapshot and appends by applying.  Only   *)
(* the fields other parts branch on are kept: the phase and the one        *)
(* pending event.                                                          *)
(***************************************************************************)
EXTENDS Naturals, Sequences

Idle == [type |-> "none", v |-> 0]

BaseSnapshot == [phase |-> "new", pending |-> Idle]

Terminal(snapshot) == snapshot.phase \in {"completed", "discarded"}

(* A request of the page is remembered as the one pending event of its     *)
(* session; what the agent answers clears it, whichever event it answered. *)
ApplyEvent(snapshot, event) ==
  LET asks(phase)   == [snapshot EXCEPT !.phase = phase,
                                        !.pending = [type |-> event.type, v |-> event.v]]
      answers(phase) == [snapshot EXCEPT !.phase = phase, !.pending = Idle]
  IN  CASE event.type = "generate"   -> asks("generate_requested")
        [] event.type = "accept"     -> asks("accept_requested")
        [] event.type = "discard"    -> asks("discard_requested")
        [] event.type = "agent_done" ->
             answers(IF event.carbonize THEN "carbonize_required" ELSE "variants_ready")
        [] event.type = "discarded"   -> answers("discarded")
        [] event.type = "complete"    -> answers("completed")
        [] event.type = "agent_error" -> answers("agent_error")
        [] event.type = "checkpoint"  ->
             IF Terminal(snapshot) THEN snapshot
             ELSE [snapshot EXCEPT !.phase = event.phase]

(* What the helper lists as active: every journal whose snapshot is not    *)
(* terminal.                                                               *)
ActiveSessions(snap) == {id \in DOMAIN snap : snap[id].phase /= "new" /\ ~Terminal(snap[id])}

(* What it tells a page of them, and the phases in which a page takes a    *)
(* session to be over (isTerminalSessionSummary).                          *)
Summaries(snap) == {[id |-> id, phase |-> snap[id].phase] : id \in ActiveSessions(snap)}
Ending(phase)   == phase \in {"completed", "discarded", "discard_requested", "accept_requested"}

(* The event type an agent's reply is journaled as.                        *)
ReplyType(answer) ==
  CASE answer = "discarded" -> "discarded"
    [] answer = "complete"  -> "complete"
    [] answer = "error"     -> "agent_error"
    [] OTHER                -> "agent_done"

(* The answer live-poll posts for an accept or a discard it carried out.   *)
CompletionType(type, result) ==
  IF type = "discard" THEN IF result.handled THEN "discarded" ELSE "error"
  ELSE IF result.handled THEN IF result.carbonize THEN "agent_done" ELSE "complete"
  ELSE IF result.mode = "error" THEN "error" ELSE "agent_done"
=============================================================================
