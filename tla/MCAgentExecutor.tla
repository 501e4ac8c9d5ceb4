--------------------------- MODULE MCAgentExecutor ---------------------------
(* Commands and provider output for TLC: j1 is a message, j2 the rest.      *)
EXTENDS AgentExecutor

CONSTANTS j1, j2

Message(provider, resume, valid, shellFallback) ==
  [kind |-> "message", provider |-> provider, resume |-> resume, valid |-> valid,
   shellFallback |-> shellFallback]

MCCommands == [j \in {j1, j2} |->
  IF j = j1
    THEN {Message("codex", FALSE, TRUE, TRUE), Message("gemini", TRUE, TRUE, FALSE),
          Message("codex", FALSE, FALSE, FALSE)}
    ELSE {[kind |-> "transcribe", files |-> TRUE], [kind |-> "transcribe", files |-> FALSE],
          [kind |-> "cancel"], [kind |-> "reset"]}]

Json(source, status, text) ==
  [source |-> source, form |-> "json", status |-> status, text |-> text]
Other(source, form) == [source |-> source, form |-> form]

MCLines == {Other("stdout", "blank"), Json("stdout", TRUE, TRUE), Json("stderr", TRUE, FALSE),
            Other("stdout", "plain"), Other("stderr", "plain")}

=============================================================================
