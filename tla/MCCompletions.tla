---------------------------- MODULE MCCompletions ----------------------------
(***************************************************************************)
(* Instances of Completions for TLC.                                       *)
(***************************************************************************)
EXTENDS Completions

Chat(session, keyword) ==
  [keyword |-> keyword, hint |-> "complex_reasoning", session |-> session, force |-> None,
   environment |-> "preprod", format |-> "text", input |-> "plain", rehearsal |-> FALSE,
   batch |-> {}, parallel |-> 0, generates |-> FALSE]

\* Two kinds of turns of a conversation, one with the shortest window and one whose
\* task phi3 classifies; a dry run, a refused input, forced models, allowed or not, a
\* JSON answer, and batches.
MCMenu(s) ==
  {Chat(s, "summarize_short"),
   Chat(s, None),
   [Chat(s, "investigate") EXCEPT !.force = "phi3-mini", !.format = "json"],
   [Chat(s, "investigate") EXCEPT !.rehearsal = TRUE],
   [Chat(s, "investigate") EXCEPT !.input = "injection"],
   [Chat(None, "investigate") EXCEPT !.force = "claude"],
   [Chat(None, "investigate") EXCEPT !.rehearsal = TRUE],
   [Chat(None, "investigate") EXCEPT !.force = "claude", !.environment = "prod"],
   [Chat(None, "investigate") EXCEPT !.batch = {2}, !.parallel = 1],
   [Chat(None, "investigate") EXCEPT !.batch = {1}, !.parallel = 0]}

MCPhi3 == {"compare_policies", "complex_reasoning"}
MCSessions == {"s1"}
MCMenuOne == MCMenu("s1")
MCContexts == 1..3

\* The decision agent shares nothing with the conversations: few requests beside it.
MCBudgets == {[requests |-> 3, panels |-> 0], [requests |-> 1, panels |-> 1]}
=============================================================================
