------------------------------ MODULE MCLlmAccess ------------------------------
(* Small instances of LlmAccess: two runs with the same question and a stream,   *)
(* over providers of their own and the shared default, whose key is good for the *)
(* stream alone.  The second fallback of run2 names no provider.                 *)
EXTENDS LlmAccess

CONSTANTS run1, run2, stream, openai, openrouter, gemini, theQuestion

Kinds ==
  [c \in Call |-> IF c = stream THEN "stream" ELSE "run"]

SameQuestion == [c \in Call |-> theQuestion]

Cascades ==
  [c \in Call |-> CASE c = run1 -> <<openai, openrouter, openrouter, openrouter, gemini>>
                    [] c = stream -> <<openrouter, openrouter>>
                    [] OTHER -> <<openrouter, NoProvider, openai>>]

Answering ==
  [c \in Call |-> CASE c = run1 -> {gemini}
                    [] c = stream -> {openrouter}
                    [] OTHER -> {openai}]

===============================================================================
