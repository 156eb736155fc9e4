----------------------------- MODULE MCApproval -----------------------------
(* Small instances of ApprovalQueue. *)
EXTENDS ApprovalQueue, TLC

CONSTANTS a1, h1

Ask(c, m, v) == [host |-> h1, agent |-> c, mode |-> m, via |-> v]

\* Requests that are queued, from an MCP agent and from the global API key, and
\* one of the administrator's console.
McpRequests == {Ask(a1, m, "mcp") : m \in {"optimistic", "pessimistic", "strict"}}
AllRequests == McpRequests \cup {Ask(NoAgent, "optimistic", "api"), Ask(NoAgent, "strict", "admin")}
TimedRequests == {Ask(a1, m, "mcp") : m \in {"optimistic", "pessimistic"}}

\* Operators are interchangeable; used for safety only.
Symmetry == Permutations(Operators)
=============================================================================
