------------------------------ MODULE MCLimiter ------------------------------
(* Bounds for TLC: a network with a share of one query and one tool call a *)
(* day, an operator that bypasses, one source with a budget of two.        *)
EXTENDS Limiter, TLC

CONSTANTS visitor, operator, bls

Daily == (bls :> 2)
Closed == (bls :> 0)
Upstream == (visitor :> 1) @@ (operator :> NoLimit)
ToolCalls == (visitor :> 1) @@ (operator :> NoLimit)

Call(kind, caller, days) ==
  [kind : {kind}, container : Container, source : {bls}, caller : {caller}, day : days]

\* Queries fall on the first day (their answers may come on the second), and
\* the visitor's tool calls on the second.
Traffic ==
  Call("upstream", visitor, {1}) \cup Call("upstream", operator, {1})
    \cup Call("tool", visitor, {2})

\* Containers and queries are interchangeable.
Symmetric == Permutations(Container) \cup Permutations(Query)
=============================================================================
