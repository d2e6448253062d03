----------------------------- MODULE MCToolCall -----------------------------
(* Bounds for TLC: who asks for what, and where.                           *)
EXTENDS ToolCall, TLC

CONSTANTS c1, home, work, bot

\* Two requests at one container, in either order; the second makes two queries.
Placed == (1 :> c1) @@ (2 :> c1)
Making == (1 :> {1}) @@ (2 :> {1, 2})

\* Two addresses of one network, and one of the pool.
Networks == (home :> "n") @@ (work :> "n") @@ (bot :> "pool")

Post(peer, claim, operator, test) ==
  [served |-> TRUE, adapter |-> TRUE, peer |-> peer, claim |-> claim,
   operator |-> operator, test |-> test]

\* A visitor with a test-limit header but no token; and one of the same network
\* that claims to be the pool and sends its operator header twice, the pool, an
\* operator in the pool, one of its test runs, one the adapter never saw, or a
\* wrong path.
Asking ==
  (1 :> { Post(home, Nobody, "none", "run") })
    @@ (2 :> { Post(work, bot, "twice", Nobody), Post(bot, Nobody, "none", Nobody),
               Post(bot, Nobody, "token", Nobody), Post(bot, Nobody, "token", "run"),
               [Post(home, bot, "none", Nobody) EXCEPT !.adapter = FALSE],
               [Post(home, Nobody, "none", Nobody) EXCEPT !.served = FALSE] })
=============================================================================
