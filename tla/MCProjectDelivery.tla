------------------------- MODULE MCProjectDelivery -------------------------
EXTENDS ProjectDelivery

A(page, server) == [page |-> page, server |-> server, foreign |-> FALSE]
\* What an edit turns into any other page: pages alone, one that goes with a server, a
\* server that brings no page, a template of something else.
MCDraft ==
  {A(p, "absent") : p \in {"sound", "stub", "bare"}} \cup
  {A("sound", "sound"), A("absent", "unbound"), [A("echo", "absent") EXCEPT !.foreign = TRUE]}
=============================================================================
