----------------------------- MODULE MCAPIServer ----------------------------
\* Instances of APIServer for TLC.
EXTENDS APIServer

CONSTANTS k1, u1, u2, d1, t1, t2

\* Everything on, behind a key; everything off, and open.
MCConfig ==
  {[key |-> k1, headless |-> TRUE, settings |-> TRUE],
   [key |-> NoKey, headless |-> FALSE, settings |-> FALSE]}

MCLists == {{}, {u2}}

\* The store may have a page that was requested under another URL.
MCStored == {<<u2, u1>>}

\* The header under one key or under both.
MCBody ==
  {[canonical |-> t1, other |-> NoText], [canonical |-> t1, other |-> t2]}

MCWritten == {[d \in {d1} |-> [canonical |-> t2, other |-> NoText]]}
=============================================================================
