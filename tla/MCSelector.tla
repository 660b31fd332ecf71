----------------------------- MODULE MCSelector -----------------------------
(* The select loop with a listening socket and two connections.  A          *)
(* connection that was closed may be accepted again, so with two numbers    *)
(* beside the listener's every order of closing and reusing them occurs.    *)
EXTENDS Selector

CONSTANTS l, c1, c2, c3, m, MaxQueued

MCDesc == {l, c1, c2, c3}
MCAcceptor == {l}
MCInitial == <<l>>
MCStopping == {c3}
MCFdNum == 3..5
MCReply == {m}
MCBurst == {<<>>, <<m>>}

\* A write buffer never holds more than MaxQueued buffers.
Bounded == \A d \in Desc : Len(wbuf'[d]) <= MaxQueued

MCNext == SelectorNext /\ Bounded

MCSpec == SelectorInit /\ [][MCNext]_selectorVars /\ SelectorFairness
=============================================================================
