------------------------------ MODULE MCRbTree ------------------------------
EXTENDS RbTree

\* Two pairs of nodes share a key. With ten nodes a rebalancing after an
\* erasure goes through several rounds.
MCKey == <<1, 1, 3, 4, 5, 5, 7, 8, 9, 10>>

=============================================================================
