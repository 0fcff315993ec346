----------------------------- MODULE MCNodeSync -----------------------------
(* Values for model checking NodeSync: one paste brings a node of the user's *)
(* own and an unparsable line; another brings a URI the API delivers too.    *)
EXTENDS NodeSync, TLC

CONSTANTS b1, b2,
          MaxNodes   \* bound: longer lists are not explored further

MCPastes == {<<"junk", <<b2, "own">>>>, <<<<b1, "hk">>, <<b1, "hk">>>>}
MCConfigs == {<<>>, <<<<"hk", <<b1, "node">>>>>>, <<<<"ip", <<b2, "hk">>>>>>}

\* Nothing is claimed of the list after an edit has overlapped a sync.
Bound == ~raced /\ Len(nodes) <= MaxNodes
=============================================================================
