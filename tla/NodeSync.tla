------------------------------ MODULE NodeSync ------------------------------
(****************************************************************************)
(* The node list of the app (ui/MainViewModel.kt with NodeStore.kt and       *)
(* SettingsStore.kt): the list on the screen, its saved copy, the account,   *)
(* the API token and the set of URIs the API delivered last. The main thread *)
(* runs the user's edits; fetchNodes runs on an IO thread beside it. Both    *)
(* read the list, compute a new one, publish it and save it, in steps that   *)
(* can interleave.                                                           *)
(*                                                                           *)
(* A URI is <<base, label>>: relabel replaces what follows the '#'. Both     *)
(* stores are SharedPreferences edited with apply(): the copy in memory      *)
(* changes at once, the file some time later, and the process may be killed  *)
(* at any point in between.                                                  *)
(****************************************************************************)
EXTENDS Integers, Sequences, FiniteSets, SequencesExt

CONSTANTS
    Bases,      \* URIs without their fragment
    Labels,     \* every label that can occur
    NewLabels,  \* what the user types when renaming a node
    Pastes,     \* texts the user imports: sequences of lines
    Configs,    \* answers of the API: sequences of <<region, URI>>
    Accounts,
    Nobody

Uris == Bases \X Labels

\* The label under which a region of the configuration is shown: a region that
\* is an IP address becomes "dedicated".
RegionLabel(region) ==
    CASE region = ""   -> "node"
      [] region = "ip" -> "dedicated"
      [] OTHER         -> region

ASSUME NodeSyncAssumption ==
    /\ NewLabels \subseteq Labels
    /\ \A text \in Pastes : Len(text) \in Nat
    /\ \A c \in Configs :
          c \in Seq(STRING \X Uris) /\ \A i \in DOMAIN c : RegionLabel(c[i][1]) \in Labels
    /\ Nobody \notin Accounts

VARIABLES
    nodes,      \* _nodes
    stored,     \* "nodes" in the preferences "x365", in memory
    account,    \* e-mail and password in "x365_settings"
    token,      \* the saved token, named by the account it was issued to
    api_nodes,  \* KEY_API_NODES
    written,    \* the two preference files
    main,       \* what the main thread still has to do with a new list
    fetch,      \* the coroutine of login or refreshNodes; idle iff not _loginBusy
    mine,       \* history: URIs the user has imported or made by renaming
    raced,      \* history: an edit and a sync worked on the list at once
    torn        \* history: killed with a change written in part or not at all

settings == <<account, token, api_nodes>>
prefs == <<stored, settings, written>>
nodesHistory == <<mine, raced, torn>>
nodesVars == <<nodes, prefs, main, fetch, nodesHistory>>

Resting == [pc |-> "idle", list |-> <<>>, own |-> {}]
Asleep == [pc |-> "idle", who |-> Nobody, list |-> <<>>, uris |-> {}]
NodesInit ==
    /\ nodes = <<>> /\ stored = <<>>
    /\ account = Nobody /\ token = Nobody
    /\ api_nodes = {}
    /\ written = [nodes |-> stored, settings |-> settings]
    /\ main = Resting /\ fetch = Asleep
    /\ mine = {}
    /\ raced = FALSE /\ torn = FALSE

-----------------------------------------------------------------------------
(* Operations on lists.                                                      *)

Shown == ToSet(nodes)

relabel(uri, label) == <<uri[1], label>>

\* Adds the parsable lines that are not in the list yet.
AddMissing(list, uris) ==
    LET current[k \in 0..Len(uris)] ==
            IF k = 0 THEN list
            ELSE IF uris[k] \in Uris /\ uris[k] \notin ToSet(current[k - 1])
                 THEN Append(current[k - 1], uris[k])
                 ELSE current[k - 1]
    IN  current[Len(uris)]

FilterNot(list, uris) ==
    LET kept[k \in 0..Len(list)] ==
            IF k = 0 THEN <<>>
            ELSE IF list[k] \in uris THEN kept[k - 1]
                 ELSE Append(kept[k - 1], list[k])
    IN  kept[Len(list)]

-----------------------------------------------------------------------------
(* The user's edits, on the main thread.                                     *)

MainFree == main.pc = "idle"

\* The IO thread has read the list and not yet saved its new one.
Syncing == fetch.pc \in {"publish", "save"}

\* An edit has computed its new list; own is what it adds of the user's.
Begin(pc, list, own) ==
    /\ main' = [pc |-> pc, list |-> list, own |-> own]
    /\ raced' = (raced \/ Syncing)
    /\ UNCHANGED <<nodes, prefs, fetch, mine, torn>>

\* A text that adds nothing leaves everything alone.
importNodes(text) ==
    LET current == AddMissing(nodes, text)
        added == ToSet(current) \ Shown
    IN  /\ MainFree
        /\ added # {}
        /\ Begin("publish", current, added)

deleteNode(u) ==
    /\ MainFree
    /\ Begin("publish", FilterNot(nodes, {u}), {})

renameNode(u, label) ==
    /\ MainFree
    /\ Begin("publish",
             [i \in DOMAIN nodes |-> IF nodes[i] = u THEN relabel(u, label) ELSE nodes[i]],
             IF u \in Shown THEN {relabel(u, label)} ELSE {})

\* The account sheet offers logout only with an account and no fetch running.
CanLogout == MainFree /\ fetch.pc = "idle" /\ account # Nobody

\* Mutant: logout removes every node.
logoutAll ==
    /\ CanLogout
    /\ Begin("publish_out", <<>>, {})

logout ==
    /\ CanLogout
    /\ Begin("publish_out", FilterNot(nodes, api_nodes), {})

\* _nodes.value = current
Publish ==
    /\ main.pc \in {"publish", "publish_out"}
    /\ nodes' = main.list
    /\ mine' = mine \cup main.own
    /\ main' = [main EXCEPT !.pc = IF main.pc = "publish" THEN "save" ELSE "save_out"]
    /\ UNCHANGED <<prefs, fetch, raced, torn>>

\* Mutant: an empty list is not saved.
SaveSkipsEmpty ==
    /\ main.pc \in {"save", "save_out"}
    /\ stored' = IF main.list = <<>> THEN stored ELSE main.list
    /\ main' = IF main.pc = "save" THEN Resting ELSE [main EXCEPT !.pc = "clear"]
    /\ UNCHANGED <<nodes, settings, written, fetch, nodesHistory>>

\* NodeStore.save of an edit.
Save ==
    /\ main.pc \in {"save", "save_out"}
    /\ stored' = main.list
    /\ main' = IF main.pc = "save" THEN Resting ELSE [main EXCEPT !.pc = "clear"]
    /\ UNCHANGED <<nodes, settings, written, fetch, nodesHistory>>

\* logout ends with clearAccount, which drops all three keys in one edit.
clearAccount ==
    /\ main.pc = "clear"
    /\ account' = Nobody /\ token' = Nobody /\ api_nodes' = {}
    /\ main' = Resting
    /\ UNCHANGED <<nodes, stored, written, fetch, nodesHistory>>

-----------------------------------------------------------------------------
(* login and refreshNodes: started and finished on the main thread, with     *)
(* fetchNodes on an IO thread in between.                                    *)

Fetching(pc) == fetch' = [fetch EXCEPT !.pc = pc]

\* The sheet shows the login form only without an account.
login(who) ==
    /\ MainFree /\ fetch.pc = "idle" /\ account = Nobody
    /\ fetch' = [Asleep EXCEPT !.pc = "start", !.who = who]
    /\ UNCHANGED <<nodes, prefs, main, nodesHistory>>

refreshNodes ==
    /\ MainFree /\ fetch.pc = "idle" /\ account # Nobody
    /\ fetch' = [Asleep EXCEPT !.pc = "start", !.who = account]
    /\ UNCHANGED <<nodes, prefs, main, nodesHistory>>

\* The first fetchConfigYaml, with the saved token. No token, or any failure,
\* leads to a login.
FetchWithToken(config) ==
    /\ fetch.pc = "start"
    /\ token # Nobody
    /\ fetch' = [fetch EXCEPT !.pc = "merge", !.list = config]
    /\ UNCHANGED <<nodes, prefs, main, nodesHistory>>

TokenFails ==
    /\ fetch.pc = "start"
    /\ Fetching("login")
    /\ UNCHANGED <<nodes, prefs, main, nodesHistory>>

\* X365Api.login accepts the credentials, and saveToken.
ApiLogin ==
    /\ fetch.pc = "login"
    /\ token' = fetch.who
    /\ Fetching("refetch")
    /\ UNCHANGED <<nodes, stored, account, api_nodes, written, main, nodesHistory>>

\* The second fetchConfigYaml.
FetchAgain(config) ==
    /\ fetch.pc = "refetch"
    /\ fetch' = [fetch EXCEPT !.pc = "merge", !.list = config]
    /\ UNCHANGED <<nodes, prefs, main, nodesHistory>>

\* The login or the second fetch throws; so does a configuration without nodes.
FetchThrows ==
    /\ \/ fetch.pc \in {"login", "refetch"}
       \/ fetch.pc = "merge" /\ fetch.list = <<>>
    /\ MainFree
    /\ fetch' = Asleep
    /\ UNCHANGED <<nodes, prefs, main, nodesHistory>>

\* The nodes of a configuration, each with the label of its region.
Labelled(found) == [i \in DOMAIN found |-> relabel(found[i][2], RegionLabel(found[i][1]))]

\* Mutant: the nodes of the last fetch stay.
MergeKeepsOld ==
    LET items == Labelled(fetch.list)
    IN  /\ fetch.pc = "merge" /\ fetch.list # <<>>
        /\ fetch' = [fetch EXCEPT !.pc = "publish", !.list = AddMissing(nodes, items),
                                  !.uris = ToSet(items)]
        /\ raced' = (raced \/ ~MainFree)
        /\ UNCHANGED <<nodes, prefs, main, mine, torn>>

\* Reads the last API URIs and the list, and computes the new list.
Merge ==
    LET items == Labelled(fetch.list)
    IN  /\ fetch.pc = "merge" /\ fetch.list # <<>>
        /\ fetch' = [fetch EXCEPT !.pc = "publish",
                                  !.list = AddMissing(FilterNot(nodes, api_nodes), items),
                                  !.uris = ToSet(items)]
        /\ raced' = (raced \/ ~MainFree)
        /\ UNCHANGED <<nodes, prefs, main, mine, torn>>

\* _nodes.value = merged
FetchPublish ==
    /\ fetch.pc = "publish"
    /\ nodes' = fetch.list
    /\ Fetching("save")
    /\ UNCHANGED <<prefs, main, nodesHistory>>

\* NodeStore.save
FetchSave ==
    /\ fetch.pc = "save"
    /\ stored' = fetch.list
    /\ Fetching("save_api")
    /\ UNCHANGED <<nodes, settings, written, main, nodesHistory>>

saveApiNodeUris ==
    /\ fetch.pc = "save_api"
    /\ api_nodes' = fetch.uris
    /\ Fetching("return")
    /\ UNCHANGED <<nodes, stored, account, token, written, main, nodesHistory>>

\* Back on the main thread: login saves the account; a refresh was started with
\* the one that is saved.
Return ==
    /\ fetch.pc = "return" /\ MainFree
    /\ account' = fetch.who
    /\ fetch' = Asleep
    /\ UNCHANGED <<nodes, stored, token, api_nodes, written, main, nodesHistory>>

-----------------------------------------------------------------------------
(* External: Android writes what apply() left in memory, each file by itself *)
(* and the state it then has.                                                *)

WriteNodes ==
    /\ written.nodes # stored
    /\ written' = [written EXCEPT !.nodes = stored]
    /\ UNCHANGED <<nodes, stored, settings, main, fetch, nodesHistory>>

WriteSettings ==
    /\ written.settings # settings
    /\ written' = [written EXCEPT !.settings = settings]
    /\ UNCHANGED <<nodes, stored, settings, main, fetch, nodesHistory>>

\* A file is behind the copy in memory.
Unwritten == written # [nodes |-> stored, settings |-> settings]

\* A sync has saved its list and not yet the set that goes with it, or a login
\* has saved both and not yet its account.
HalfSaved == fetch.pc = "save_api" \/ (fetch.pc = "return" /\ account = Nobody)

Load ==
    /\ account' = written.settings[1]
    /\ token' = written.settings[2]
    /\ api_nodes' = written.settings[3]

\* The process is killed at any point and the app opened again: the view model
\* loads what was written and, with an account, starts a silent refresh.
Restart ==
    /\ torn' = (torn \/ Unwritten \/ HalfSaved)
    /\ nodes' = written.nodes /\ stored' = written.nodes
    /\ Load
    /\ main' = Resting
    /\ fetch' = IF account' = Nobody THEN Asleep
                ELSE [Asleep EXCEPT !.pc = "start", !.who = account']
    /\ UNCHANGED <<written, mine, raced>>

NodesNext ==
    \/ \E text \in Pastes : importNodes(text)
    \/ \E u \in Uris : deleteNode(u)
    \/ \E u \in Uris, label \in NewLabels : renameNode(u, label)
    \/ logout \/ Publish \/ Save \/ clearAccount
    \/ \E who \in Accounts : login(who)
    \/ refreshNodes
    \/ \E config \in Configs : FetchWithToken(config) \/ FetchAgain(config)
    \/ TokenFails \/ ApiLogin \/ FetchThrows
    \/ Merge \/ FetchPublish \/ FetchSave \/ saveApiNodeUris \/ Return
    \/ WriteNodes \/ WriteSettings \/ Restart

NodesSpec == NodesInit /\ [][NodesNext]_nodesVars

-----------------------------------------------------------------------------
(* Properties.                                                               *)

Settled == main.pc = "idle" /\ fetch.pc = "idle"

\* With no edit and no fetch under way the saved list is the one on the screen,
\* after any sequence of imports, renames, deletions, syncs, logouts and
\* kills, unless fetchNodes read or wrote the list in the middle of an edit.
SavedIsShown == Settled /\ ~raced => stored = nodes

\* Every shown node is one the user has made or is in the recorded set of API
\* URIs, by which refresh and logout find the nodes to remove, and without an
\* account that set is empty, also when a login failed half-way; unless an edit
\* and a sync overlapped or the app was killed before a change was written.
Accounted ==
    Settled /\ ~raced /\ ~torn =>
        /\ Shown \subseteq mine \cup api_nodes
        /\ account = Nobody => api_nodes = {}

\* The user's own nodes that are shown, saved and in the file.
Safe == {u \in mine : u \in Shown \cap ToSet(stored) \cap ToSet(written.nodes)}

\* A node the user imported or renamed, once it is in the file, is on the screen,
\* in memory and in the file until the user's own edit takes it away or the API
\* delivers the same URI: no sync, no logout and no kill at any point loses it,
\* unless an edit and a sync overlapped.
OwnNodesStay ==
    [][\A u \in Safe : u \in Safe' \/ u \in api_nodes \/ main.pc = "publish" \/ raced]_nodesVars

=============================================================================
