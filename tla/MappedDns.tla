------------------------------ MODULE MappedDns ------------------------------
(****************************************************************************)
(* hev-mapped-dns.c: the DNS server inside the tunnel answers an A question  *)
(* for a name with an address of a private network, and a later connection   *)
(* to that address is turned back into the name. At most `max' names have an *)
(* address; the least recently used one gives its address away.              *)
(*                                                                           *)
(* Addresses are numbers: with hostsize = ~mask + 1, `ip & ~mask' is         *)
(* ip % hostsize and `net | idx' is net + idx.                               *)
(****************************************************************************)
EXTENDS Integers, Sequences, FiniteSets

CONSTANTS
    Names,          \* domain names
    None,           \* NULL
    max,            \* mapdns cache-size
    hostsize,       \* ~netmask + 1
    net,            \* network base
    IPs,            \* destination addresses of connections
    MaxQuestions    \* questions in one request; the code accepts up to 32

ASSUME MappedDnsAssumption ==
    /\ None \notin Names
    /\ max \in Nat \ {0}            \* cache-size 0: no mapped DNS at all
    /\ hostsize \in Nat
    /\ max <= hostsize - 1          \* hev_mapped_dns_construct: max > ~mask fails
    /\ net \in Nat /\ net % hostsize = 0
    /\ IPs \subseteq Nat
    /\ MaxQuestions \in 1 .. 32

VARIABLES
    use,        \* number of addresses in use
    tree,       \* names in the red-black tree
    idx,        \* the idx field of a name's node, -1 if it has none
    records,    \* records[i] is the name whose node has index i, or None
    list,       \* the nodes' names, least recently used first
    todo,       \* questions of the current request still to be handled
    answers,    \* answers of the current request so far: <<name, ip>>
    last,       \* history: the last lookup, [ip, name]
    handed,     \* history: the address last given out for a name, -1 if none
    since       \* history: the names used since a name was last used

table == <<use, tree, idx, records, list>>
vars == <<table, todo, answers, last, handed, since>>

Indices == 0 .. max - 1
Question == [name : Names, a : BOOLEAN]     \* a: type A, class IN
Requests == UNION {[1 .. n -> Question] : n \in 0 .. MaxQuestions}

TypeOK ==
    /\ use \in 0 .. max
    /\ tree \in SUBSET Names
    /\ idx \in [Names -> Indices \cup {-1}]
    /\ records \in [Indices -> Names \cup {None}]
    /\ list \in Seq(Names)
    /\ todo \in Seq(Question)
    /\ answers \in Seq(Names \X Nat)
    /\ last \in [ip : IPs \cup {-1}, name : Names \cup {None}]
    /\ handed \in [Names -> Nat \cup {-1}]
    /\ since \in [Names -> SUBSET Names]

Init ==
    /\ use = 0 /\ tree = {} /\ list = <<>>
    /\ idx = [n \in Names |-> -1]
    /\ records = [i \in Indices |-> None]
    /\ todo = <<>> /\ answers = <<>>
    /\ last = [ip |-> -1, name |-> None]
    /\ handed = [n \in Names |-> -1]
    /\ since = [n \in Names |-> {}]

-----------------------------------------------------------------------------
(* hev-list.c *)

\* hev_list_del of the node at position k.
ListDel(l, k) ==
    [j \in 1 .. Len(l) - 1 |-> IF j < k THEN l[j] ELSE l[j + 1]]

Position(l, n) == CHOOSE k \in 1 .. Len(l) : l[k] = n

\* Mutant: hev_list_add_tail without hev_list_del.
AddTailOnly(l, n) == Append(l, n)

\* hev_list_del, hev_list_add_tail.
MoveToTail(l, n) == Append(ListDel(l, Position(l, n)), n)

\* History: n is used now.
Used(n) ==
    since' = [m \in Names |-> IF m = n THEN {} ELSE since[m] \cup {n}]

-----------------------------------------------------------------------------
(* hev_mapped_dns_find, for the first question of the request *)

Answer(n, i) ==
    /\ answers' = Append(answers, <<n, net + i>>)
    /\ handed' = [handed EXCEPT ![n] = net + i]
    /\ todo' = Tail(todo)
    /\ Used(n)
    /\ UNCHANGED last

AskedFor(n) == todo # <<>> /\ Head(todo) = [name |-> n, a |-> TRUE]

FindKnown(n) ==
    /\ AskedFor(n) /\ n \in tree
    /\ list' = MoveToTail(list, n)
    /\ Answer(n, idx[n])
    /\ UNCHANGED <<use, tree, idx, records>>

FindNew(n) ==
    /\ AskedFor(n) /\ n \notin tree
    /\ use < max
    /\ use' = use + 1
    /\ tree' = tree \cup {n}
    /\ list' = Append(list, n)
    /\ records' = [records EXCEPT ![use] = n]
    /\ idx' = [idx EXCEPT ![n] = use]
    /\ Answer(n, use)

\* Mutant: the evicted name stays in the tree.
FindEvictKeepsName(n) ==
    /\ AskedFor(n) /\ n \notin tree
    /\ use = max
    /\ LET nf == Head(list) IN
        /\ tree' = tree \cup {n}
        /\ list' = Tail(Append(list, n))
        /\ records' = [records EXCEPT ![idx[nf]] = n]
        /\ idx' = [idx EXCEPT ![n] = idx[nf]]
        /\ Answer(n, idx[nf])
    /\ UNCHANGED use

\* All addresses are taken: that of the first node of the list is reused.
FindEvict(n) ==
    /\ AskedFor(n) /\ n \notin tree
    /\ use = max
    /\ LET nf == Head(Append(list, n)) IN
        /\ tree' = (tree \cup {n}) \ {nf}
        /\ list' = Tail(Append(list, n))
        /\ records' = [records EXCEPT ![idx[nf]] = n]
        /\ idx' = [idx EXCEPT ![n] = idx[nf], ![nf] = -1]
        /\ Answer(n, idx[nf])
    /\ UNCHANGED use

\* Another type or class, or hev_mapped_dns_node_alloc failed: no answer.
Skip ==
    /\ todo # <<>>
    /\ Head(todo).a => Head(todo).name \notin tree
    /\ todo' = Tail(todo)
    /\ UNCHANGED <<table, answers, last, handed, since>>

\* The rest of the request is malformed, or the answers do not fit: return -1.
NoReply ==
    /\ todo' = <<>>
    /\ answers' = <<>>
    /\ UNCHANGED <<table, last, handed, since>>

-----------------------------------------------------------------------------
(* hev_mapped_dns_handle (one request) and hev_mapped_dns_lookup *)

Handle(req) ==
    /\ todo = <<>>
    /\ todo' = req
    /\ answers' = <<>>
    /\ UNCHANGED <<table, last, handed, since>>

\* Mutant: a lookup does not count as a use.
LookupNoRefresh(ip) ==
    LET i == ip % hostsize IN
    /\ todo = <<>>
    /\ IF i < max
       THEN last' = [ip |-> ip, name |-> records[i]]
       ELSE last' = [ip |-> ip, name |-> None]
    /\ IF i < max /\ records[i] # None THEN Used(records[i]) ELSE UNCHANGED since
    /\ UNCHANGED <<table, todo, answers, handed>>

Lookup(ip) ==
    LET i == ip % hostsize IN
    /\ todo = <<>>
    /\ IF i < max /\ records[i] # None
       THEN /\ last' = [ip |-> ip, name |-> records[i]]
            /\ list' = MoveToTail(list, records[i])
            /\ Used(records[i])
       ELSE /\ last' = [ip |-> ip, name |-> None]
            /\ UNCHANGED <<list, since>>
    /\ UNCHANGED <<use, tree, idx, records, todo, answers, handed>>

Next ==
    \/ \E n \in Names : FindKnown(n)
    \/ \E n \in Names : FindNew(n)
    \/ \E n \in Names : FindEvict(n)
    \/ Skip
    \/ NoReply
    \/ \E req \in Requests : Handle(req)
    \/ \E ip \in IPs : Lookup(ip)

Spec == Init /\ [][Next]_vars

-----------------------------------------------------------------------------
(* Properties *)

(****************************************************************************)
(* The tree and the record array are inverse to each other: two names never  *)
(* share an address, an address never leads to a node that was freed, and    *)
(* every record index lies inside the array.                                 *)
(****************************************************************************)
OneAddressPerName ==
    /\ \A n \in tree : idx[n] \in Indices /\ records[idx[n]] = n
    /\ \A i \in Indices : records[i] # None =>
        records[i] \in tree /\ idx[records[i]] = i

(****************************************************************************)
(* The list holds every node of the tree exactly once, and `use' counts      *)
(* them, so there is always a first node to evict when the array is full.    *)
(****************************************************************************)
ListMatchesTree ==
    /\ Len(list) = use
    /\ {list[k] : k \in 1 .. Len(list)} = tree
    /\ \A j, k \in 1 .. Len(list) : list[j] = list[k] => j = k

(****************************************************************************)
(* The address given out for a name keeps leading to that name until max     *)
(* other names have been used, by questions or by connections: what a client *)
(* may rely on between the DNS answer and its connect.                       *)
(****************************************************************************)
RecentNamesStay ==
    \A n \in Names :
        handed[n] # -1 /\ Cardinality(since[n]) < max =>
            records[handed[n] - net] = n

=============================================================================
