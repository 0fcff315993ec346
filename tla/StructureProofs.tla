--------------------------- MODULE StructureProofs ---------------------------
(****************************************************************************)
(* The two data structures of the native code.                               *)
(*                                                                           *)
(* The address table of MappedDns is consistent for any cache size, network  *)
(* and set of names, and no address is given to another name before as many  *)
(* names as the cache holds have been used.                                  *)
(*                                                                           *)
(* The tree of RbTree is a red-black tree for any set of nodes and any keys. *)
(* Its invariant is local: it relates each node to its parent and to its     *)
(* children, and every node has a black height. The heights say what paths   *)
(* to the leaves have in common and, with the colours, that there is no      *)
(* cycle of pointers, along which the walks of the code would not end.       *)
(****************************************************************************)
EXTENDS MappedDns, RbTree, FiniteSetTheorems, WellFoundedInduction, TLAPS

Elems(l) == {l[k] : k \in 1 .. Len(l)}
NoDup(l) == \A j, k \in 1 .. Len(l) : l[j] = l[k] => j = k

-----------------------------------------------------------------------------
(* hev-list.c *)

(* hev_list_del and hev_list_add_tail of a node that is in the list: the     *)
(* nodes behind its old place move up, and it becomes the last.              *)
LEMMA MoveToTailElements ==
    ASSUME NEW l \in Seq(Names), NEW n \in Elems(l)
    PROVE  LET m == MoveToTail(l, n)
               k == Position(l, n)
           IN  /\ k \in 1 .. Len(l) /\ l[k] = n
               /\ m \in Seq(Names) /\ Len(m) = Len(l)
               /\ \A j \in 1 .. Len(l) :
                     m[j] = IF j = Len(l) THEN n ELSE IF j < k THEN l[j] ELSE l[j + 1]
  <1> DEFINE k == Position(l, n)
             d == ListDel(l, k)
             m == MoveToTail(l, n)
  <1>1. k \in 1 .. Len(l) /\ l[k] = n
    BY DEF Position, Elems
  <1>2. Len(l) \in Nat /\ Len(l) >= 1
    BY <1>1
  <1>3. d \in Seq(Names) /\ Len(d) = Len(l) - 1
    <2>1. \A j \in 1 .. Len(l) - 1 : d[j] \in Names
      BY <1>1, <1>2 DEF ListDel
    <2> QED BY <2>1, <1>2 DEF ListDel
  <1>4. n \in Names
    BY <1>1
  <1>5. m = Append(d, n)
    BY DEF MoveToTail
  <1>6. m \in Seq(Names) /\ Len(m) = Len(l)
    BY <1>2, <1>3, <1>4, <1>5
  <1>7. \A j \in 1 .. Len(l) :
            m[j] = IF j = Len(l) THEN n ELSE IF j < k THEN l[j] ELSE l[j + 1]
    <2>1. \A j \in 1 .. Len(l) - 1 : d[j] = IF j < k THEN l[j] ELSE l[j + 1]
      BY DEF ListDel
    <2>2. \A j \in 1 .. Len(l) : m[j] = IF j = Len(l) THEN n ELSE d[j]
      BY <1>2, <1>3, <1>4, <1>5
    <2> HIDE DEF d, k, m
    <2> QED BY <1>2, <2>1, <2>2
  <1> QED BY <1>1, <1>6, <1>7

(* It permutes the list. *)
LEMMA MoveToTailPermutes ==
    ASSUME NEW l \in Seq(Names), NoDup(l), NEW n \in Elems(l)
    PROVE  LET m == MoveToTail(l, n) IN
           m \in Seq(Names) /\ Len(m) = Len(l) /\ Elems(m) = Elems(l) /\ NoDup(m)
  <1> DEFINE k == Position(l, n)
             m == MoveToTail(l, n)
  <1>1. k \in 1 .. Len(l) /\ l[k] = n
    BY MoveToTailElements
  <1>2. Len(l) \in Nat /\ Len(l) >= 1
    BY <1>1
  <1>6. m \in Seq(Names) /\ Len(m) = Len(l)
    BY MoveToTailElements
  <1>7. \A j \in 1 .. Len(l) :
            m[j] = IF j = Len(l) THEN n ELSE IF j < k THEN l[j] ELSE l[j + 1]
    BY MoveToTailElements
  <1> HIDE DEF k, m
  <1>8. NoDup(m)
    BY <1>1, <1>2, <1>6, <1>7 DEF NoDup
  <1>9. Elems(m) = Elems(l)
    <2>1. ASSUME NEW x \in Elems(m) PROVE x \in Elems(l)
      <3>1. PICK j \in 1 .. Len(l) : x = m[j]
        BY <1>6 DEF Elems
      <3> QED BY <1>1, <1>2, <1>7, <3>1 DEF Elems
    <2>2. ASSUME NEW x \in Elems(l) PROVE x \in Elems(m)
      <3>1. PICK j \in 1 .. Len(l) : x = l[j]
        BY DEF Elems
      <3>2. CASE j < k
        BY <1>1, <1>2, <1>6, <1>7, <3>1, <3>2 DEF Elems
      <3>3. CASE j = k
        BY <1>1, <1>2, <1>6, <1>7, <3>1, <3>3 DEF Elems
      <3>4. CASE j > k
        <4>1. j - 1 \in 1 .. Len(l) /\ m[j - 1] = x
          BY <1>1, <1>2, <1>7, <3>1, <3>4
        <4> QED BY <4>1, <1>6 DEF Elems
      <3> QED BY <1>1, <3>1, <3>2, <3>3, <3>4
    <2> QED BY <2>1, <2>2
  <1> QED BY <1>6, <1>8, <1>9 DEF m

(* hev_list_add_tail of a node that is not in the list. *)
LEMMA AddTail ==
    ASSUME NEW l \in Seq(Names), NoDup(l), NEW n \in Names, n \notin Elems(l)
    PROVE  LET m == Append(l, n) IN
           /\ m \in Seq(Names) /\ Len(m) = Len(l) + 1
           /\ Elems(m) = Elems(l) \cup {n} /\ NoDup(m)
  <1> DEFINE m == Append(l, n)
  <1>1. m \in Seq(Names) /\ Len(m) = Len(l) + 1 /\ Len(l) \in Nat
    OBVIOUS
  <1>2. \A j \in 1 .. Len(l) + 1 : m[j] = IF j = Len(l) + 1 THEN n ELSE l[j]
    BY <1>1
  <1>3. NoDup(m)
    BY <1>1, <1>2 DEF NoDup, Elems
  <1>4. Elems(m) = Elems(l) \cup {n}
    BY <1>1, <1>2 DEF Elems
  <1> QED BY <1>1, <1>3, <1>4

(* hev_list_del of the first node. *)
LEMMA DelFirst ==
    ASSUME NEW l \in Seq(Names), NoDup(l), l # <<>>
    PROVE  /\ Tail(l) \in Seq(Names) /\ Len(Tail(l)) = Len(l) - 1
           /\ Elems(Tail(l)) = Elems(l) \ {Head(l)} /\ NoDup(Tail(l))
           /\ Head(l) \in Elems(l)
  <1>1. Len(l) \in Nat /\ Len(l) >= 1 /\ Head(l) = l[1]
    OBVIOUS
  <1>2. Tail(l) \in Seq(Names) /\ Len(Tail(l)) = Len(l) - 1
    OBVIOUS
  <1>3. \A j \in 1 .. Len(l) - 1 : Tail(l)[j] = l[j + 1]
    BY <1>1
  <1>4. NoDup(Tail(l))
    BY <1>1, <1>2, <1>3 DEF NoDup
  <1>5. Elems(Tail(l)) \subseteq Elems(l) \ {Head(l)}
    BY <1>1, <1>2, <1>3 DEF Elems, NoDup
  <1>6. ASSUME NEW x \in Elems(l) \ {Head(l)} PROVE x \in Elems(Tail(l))
    <2>1. PICK j \in 1 .. Len(l) : x = l[j] /\ j # 1
      BY <1>1 DEF Elems
    <2>2. j - 1 \in 1 .. Len(Tail(l)) /\ Tail(l)[j - 1] = x
      BY <1>1, <1>2, <1>3, <2>1
    <2> QED BY <2>2 DEF Elems
  <1>7. Head(l) \in Elems(l)
    BY <1>1 DEF Elems
  <1> QED BY <1>2, <1>4, <1>5, <1>6, <1>7

-----------------------------------------------------------------------------
(* The inductive invariant *)

ListInv == Len(list) = use /\ Elems(list) = tree /\ NoDup(list)

\* Records are filled from index 0 upwards; free ones are still None.
FreeInv == \A i \in Indices : i >= use => records[i] = None

IInv == TypeOK /\ OneAddressPerName /\ ListInv /\ FreeInv

(* The empty table satisfies it. *)
LEMMA InitIInv == Init => IInv
  <1> SUFFICES ASSUME Init PROVE IInv
    OBVIOUS
  <1> USE MappedDnsAssumption DEF Init, Indices
  <1>1. TypeOK
    BY DEF TypeOK
  <1>2. OneAddressPerName /\ ListInv /\ FreeInv
    BY DEF OneAddressPerName, ListInv, FreeInv, Elems, NoDup
  <1> QED BY <1>1, <1>2 DEF IInv

(* The parts of the state that only Answer and Used change stay well typed. *)
LEMMA AnswerType ==
    ASSUME TypeOK, NEW n \in Names, NEW i \in Indices, todo # <<>>, Answer(n, i)
    PROVE  /\ answers' \in Seq(Names \X Nat) /\ todo' \in Seq(Question)
           /\ handed' \in [Names -> Nat \cup {-1}]
           /\ since' \in [Names -> SUBSET Names]
           /\ last' \in [ip : IPs \cup {-1}, name : Names \cup {None}]
  <1>1. net + i \in Nat
    BY MappedDnsAssumption DEF Indices
  <1> QED
    BY <1>1 DEF TypeOK, Answer, Used

(* Every step preserves it. *)
LEMMA NextIInv == IInv /\ [Next]_vars => IInv'
  <1> SUFFICES ASSUME IInv, [Next]_vars PROVE IInv'
    OBVIOUS
  <1>a. max \in Nat /\ max >= 1 /\ None \notin Names
    BY MappedDnsAssumption
  <1>b. use \in Nat /\ use <= max
    BY <1>a DEF IInv, TypeOK
  <1>1. ASSUME NEW n \in Names, FindKnown(n) PROVE IInv'
    <2>1. idx[n] \in Indices
      BY <1>1 DEF IInv, OneAddressPerName, FindKnown
    <2>2. list' \in Seq(Names) /\ ListInv'
      BY <1>1, MoveToTailPermutes DEF IInv, TypeOK, ListInv, FindKnown
    <2>3. TypeOK'
      BY <1>1, <2>1, <2>2, AnswerType DEF IInv, TypeOK, FindKnown, AskedFor
    <2>4. OneAddressPerName' /\ FreeInv'
      BY <1>1 DEF IInv, OneAddressPerName, FreeInv, FindKnown
    <2> QED BY <2>2, <2>3, <2>4 DEF IInv
  <1>2. ASSUME NEW n \in Names, FindNew(n) PROVE IInv'
    <2>1. use \in Indices /\ use + 1 \in 0 .. max
      BY <1>2, <1>a, <1>b DEF FindNew, Indices
    <2>2. list' \in Seq(Names) /\ ListInv'
      BY <1>2, <1>b, AddTail DEF IInv, TypeOK, ListInv, FindNew
    <2>3. TypeOK'
      BY <1>2, <2>1, <2>2, AnswerType DEF IInv, TypeOK, FindNew, AskedFor
    <2>4. records[use] = None
      BY <2>1, <1>b DEF IInv, FreeInv
    <2>5. OneAddressPerName'
      BY <1>2, <1>a, <2>1, <2>4 DEF IInv, TypeOK, OneAddressPerName, FindNew
    <2>6. FreeInv'
      BY <1>2, <1>b, <2>1 DEF IInv, TypeOK, FreeInv, FindNew, Indices
    <2> QED BY <2>2, <2>3, <2>5, <2>6 DEF IInv
  <1>3. ASSUME NEW n \in Names, FindEvict(n) PROVE IInv'
    <2> DEFINE m == Append(list, n)
               nf == Head(m)
    <2>1. list \in Seq(Names) /\ NoDup(list) /\ n \notin Elems(list)
      BY <1>3 DEF IInv, TypeOK, ListInv, FindEvict
    <2>2. /\ m \in Seq(Names) /\ Len(m) = Len(list) + 1
          /\ Elems(m) = Elems(list) \cup {n} /\ NoDup(m)
      BY <2>1, AddTail
    <2>3. Len(list) \in Nat /\ Len(list) >= 1
      BY <1>3, <1>a, <2>1 DEF IInv, ListInv, FindEvict
    <2>4. nf = list[1] /\ nf \in tree /\ nf # n
      BY <1>3, <2>1, <2>3 DEF IInv, ListInv, Elems, FindEvict
    <2>5. idx[nf] \in Indices /\ records[idx[nf]] = nf
      BY <2>4 DEF IInv, OneAddressPerName
    <2>6. list' \in Seq(Names) /\ ListInv'
      <3>1. list' = Tail(m) /\ tree' = (tree \cup {n}) \ {nf} /\ use' = use
        BY <1>3 DEF FindEvict
      <3>2. m # <<>>
        BY <2>2, <2>3
      <3>3. /\ Tail(m) \in Seq(Names) /\ Len(Tail(m)) = Len(m) - 1
            /\ Elems(Tail(m)) = Elems(m) \ {nf} /\ NoDup(Tail(m))
        BY <2>2, <3>2, DelFirst
      <3> QED BY <2>2, <2>3, <3>1, <3>3 DEF IInv, ListInv
    <2>7. /\ records' = [records EXCEPT ![idx[nf]] = n]
          /\ idx' = [idx EXCEPT ![n] = idx[nf], ![nf] = -1]
          /\ tree' = (tree \cup {n}) \ {nf} /\ use' = use
          /\ Answer(n, idx[nf]) /\ todo # <<>> /\ n \notin tree /\ use = max
      BY <1>3 DEF FindEvict, AskedFor
    <2> HIDE DEF nf, m
    <2>8. TypeOK'
      BY <2>4, <2>5, <2>6, <2>7, AnswerType DEF IInv, TypeOK
    <2>9. OneAddressPerName'
      BY <1>a, <2>4, <2>5, <2>7 DEF IInv, TypeOK, OneAddressPerName
    <2>10. FreeInv'
      BY <1>a, <2>7 DEF IInv, FreeInv, Indices
    <2> QED BY <2>6, <2>8, <2>9, <2>10 DEF IInv
  <1>4. CASE Skip
    BY <1>4 DEF Skip, table, IInv, TypeOK, OneAddressPerName, ListInv, FreeInv
  <1>5. CASE NoReply
    BY <1>5 DEF NoReply, table, IInv, TypeOK, OneAddressPerName, ListInv, FreeInv
  <1>6. ASSUME NEW req \in Requests, Handle(req) PROVE IInv'
    <2>1. req \in Seq(Question)
      BY MappedDnsAssumption DEF Requests
    <2> QED
      BY <1>6, <2>1 DEF Handle, table, IInv, TypeOK, OneAddressPerName, ListInv, FreeInv
  <1>7. ASSUME NEW ip \in IPs, Lookup(ip) PROVE IInv'
    <2> DEFINE i == ip % hostsize
    <2>1. i \in Nat
      BY MappedDnsAssumption
    <2>2. CASE i < max /\ records[i] # None
      <3>1. records[i] \in Names /\ records[i] \in tree
        BY <1>a, <2>1, <2>2 DEF IInv, TypeOK, OneAddressPerName, Indices
      <3>2. /\ last' = [ip |-> ip, name |-> records[i]]
            /\ list' = MoveToTail(list, records[i])
            /\ Used(records[i])
            /\ UNCHANGED <<use, tree, idx, records, todo, answers, handed>>
        BY <1>7, <2>2 DEF Lookup
      <3>4. since' \in [Names -> SUBSET Names]
        BY <3>1, <3>2 DEF Used, IInv, TypeOK
      <3>3. list' \in Seq(Names) /\ ListInv'
        BY <3>1, <3>2, MoveToTailPermutes DEF IInv, TypeOK, ListInv
      <3> QED BY <3>1, <3>2, <3>3, <3>4 DEF IInv, TypeOK, OneAddressPerName, FreeInv
    <2>3. CASE ~(i < max /\ records[i] # None)
      BY <1>7, <2>3 DEF Lookup, IInv, TypeOK, OneAddressPerName, ListInv, FreeInv
    <2> QED BY <2>2, <2>3
  <1>8. CASE UNCHANGED vars
    BY <1>8 DEF vars, table, IInv, TypeOK, OneAddressPerName, ListInv, FreeInv
  <1> QED
    BY <1>1, <1>2, <1>3, <1>4, <1>5, <1>6, <1>7, <1>8 DEF Next

(* The invariant holds in every reachable state. *)
THEOREM Invariance == Spec => []IInv
  BY InitIInv, NextIInv, PTL DEF Spec

-----------------------------------------------------------------------------
(* Type correctness: no index ever leaves the record array. *)
THEOREM TypeCorrect == Spec => []TypeOK
  <1>1. IInv => TypeOK
    BY DEF IInv
  <1> QED BY <1>1, Invariance, PTL

(****************************************************************************)
(* hev_mapped_dns_find keeps the tree and the records inverse to each other, *)
(* so hev_mapped_dns_lookup of a current answer returns the name asked for.  *)
(****************************************************************************)
THEOREM TableConsistent == Spec => []OneAddressPerName
  <1>1. IInv => OneAddressPerName
    BY DEF IInv
  <1> QED BY <1>1, Invariance, PTL

(* The LRU list holds every node once; a full table has a node to evict. *)
THEOREM ListConsistent == Spec => []ListMatchesTree
  <1>1. IInv => ListMatchesTree
    BY DEF IInv, ListInv, ListMatchesTree, Elems, NoDup
  <1> QED BY <1>1, Invariance, PTL

-----------------------------------------------------------------------------
(* How long an address stays with its name *)

\* A name in the list has been followed by all the names behind it.
Followed == \A j, k \in 1 .. Len(list) : j < k => list[k] \in since[list[j]]

\* The address given out for a name is the one it has in the tree; a name that was
\* evicted has been followed by as many names as the cache holds.
Answered ==
    \A n \in Names :
        IF n \in tree THEN handed[n] = net + idx[n]
        ELSE handed[n] = -1 \/ Cardinality(since[n]) >= max

RInv == /\ Followed
        /\ Answered
        /\ \A n \in Names : IsFiniteSet(since[n])

(* A list without duplicates has as many elements as its length says. *)
LEMMA ElemsCardinality ==
    ASSUME NEW l \in Seq(Names), NoDup(l)
    PROVE  IsFiniteSet(Elems(l)) /\ Cardinality(Elems(l)) = Len(l)
  <1>1. Len(l) \in Nat /\ l \in [1 .. Len(l) -> Elems(l)]
    BY DEF Elems
  <1>2. l \in Surjection(1 .. Len(l), Elems(l))
    BY <1>1 DEF Surjection, Elems
  <1>3. l \in Injection(1 .. Len(l), Elems(l))
    BY <1>1 DEF Injection, IsInjective, NoDup
  <1>4. IsFiniteSet(1 .. Len(l)) /\ Cardinality(1 .. Len(l)) = Len(l)
    BY <1>1, FS_Interval
  <1> QED BY <1>2, <1>3, <1>4, FS_Surjection

(* What counts as used is added to finitely many names. *)
LEMMA UsedFinite ==
    ASSUME NEW n \in Names, Used(n), \A m \in Names : IsFiniteSet(since[m])
    PROVE  \A m \in Names : IsFiniteSet(since'[m]) /\ (m # n => Cardinality(since[m]) <= Cardinality(since'[m]))
  <1> SUFFICES ASSUME NEW m \in Names
               PROVE  IsFiniteSet(since'[m]) /\ (m # n => Cardinality(since[m]) <= Cardinality(since'[m]))
    OBVIOUS
  <1>1. CASE m = n
    BY <1>1, FS_EmptySet DEF Used
  <1>2. CASE m # n
    <2>1. since'[m] = since[m] \cup {n}
      BY <1>2 DEF Used
    <2>2. IsFiniteSet(since[m] \cup {n})
      BY FS_AddElement
    <2>3. Cardinality(since[m]) <= Cardinality(since[m] \cup {n})
      BY <2>2, FS_Subset
    <2> QED BY <2>1, <2>2, <2>3
  <1> QED BY <1>1, <1>2

(* A name that is used goes to the tail: it follows all the others. *)
LEMMA MoveFollows ==
    ASSUME IInv, Followed, NEW n \in tree, list' = MoveToTail(list, n), Used(n)
    PROVE  Followed'
  <1> DEFINE k == Position(list, n)
  <1>1. list \in Seq(Names) /\ NoDup(list) /\ n \in Elems(list) /\ n \in Names
    BY DEF IInv, TypeOK, ListInv
  <1>2. k \in 1 .. Len(list) /\ list[k] = n
    BY <1>1, MoveToTailElements
  <1>3. Len(list') = Len(list) /\ Len(list) \in Nat
    BY <1>1, MoveToTailElements
  <1>4. \A j \in 1 .. Len(list) :
            list'[j] = IF j = Len(list) THEN n ELSE IF j < k THEN list[j] ELSE list[j + 1]
    BY <1>1, MoveToTailElements
  <1> HIDE DEF k
  <1>5. SUFFICES ASSUME NEW i \in 1 .. Len(list), NEW j \in 1 .. Len(list), i < j
                 PROVE  list'[j] \in since'[list'[i]]
    BY <1>3 DEF Followed
  <1> DEFINE ii == IF i < k THEN i ELSE i + 1
             jj == IF j < k THEN j ELSE j + 1
  <1>6. ii \in 1 .. Len(list) /\ list'[i] = list[ii] /\ ii # k
    BY <1>2, <1>3, <1>4, <1>5
  <1>7. list[ii] \in Names /\ list[ii] # n
    BY <1>1, <1>2, <1>6 DEF NoDup
  <1>8. since'[list[ii]] = since[list[ii]] \cup {n}
    BY <1>7 DEF Used
  <1>9. CASE j = Len(list)
    BY <1>4, <1>6, <1>8, <1>9
  <1>10. CASE j # Len(list)
    <2>1. jj \in 1 .. Len(list) /\ list'[j] = list[jj] /\ ii < jj
      BY <1>2, <1>3, <1>4, <1>5, <1>10
    <2>2. list[jj] \in since[list[ii]]
      BY <1>6, <2>1 DEF Followed
    <2> QED BY <1>6, <1>8, <2>1, <2>2
  <1> QED BY <1>9, <1>10

(* So does a name that is added. *)
LEMMA AddFollows ==
    ASSUME IInv, Followed, NEW n \in Names \ tree, Used(n)
    PROVE  LET m == Append(list, n) IN
           \A j, k \in 1 .. Len(m) : j < k => m[k] \in since'[m[j]]
  <1> DEFINE m == Append(list, n)
  <1>1. list \in Seq(Names) /\ n \notin Elems(list) /\ Len(list) \in Nat
    BY DEF IInv, TypeOK, ListInv
  <1>2. Len(m) = Len(list) + 1
    BY <1>1
  <1>3. \A j \in 1 .. Len(list) + 1 : m[j] = IF j = Len(list) + 1 THEN n ELSE list[j]
    BY <1>1
  <1> HIDE DEF m
  <1>4. SUFFICES ASSUME NEW j \in 1 .. Len(list) + 1, NEW k \in 1 .. Len(list) + 1, j < k
                 PROVE  m[k] \in since'[m[j]]
    BY <1>2 DEF m
  <1>5. j \in 1 .. Len(list) /\ m[j] = list[j]
    BY <1>1, <1>3, <1>4
  <1>6. list[j] \in Names /\ list[j] # n
    BY <1>1, <1>5 DEF Elems
  <1>7. since'[m[j]] = since[list[j]] \cup {n}
    BY <1>5, <1>6 DEF Used
  <1>8. CASE k = Len(list) + 1
    BY <1>3, <1>7, <1>8
  <1>9. CASE k # Len(list) + 1
    <2>1. k \in 1 .. Len(list) /\ m[k] = list[k]
      BY <1>1, <1>3, <1>9
    <2> QED BY <1>4, <1>5, <1>7, <2>1 DEF Followed
  <1> QED BY <1>8, <1>9

(* An answered address is the one the name has in the tree, and names that    *)
(* are not asked for keep theirs.                                             *)
LEMMA AnswerAnswered ==
    ASSUME IInv, RInv, NEW n \in Names, NEW i \in Indices, Answer(n, i),
           n \in tree', idx'[n] = i,
           \A m \in Names \ {n} :
              \/ (m \in tree' <=> m \in tree) /\ idx'[m] = idx[m]
              \/ m \notin tree' /\ Cardinality(since'[m]) >= max
    PROVE  Answered'
  <1> SUFFICES ASSUME NEW m \in Names
               PROVE  IF m \in tree' THEN handed'[m] = net + idx'[m]
                      ELSE handed'[m] = -1 \/ Cardinality(since'[m]) >= max
    BY DEF Answered
  <1>1. handed' = [handed EXCEPT ![n] = net + i] /\ Used(n)
    BY DEF Answer
  <1>2. handed \in [Names -> Nat \cup {-1}]
    BY DEF IInv, TypeOK
  <1>3. CASE m = n
    BY <1>1, <1>2, <1>3
  <1>4. CASE m # n
    <2>1. handed'[m] = handed[m]
      BY <1>1, <1>2, <1>4
    <2>2. IF m \in tree THEN handed[m] = net + idx[m]
          ELSE handed[m] = -1 \/ Cardinality(since[m]) >= max
      BY DEF RInv, Answered
    <2>3. /\ Cardinality(since[m]) \in Nat /\ Cardinality(since'[m]) \in Nat
          /\ Cardinality(since[m]) <= Cardinality(since'[m])
      BY <1>1, <1>4, UsedFinite, FS_CardinalityType DEF RInv
    <2>4. max \in Nat
      BY MappedDnsAssumption
    <2>5. CASE (m \in tree' <=> m \in tree) /\ idx'[m] = idx[m]
      BY <2>1, <2>2, <2>3, <2>4, <2>5
    <2>6. CASE m \notin tree' /\ Cardinality(since'[m]) >= max
      BY <2>6
    <2> QED BY <1>4, <2>5, <2>6
  <1> QED BY <1>3, <1>4

(* The name that gives its address away has been followed by every name that *)
(* stays and by the new one, as many as the cache holds.                      *)
LEMMA EvictedWasFollowed ==
    ASSUME IInv, IInv', RInv, NEW n \in Names, FindEvict(n)
    PROVE  LET nf == Head(Append(list, n)) IN
           nf \in tree /\ nf # n /\ Cardinality(since'[nf]) >= max /\ Followed'
  <1> DEFINE m == Append(list, n)
             nf == Head(m)
  <1>1. list \in Seq(Names) /\ n \notin Elems(list) /\ n \notin tree /\ Used(n)
    BY DEF IInv, TypeOK, ListInv, FindEvict, Answer
  <1>2. Len(list) \in Nat /\ Len(list) = max /\ max >= 1
    BY <1>1, MappedDnsAssumption DEF IInv, ListInv, FindEvict
  <1>3. nf = list[1] /\ nf \in tree /\ nf # n /\ m[1] = nf
    BY <1>1, <1>2 DEF IInv, ListInv, Elems
  <1>4. \A j, k \in 1 .. Len(m) : j < k => m[k] \in since'[m[j]]
    BY <1>1, AddFollows DEF RInv
  <1>5. list' = Tail(m) /\ m \in Seq(Names) /\ Len(m) = max + 1
    BY <1>1, <1>2 DEF FindEvict
  <1>6. Len(list') = max /\ \A j \in 1 .. max : list'[j] = m[j + 1]
    <2>1. m # <<>> /\ max \in Nat
      BY <1>2, <1>5
    <2> HIDE DEF m
    <2> QED BY <2>1, <1>5
  <1> HIDE DEF m
  <1>7. Followed'
    <2> SUFFICES ASSUME NEW j \in 1 .. max, NEW k \in 1 .. max, j < k
                 PROVE  list'[k] \in since'[list'[j]]
      BY <1>6 DEF Followed
    <2>1. j + 1 \in 1 .. Len(m) /\ k + 1 \in 1 .. Len(m) /\ j + 1 < k + 1
      BY <1>2, <1>5
    <2> QED BY <1>4, <1>6, <2>1
  <1>8. Elems(list') \subseteq since'[nf]
    <2> SUFFICES ASSUME NEW j \in 1 .. max PROVE list'[j] \in since'[nf]
      BY <1>6 DEF Elems
    <2>1. 1 \in 1 .. Len(m) /\ j + 1 \in 1 .. Len(m) /\ 1 < j + 1
      BY <1>2, <1>5
    <2> QED BY <1>3, <1>4, <1>6, <2>1
  <1>9. Cardinality(Elems(list')) = max
    <2>1. list' \in Seq(Names) /\ NoDup(list')
      BY DEF IInv, TypeOK, ListInv
    <2> QED BY <1>6, <2>1, ElemsCardinality
  <1>10. IsFiniteSet(since'[nf])
    <2>1. nf \in Names
      BY <1>3 DEF IInv, TypeOK
    <2> QED BY <1>1, <2>1, UsedFinite DEF RInv
  <1>11. Cardinality(since'[nf]) >= max
    <2>1. Cardinality(Elems(list')) <= Cardinality(since'[nf])
      BY <1>8, <1>10, FS_Subset
    <2>2. Cardinality(since'[nf]) \in Nat /\ max \in Nat
      BY <1>2, <1>10, FS_CardinalityType
    <2> QED BY <1>9, <2>1, <2>2
  <1> QED BY <1>3, <1>7, <1>11 DEF m

(* In the empty table nothing follows anything. *)
LEMMA InitRInv == Init => RInv
  <1> SUFFICES ASSUME Init PROVE RInv
    OBVIOUS
  <1>1. Followed /\ Answered
    BY DEF Init, Followed, Answered
  <1>2. \A n \in Names : IsFiniteSet(since[n])
    BY FS_EmptySet DEF Init
  <1> QED BY <1>1, <1>2 DEF RInv

(* Every step keeps the list in the order of use. *)
LEMMA NextRInv == IInv /\ IInv' /\ RInv /\ [Next]_vars => RInv'
  <1> SUFFICES ASSUME IInv, IInv', RInv, [Next]_vars PROVE RInv'
    OBVIOUS
  <1>1. ASSUME NEW n \in Names, FindKnown(n) PROVE RInv'
    <2>1. idx[n] \in Indices /\ n \in tree /\ Answer(n, idx[n]) /\ Used(n)
      BY <1>1 DEF IInv, OneAddressPerName, FindKnown, Answer
    <2>2. Followed'
      BY <1>1, <2>1, MoveFollows DEF RInv, FindKnown
    <2>3. Answered'
      BY <1>1, <2>1, AnswerAnswered DEF FindKnown
    <2>4. \A m \in Names : IsFiniteSet(since'[m])
      BY <2>1, UsedFinite DEF RInv
    <2> QED BY <2>2, <2>3, <2>4 DEF RInv
  <1>2. ASSUME NEW n \in Names, FindNew(n) PROVE RInv'
    <2>1. use \in Indices /\ n \notin tree /\ Answer(n, use) /\ Used(n)
      BY <1>2, MappedDnsAssumption DEF IInv, TypeOK, FindNew, Answer, Indices
    <2>2. Followed'
      BY <1>2, <2>1, AddFollows DEF RInv, FindNew, Followed
    <2>3. Answered'
      <3>1. tree' = tree \cup {n} /\ idx' = [idx EXCEPT ![n] = use]
        BY <1>2 DEF FindNew
      <3>2. idx \in [Names -> Indices \cup {-1}]
        BY DEF IInv, TypeOK
      <3> QED BY <2>1, <3>1, <3>2, AnswerAnswered
    <2>4. \A m \in Names : IsFiniteSet(since'[m])
      BY <2>1, UsedFinite DEF RInv
    <2> QED BY <2>2, <2>3, <2>4 DEF RInv
  <1>3. ASSUME NEW n \in Names, FindEvict(n) PROVE RInv'
    <2> DEFINE nf == Head(Append(list, n))
    <2>1. nf \in tree /\ nf # n /\ Cardinality(since'[nf]) >= max /\ Followed'
      BY <1>3, EvictedWasFollowed
    <2>2. idx[nf] \in Indices
      BY <2>1 DEF IInv, OneAddressPerName
    <2>3. /\ tree' = (tree \cup {n}) \ {nf} /\ n \notin tree
          /\ idx' = [idx EXCEPT ![n] = idx[nf], ![nf] = -1]
          /\ Answer(n, idx[nf]) /\ Used(n)
      BY <1>3 DEF FindEvict, Answer
    <2>4. idx \in [Names -> Indices \cup {-1}]
      BY DEF IInv, TypeOK
    <2> HIDE DEF nf
    <2>5. idx'[n] = idx[nf] /\ n \in tree'
      BY <2>1, <2>3, <2>4
    <2>6. \A m \in Names \ {n, nf} : (m \in tree' <=> m \in tree) /\ idx'[m] = idx[m]
      BY <2>3, <2>4
    <2>7. nf \notin tree' /\ Cardinality(since'[nf]) >= max
      BY <2>1, <2>3
    <2>8. Answered'
      BY <2>2, <2>3, <2>5, <2>6, <2>7, AnswerAnswered
    <2>9. \A m \in Names : IsFiniteSet(since'[m])
      BY <2>3, UsedFinite DEF RInv
    <2> QED BY <2>1, <2>8, <2>9 DEF RInv
  <1>4. CASE Skip
    BY <1>4 DEF Skip, table, RInv, Followed, Answered
  <1>5. CASE NoReply
    BY <1>5 DEF NoReply, table, RInv, Followed, Answered
  <1>6. ASSUME NEW req \in Requests, Handle(req) PROVE RInv'
    BY <1>6 DEF Handle, table, RInv, Followed, Answered
  <1>7. ASSUME NEW ip \in IPs, Lookup(ip) PROVE RInv'
    <2> DEFINE i == ip % hostsize
    <2>1. i \in Nat
      BY MappedDnsAssumption
    <2>2. CASE i < max /\ records[i] # None
      <3> DEFINE n == records[i]
      <3>1. n \in tree /\ n \in Names
        BY <2>1, <2>2, MappedDnsAssumption DEF IInv, TypeOK, OneAddressPerName, Indices
      <3>2. /\ list' = MoveToTail(list, n) /\ Used(n)
            /\ UNCHANGED <<use, tree, idx, records, todo, answers, handed>>
        BY <1>7, <2>2 DEF Lookup
      <3> HIDE DEF n
      <3>3. Followed'
        BY <3>1, <3>2, MoveFollows DEF RInv
      <3>4. /\ \A m \in Names : IsFiniteSet(since'[m])
            /\ \A m \in Names \ {n} : Cardinality(since[m]) <= Cardinality(since'[m])
        BY <3>1, <3>2, UsedFinite DEF RInv
      <3>5. Answered'
        <4> SUFFICES ASSUME NEW m \in Names \ tree
                     PROVE  handed[m] = -1 \/ Cardinality(since'[m]) >= max
          BY <3>2 DEF RInv, Answered
        <4>1. handed[m] = -1 \/ Cardinality(since[m]) >= max
          BY DEF RInv, Answered
        <4>2. /\ Cardinality(since[m]) <= Cardinality(since'[m]) /\ max \in Nat
              /\ Cardinality(since[m]) \in Nat /\ Cardinality(since'[m]) \in Nat
          BY <3>1, <3>4, FS_CardinalityType, MappedDnsAssumption DEF RInv
        <4> QED BY <4>1, <4>2
      <3> QED BY <3>3, <3>4, <3>5 DEF RInv
    <2>3. CASE ~(i < max /\ records[i] # None)
      BY <1>7, <2>3 DEF Lookup, RInv, Followed, Answered
    <2> QED BY <2>2, <2>3
  <1>8. CASE UNCHANGED vars
    BY <1>8 DEF vars, table, RInv, Followed, Answered
  <1> QED
    BY <1>1, <1>2, <1>3, <1>4, <1>5, <1>6, <1>7, <1>8 DEF Next

(****************************************************************************)
(* The address hev_mapped_dns_find gave out for a name leads back to it      *)
(* until as many other names as the cache holds have been used.              *)
(****************************************************************************)
THEOREM RecentNamesKept == Spec => []RecentNamesStay
  <1>1. IInv /\ RInv => RecentNamesStay
    <2> SUFFICES ASSUME IInv, RInv, NEW n \in Names,
                        handed[n] # -1, Cardinality(since[n]) < max
                 PROVE  records[handed[n] - net] = n
      BY DEF RecentNamesStay
    <2>1. max \in Nat /\ net \in Nat /\ Cardinality(since[n]) \in Nat
      BY MappedDnsAssumption, FS_CardinalityType DEF RInv
    <2>2. n \in tree /\ handed[n] = net + idx[n]
      BY <2>1 DEF RInv, Answered
    <2>3. idx[n] \in Indices /\ records[idx[n]] = n
      BY <2>2 DEF IInv, OneAddressPerName
    <2>4. idx[n] \in Int
      BY <2>1, <2>3 DEF Indices
    <2>5. handed[n] - net = idx[n]
      BY <2>1, <2>2, <2>4
    <2> QED BY <2>3, <2>5
  <1> QED
    BY <1>1, InitIInv, NextIInv, InitRInv, NextRInv, PTL DEF Spec

-----------------------------------------------------------------------------
(* The red-black tree. *)

(* Induction and recursion along a rank. *)

\* m is in T if what ranks below it is.
Inductive(S, rank, T) ==
    \A m \in S : (\A k \in S : rank[k] < rank[m] => k \in T) => m \in T

\* What holds of m when it holds of all that rank lower holds of all.
LEMMA RankInduction ==
    ASSUME NEW S, NEW rank \in [S -> Nat], NEW T, Inductive(S, rank, T)
    PROVE  S \subseteq T
<1> DEFINE R == OpToRel(<, Nat)
           N == {rank[m] : m \in S \ T}
<1>1. IsWellFoundedOn(R, Nat)
  BY NatLessThanWellFounded
<1>2. \A x, y \in Nat : x < y => <<x, y>> \in R
  BY DEF OpToRel
<1> HIDE DEF R
<1>3. CASE N # {}
  <2>1. N \subseteq Nat
    OBVIOUS
  <2> HIDE DEF N
  <2>2. PICK x \in N : \A y \in N : ~ (<<y, x>> \in R)
    BY <1>1, <1>3, <2>1, WFMin
  <2>3. PICK m \in S \ T : x = rank[m]
    BY <2>2 DEF N
  <2>4. ASSUME NEW k \in S, rank[k] < rank[m], k \notin T PROVE FALSE
    <3>1. rank[k] \in N /\ rank[k] \in Nat /\ x \in Nat
      BY <2>3, <2>4 DEF N
    <3> QED
      BY <1>2, <2>2, <2>3, <2>4, <3>1
  <2> QED
    BY <2>3, <2>4 DEF Inductive
<1>4. CASE N = {}
  BY <1>4
<1> QED
  BY <1>3, <1>4

\* f is computed by going from m to next[m] as long as that is in S.
Computes(f, S, V, next, base, step) ==
    /\ f \in [S -> V]
    /\ \A m \in S : f[m] = IF next[m] \in S THEN step[m][f[next[m]]] ELSE base[m]

Computable(S, V, next, base, step) == \E f : Computes(f, S, V, next, base, step)

\* A function that is computed by steps down a bounded rank exists.
LEMMA Recursion ==
    ASSUME NEW S, NEW V, NEW rank \in [S -> Nat], NEW bound \in Nat,
           \A m \in S : rank[m] < bound,
           NEW next, NEW base \in [S -> V], NEW step \in [S -> [V -> V]],
           \A m \in S : next[m] \in S => rank[next[m]] < rank[m]
    PROVE  Computable(S, V, next, base, step)
<1> DEFINE Upto(f, n) ==
               /\ f \in [S -> V]
               /\ \A m \in S : rank[m] < n =>
                     f[m] = IF next[m] \in S THEN step[m][f[next[m]]] ELSE base[m]
           Good(n) == \E f : Upto(f, n)
           T == {n \in Nat : Good(n)}
           id == [n \in Nat |-> n]
<1>1. ASSUME NEW n \in Nat, \A k \in Nat : id[k] < id[n] => k \in T PROVE n \in T
  <2>1. CASE n = 0
    <3>1. Upto(base, n)
      BY <2>1
    <3> QED
      BY <3>1
  <2>2. CASE n # 0
    <3>1. n - 1 \in Nat /\ n - 1 < n
      BY <2>2
    <3>2. n - 1 \in T
      BY <1>1, <3>1
    <3>3. PICK f : Upto(f, n - 1)
      BY <3>2
    <3> DEFINE g == [m \in S |-> IF next[m] \in S THEN step[m][f[next[m]]] ELSE base[m]]
    <3>4. g \in [S -> V]
      BY <3>3
    <3>5. ASSUME NEW m \in S, rank[m] < n
          PROVE  g[m] = IF next[m] \in S THEN step[m][g[next[m]]] ELSE base[m]
      <4>1. CASE next[m] \in S
        <5>1. rank[next[m]] < n - 1
          <6>1. rank[next[m]] < rank[m] /\ rank[next[m]] \in Nat /\ rank[m] \in Nat
            BY <4>1
          <6> QED
            BY <3>5, <6>1
        <5>2. f[next[m]] = g[next[m]]
          BY <3>3, <4>1, <5>1
        <5> QED
          BY <4>1, <5>2
      <4>2. CASE next[m] \notin S
        BY <4>2
      <4> QED
        BY <4>1, <4>2
    <3> HIDE DEF g
    <3>6. Upto(g, n)
      BY <3>4, <3>5
    <3> QED
      BY <3>6
  <2> QED
    BY <2>1, <2>2
<1>2. Nat \subseteq T
  <2>1. id \in [Nat -> Nat]
    OBVIOUS
  <2> HIDE DEF T, id
  <2>2. Inductive(Nat, id, T)
    BY <1>1 DEF Inductive
  <2> QED
    BY <2>1, <2>2, RankInduction
<1>3. PICK f : Upto(f, bound)
  BY <1>2
<1>4. Computes(f, S, V, next, base, step)
  BY <1>3 DEF Computes
<1> QED
  BY <1>4 DEF Computable

-----------------------------------------------------------------------------
(* The inductive invariant: what the pointers, colours and heights of a node  *)
(* and of its children have to do with each other.                           *)

Places == Nodes \cup {NULL}

IsTree(tr) ==
    tr \in [root : Places, leftmost : {tr.leftmost}, child : [Nodes -> [Sides -> Places]],
            parent : [Nodes -> Places], colour : [Nodes -> {Red, Black}]]

\* Parents and children agree, and a node that has a parent hangs on the tree.
Links(tr) ==
    /\ \A m \in Nodes, x \in Sides :
          tr.child[m][x] # NULL => /\ tr.parent[tr.child[m][x]] = m
                                   /\ tr.child[m][Opp(x)] # tr.child[m][x]
    /\ \A m \in Nodes :
          tr.parent[m] # NULL => /\ \E x \in Sides : tr.child[tr.parent[m]][x] = m
                                 /\ Linked(tr, tr.parent[m])
    /\ tr.root # NULL => tr.parent[tr.root] = NULL

\* The black nodes from n down to a leaf, n included, are h[n].
Tall(h, n) == IF n = NULL THEN 0 ELSE h[n]
Bl(tr, n) == IF tr.colour[n] = Black THEN 1 ELSE 0

Heights(h) == h \in [Nodes -> Nat] /\ \E b \in Nat : \A n \in Nodes : h[n] <= b

\* What holds between m and its child on side x: the heights agree, except that
\* one is missing on side sd of pr, and no red node has a red child but nd.
Fine(tr, h, nd, pr, sd, m, x) ==
    /\ h[m] = (Bl(tr, m) + Tall(h, tr.child[m][x])) + (IF m = pr /\ x = sd THEN 1 ELSE 0)
    /\ IsRed(tr, m) /\ tr.child[m][x] # nd => ~IsRed(tr, tr.child[m][x])

Shape(tr, h, nd, pr, sd) ==
    /\ IsTree(tr) /\ Links(tr) /\ Heights(h)
    /\ \A m \in Nodes, x \in Sides : Fine(tr, h, nd, pr, sd, m, x)
    /\ nd # NULL => tr.parent[nd] # nd

Idle == \E h : Shape(t, h, NULL, NULL, "left") /\ ~IsRed(t, t.root)

Inserting ==
    /\ node \in Nodes /\ Linked(t, node) /\ IsRed(t, node)
    /\ parent = t.parent[node]
    /\ t.root = node \/ ~IsRed(t, t.root)
    /\ \E h : Shape(t, h, node, NULL, "left")

Erasing ==
    /\ parent \in Nodes /\ node \in Places
    /\ ~IsRed(t, node) /\ ~IsRed(t, t.root)
    /\ \E s \in Sides : t.child[parent][s] = node /\ \E h : Shape(t, h, NULL, parent, s)

TreeInv ==
    /\ op \in {"idle", "insert", "erase"}
    /\ op = "idle" => Idle
    /\ op = "insert" => Inserting
    /\ op = "erase" => Erasing

-----------------------------------------------------------------------------
\* The two sides and the two colours.
LEMMA OppFacts ==
    /\ Red # Black
    /\ \A s \in Sides : Opp(s) \in Sides /\ Opp(s) # s /\ Opp(Opp(s)) = s
    /\ \A s, x \in Sides : x = s \/ x = Opp(s)
  BY DEF Sides, Opp, Red, Black

\* Ranked by black height, and by colour within a height, parents come above
\* children: there is no cycle.
Ranked(tr, rank) ==
    /\ rank \in [Nodes -> Nat]
    /\ \A m \in Nodes : tr.parent[m] # NULL => rank[m] < rank[tr.parent[m]]
    /\ \E b \in Nat : \A m \in Nodes : rank[m] < b

Acyclic(tr) == \E rank : Ranked(tr, rank)

\* There is no cycle of parents: the walks of the code end.
LEMMA ShapeAcyclic ==
    ASSUME NEW tr, NEW h, NEW nd, NEW pr, NEW sd, Shape(tr, h, nd, pr, sd),
           nd = NULL \/ nd \in Nodes
    PROVE  Acyclic(tr)
<1> DEFINE extra(m) == IF tr.colour[m] = Black THEN 0
                       ELSE IF nd # NULL /\ m = tr.parent[nd] THEN 2 ELSE 1
           rank == [m \in Nodes |-> 3 * h[m] + extra(m)]
<1>1. h \in [Nodes -> Nat] /\ NULL \notin Nodes
  BY RbTreeAssumption DEF Shape, Heights
<1>2. PICK b \in Nat : \A m \in Nodes : h[m] <= b
  BY DEF Shape, Heights
<1>3. \A m : extra(m) \in {0, 1, 2}
  OBVIOUS
<1>4. ASSUME NEW m \in Nodes, tr.parent[m] # NULL PROVE rank[m] < rank[tr.parent[m]]
  <2> DEFINE p == tr.parent[m]
  <2>1. p \in Nodes /\ tr.colour[p] \in {Red, Black} /\ tr.colour[m] \in {Red, Black}
    BY <1>4 DEF Shape, IsTree, Places
  <2>2. PICK x \in Sides : tr.child[p][x] = m
    BY <1>4 DEF Shape, Links
  <2>3. Fine(tr, h, nd, pr, sd, p, x) /\ m # NULL
    BY <1>1, <2>1 DEF Shape
  <2>4. h[p] \in Nat /\ h[m] \in Nat
    BY <1>1, <2>1
  <2>5. h[p] >= Bl(tr, p) + h[m]
    BY <2>2, <2>3, <2>4 DEF Fine, Tall, Bl
  <2>6. rank[m] = 3 * h[m] + extra(m) /\ rank[p] = 3 * h[p] + extra(p)
    BY <2>1
  <2> HIDE DEF rank
  <2>7. CASE tr.colour[p] = Black
    <3>1. h[p] >= h[m] + 1
      BY <2>4, <2>5, <2>7 DEF Bl
    <3> HIDE DEF extra
    <3> QED
      BY <1>3, <2>4, <2>6, <3>1
  <2>8. CASE tr.colour[p] = Red /\ tr.colour[m] = Black
    <3>1. h[p] >= h[m] /\ extra(m) = 0 /\ extra(p) \in {1, 2}
      BY <2>4, <2>5, <2>8, OppFacts DEF Bl
    <3> HIDE DEF extra
    <3> QED
      BY <2>4, <2>6, <3>1
  <2>9. CASE tr.colour[p] = Red /\ tr.colour[m] = Red
    <3>1. m = nd
      BY <2>1, <2>2, <2>3, <2>9, <1>1 DEF Fine, IsRed
    <3>2. tr.parent[nd] # nd
      BY <2>3, <3>1 DEF Shape
    <3>3. h[p] >= h[m] /\ extra(m) = 1 /\ extra(p) = 2
      BY <2>3, <2>4, <2>5, <2>9, <3>1, <3>2, OppFacts DEF Bl
    <3> HIDE DEF extra
    <3> QED
      BY <2>4, <2>6, <3>3
  <2> QED
    BY <2>1, <2>7, <2>8, <2>9
<1>5. rank \in [Nodes -> Nat]
  <2> HIDE DEF extra
  <2> QED
    BY <1>1, <1>3
<1>6. 3 * b + 3 \in Nat /\ \A m \in Nodes : rank[m] < 3 * b + 3
  <2> HIDE DEF extra
  <2> QED
    BY <1>1, <1>2, <1>3
<1> HIDE DEF rank
<1>7. Ranked(tr, rank)
  BY <1>4, <1>5, <1>6 DEF Ranked
<1> QED
  BY <1>7 DEF Acyclic

-----------------------------------------------------------------------------
(* The way up to the root, and the black nodes on it. *)

\* The way up from a node is the node and the way up from its parent.
LEMMA PathFacts ==
    ASSUME NEW rank, IsTree(t), Ranked(t, rank)
    PROVE  \A n \in Nodes :
              /\ Path(n) = {n} \cup (IF t.parent[n] = NULL THEN {} ELSE Path(t.parent[n]))
              /\ IsFiniteSet(Path(n)) /\ Path(n) \subseteq Nodes
              /\ \A k \in Path(n) : rank[n] <= rank[k]
<1> DEFINE Step(f) == [m \in Nodes |-> {m} \cup (IF t.parent[m] = NULL THEN {} ELSE f[t.parent[m]])]
           c == CHOOSE f : f = Step(f)
<1>1. \A n : Path(n) = c[n]
  BY DEF Path
<1>2. PICK b \in Nat : \A m \in Nodes : rank[m] < b
  BY DEF Ranked
<1> DEFINE down == [m \in Nodes |-> b - rank[m]]
<1>3. t.parent \in [Nodes -> Nodes \cup {NULL}] /\ NULL \notin Nodes /\ rank \in [Nodes -> Nat]
  BY RbTreeAssumption DEF IsTree, Places, Ranked
<1>4. down \in [Nodes -> Nat] /\ b + 1 \in Nat /\ \A m \in Nodes : down[m] < b + 1
  BY <1>2, <1>3
<1>5. \A m \in Nodes : t.parent[m] \in Nodes => down[t.parent[m]] < down[m]
  BY <1>2, <1>3 DEF Ranked
<1> HIDE DEF down
<1>6. \E f : f = Step(f)
  <2> DEFINE V == SUBSET Nodes
             base == [m \in Nodes |-> {m}]
             step == [m \in Nodes |-> [v \in V |-> {m} \cup v]]
  <2>1. base \in [Nodes -> V] /\ step \in [Nodes -> [V -> V]]
    OBVIOUS
  <2> HIDE DEF base, step
  <2>2. Computable(Nodes, V, t.parent, base, step)
    BY <1>4, <1>5, <2>1, Recursion
  <2>3. PICK f : Computes(f, Nodes, V, t.parent, base, step)
    BY <2>2 DEF Computable
  <2>4. f \in [Nodes -> V]
    BY <2>3 DEF Computes
  <2>5. ASSUME NEW m \in Nodes PROVE f[m] = Step(f)[m]
    <3>1. f[m] = IF t.parent[m] \in Nodes THEN step[m][f[t.parent[m]]] ELSE base[m]
      BY <2>3 DEF Computes
    <3>2. CASE t.parent[m] = NULL
      BY <1>3, <3>1, <3>2 DEF base
    <3>3. CASE t.parent[m] \in Nodes
      <4>1. f[t.parent[m]] \in V
        BY <2>4, <3>3
      <4> QED
        BY <1>3, <3>1, <3>3, <4>1 DEF step
    <3> QED
      BY <1>3, <3>2, <3>3
  <2>6. f = Step(f)
    BY <2>4, <2>5
  <2> QED
    BY <2>6
<1>7. c = Step(c)
  BY <1>6
<1> HIDE DEF c
<1>8. \A n \in Nodes : c[n] = {n} \cup (IF t.parent[n] = NULL THEN {} ELSE c[t.parent[n]])
  BY <1>7
<1> DEFINE Good(n) == /\ IsFiniteSet(c[n]) /\ c[n] \subseteq Nodes
                      /\ \A k \in c[n] : rank[n] <= rank[k]
           T == {n \in Nodes : Good(n)}
<1>9. Inductive(Nodes, down, T)
  <2> SUFFICES ASSUME NEW m \in Nodes, \A k \in Nodes : down[k] < down[m] => k \in T
               PROVE  Good(m)
    BY DEF Inductive
  <2>1. CASE t.parent[m] = NULL
    <3>1. c[m] = {m}
      BY <1>8, <2>1
    <3>2. IsFiniteSet({m})
      BY FS_Singleton
    <3> QED
      BY <1>3, <3>1, <3>2
  <2>2. CASE t.parent[m] # NULL
    <3> DEFINE p == t.parent[m]
    <3>1. p \in Nodes /\ Good(p)
      BY <1>3, <1>5, <2>2
    <3>2. c[m] = c[p] \cup {m}
      BY <1>8, <2>2
    <3>3. rank[m] < rank[p]
      BY <2>2 DEF Ranked
    <3>4. IsFiniteSet(c[p] \cup {m})
      BY <3>1, FS_AddElement
    <3>5. ASSUME NEW k \in c[m] PROVE rank[m] <= rank[k]
      <4>1. CASE k = m
        BY <1>3, <4>1
      <4>2. CASE k \in c[p]
        <5>1. rank[p] <= rank[k] /\ k \in Nodes
          BY <3>1, <4>2
        <5> QED
          BY <1>3, <3>1, <3>3, <5>1
      <4> QED
        BY <3>2, <4>1, <4>2
    <3> HIDE DEF p
    <3> QED
      BY <3>1, <3>2, <3>4, <3>5
  <2> QED
    BY <2>1, <2>2
<1>10. Nodes \subseteq T
  <2> HIDE DEF T
  <2> QED
    BY <1>4, <1>9, RankInduction
<1> QED
  BY <1>1, <1>8, <1>10

\* The black nodes on the way up, counted from the parent's.
LEMMA BlackHeightFacts ==
    ASSUME NEW rank, IsTree(t), Ranked(t, rank), NEW n \in Nodes
    PROVE  /\ BlackHeight(n) \in Nat
           /\ t.parent[n] = NULL => BlackHeight(n) = Bl(t, n)
           /\ t.parent[n] # NULL => /\ BlackHeight(n) = Bl(t, n) + BlackHeight(t.parent[n])
                                    /\ BlackHeight(t.parent[n]) \in Nat
<1> DEFINE Dark(k) == {m \in Path(k) : t.colour[m] = Black}
           p == t.parent[n]
<1>1. NULL \notin Nodes /\ p \in Nodes \cup {NULL} /\ rank \in [Nodes -> Nat]
  BY RbTreeAssumption DEF IsTree, Places, Ranked
<1>2. \A k \in Nodes : IsFiniteSet(Dark(k)) /\ Cardinality(Dark(k)) \in Nat
  <2>1. \A k \in Nodes : IsFiniteSet(Path(k))
    BY PathFacts
  <2>2. \A k \in Nodes : IsFiniteSet(Dark(k))
    BY <2>1, FS_Subset
  <2> QED
    BY <2>2, FS_CardinalityType
<1>3. \A k : BlackHeight(k) = Cardinality(Dark(k))
  BY DEF BlackHeight
<1>4. CASE p = NULL
  <2>1. Path(n) = {n}
    BY <1>4, PathFacts
  <2>2. CASE t.colour[n] = Black
    <3>1. Dark(n) = {n}
      BY <2>1, <2>2
    <3> QED
      BY <1>2, <1>3, <1>4, <2>2, <3>1, FS_Singleton DEF Bl
  <2>3. CASE t.colour[n] # Black
    <3>1. Dark(n) = {}
      BY <2>1, <2>3
    <3> QED
      BY <1>2, <1>3, <1>4, <2>3, <3>1, FS_EmptySet DEF Bl
  <2> QED
    BY <2>2, <2>3
<1>5. CASE p # NULL
  <2>1. p \in Nodes /\ rank[n] < rank[p]
    BY <1>1, <1>5 DEF Ranked
  <2>2. Path(n) = Path(p) \cup {n}
    BY <1>5, PathFacts
  <2>3. n \notin Path(p)
    <3>1. \A k \in Path(p) : rank[p] <= rank[k]
      BY <2>1, PathFacts
    <3>2. rank[n] \in Nat /\ rank[p] \in Nat
      BY <1>1, <2>1
    <3> QED
      BY <2>1, <3>1, <3>2
  <2>4. CASE t.colour[n] = Black
    <3>1. Dark(n) = Dark(p) \cup {n} /\ n \notin Dark(p)
      BY <2>2, <2>3, <2>4
    <3>2. Cardinality(Dark(p) \cup {n}) = Cardinality(Dark(p)) + 1
      <4> HIDE DEF Dark
      <4> QED
        BY <1>2, <2>1, <3>1, FS_AddElement
    <3> HIDE DEF Dark
    <3> QED
      BY <1>2, <1>3, <1>5, <2>1, <2>4, <3>1, <3>2 DEF Bl
  <2>5. CASE t.colour[n] # Black
    <3>1. Dark(n) = Dark(p)
      BY <2>2, <2>5
    <3> HIDE DEF Dark
    <3> QED
      BY <1>2, <1>3, <1>5, <2>1, <2>5, <3>1 DEF Bl
  <2> QED
    BY <2>4, <2>5
<1> QED
  BY <1>4, <1>5

\* The node from which paths are one black node short, if any.
Low(pr, sd) == IF pr = NULL THEN NULL ELSE t.child[pr][sd]
Lack(n, low) == IF low # NULL /\ Under(n, low) THEN 1 ELSE 0

\* The black nodes above a node and those below add up to those of the whole tree,
\* but for the one that is missing below node while erasing.
LEMMA PathsAgree ==
    ASSUME NEW h, NEW nd \in Places, NEW pr \in Places, NEW sd \in Sides,
           Shape(t, h, nd, pr, sd)
    PROVE  \A n \in Members :
              (BlackHeight(n) + h[n]) + Lack(n, Low(pr, sd)) = Tall(h, t.root) + Bl(t, n)
<1> DEFINE low == Low(pr, sd)
<1>1. PICK rank : Ranked(t, rank)
  BY ShapeAcyclic DEF Acyclic, Places
<1>2. PICK b \in Nat : \A m \in Nodes : rank[m] < b
  BY <1>1 DEF Ranked
<1>3. NULL \notin Nodes /\ rank \in [Nodes -> Nat] /\ t.parent \in [Nodes -> Nodes \cup {NULL}]
      /\ h \in [Nodes -> Nat] /\ IsTree(t) /\ Links(t)
  BY RbTreeAssumption, <1>1 DEF IsTree, Places, Ranked, Shape, Heights
<1> DEFINE down == [m \in Nodes |-> b - rank[m]]
           Good(n) == Linked(t, n) =>
                (BlackHeight(n) + h[n]) + Lack(n, low) = Tall(h, t.root) + Bl(t, n)
           T == {n \in Nodes : Good(n)}
<1>4. down \in [Nodes -> Nat]
  BY <1>2, <1>3
<1>5. \A m \in Nodes : t.parent[m] # NULL => down[t.parent[m]] < down[m] /\ t.parent[m] \in Nodes
  BY <1>1, <1>2, <1>3 DEF Ranked
<1> HIDE DEF down
<1>6. pr # NULL => low = t.child[pr][sd] /\ pr \in Nodes /\ low \in Places
  BY <1>3 DEF Places, Low, IsTree
<1>7. pr # NULL /\ low # NULL => t.parent[low] = pr /\ low \in Nodes
  BY <1>3, <1>6 DEF Links, Places
<1>8. pr = NULL => low = NULL
  BY DEF Low
<1> HIDE DEF low
<1>9. Inductive(Nodes, down, T)
  <2> SUFFICES ASSUME NEW m \in Nodes, \A k \in Nodes : down[k] < down[m] => k \in T,
                      Linked(t, m)
               PROVE  (BlackHeight(m) + h[m]) + Lack(m, low) = Tall(h, t.root) + Bl(t, m)
    BY DEF Inductive
  <2>0. h[m] \in Nat /\ Bl(t, m) \in Nat /\ BlackHeight(m) \in Nat /\ Lack(m, low) \in {0, 1}
    BY <1>1, <1>3, BlackHeightFacts DEF Bl, Lack
  <2>1. CASE t.parent[m] = NULL
    <3>1. m = t.root /\ Path(m) = {m} /\ BlackHeight(m) = Bl(t, m)
      BY <1>1, <1>3, <2>1, PathFacts, BlackHeightFacts DEF Linked
    <3>2. low = NULL \/ low # m
      BY <1>3, <1>6, <1>7, <1>8, <2>1
    <3>3. Lack(m, low) = 0
      BY <3>1, <3>2 DEF Lack, Under
    <3> QED
      BY <1>3, <2>0, <3>1, <3>3 DEF Tall
  <2>2. CASE t.parent[m] # NULL
    <3> DEFINE p == t.parent[m]
    <3>1. p \in Nodes /\ Good(p) /\ Linked(t, p)
      BY <1>3, <1>5, <2>2 DEF Links
    <3>2. BlackHeight(m) = Bl(t, m) + BlackHeight(p) /\ BlackHeight(p) \in Nat
      BY <1>1, <1>3, <2>2, BlackHeightFacts
    <3>3. PICK x \in Sides : t.child[p][x] = m
      BY <1>3, <2>2 DEF Links
    <3> DEFINE d == IF m = low THEN 1 ELSE 0
    <3>4. h[p] = (Bl(t, p) + h[m]) + d
      <4>1. h[p] = (Bl(t, p) + Tall(h, m)) + (IF p = pr /\ x = sd THEN 1 ELSE 0)
        BY <3>1, <3>3 DEF Shape, Fine
      <4>2. (p = pr /\ x = sd) <=> m = low
        <5>1. CASE p = pr /\ x = sd
          BY <1>3, <1>6, <3>1, <3>3, <5>1
        <5>2. CASE m = low
          <6>1. pr # NULL /\ low # NULL
            BY <1>3, <1>8, <5>2
          <6>2. p = pr /\ t.child[p][sd] = m
            BY <1>6, <1>7, <5>2, <6>1
          <6>3. t.child[p][x] # NULL => t.child[p][Opp(x)] # t.child[p][x]
            BY <1>3, <3>1 DEF Links
          <6>4. sd = x \/ sd = Opp(x)
            BY OppFacts
          <6>5. x = sd
            BY <1>3, <3>3, <6>2, <6>3, <6>4
          <6> QED
            BY <5>2, <6>2, <6>5
        <5> QED
          BY <5>1, <5>2
      <4> QED
        BY <1>3, <4>1, <4>2 DEF Tall
    <3>5. Lack(m, low) = Lack(p, low) + d
      <4>1. Path(m) = {m} \cup Path(p)
        BY <1>1, <1>3, <2>2, PathFacts
      <4>2. m \notin Path(p)
        <5>1. \A k \in Path(p) : rank[p] <= rank[k]
          BY <1>1, <1>3, <3>1, PathFacts
        <5>2. rank[m] \in Nat /\ rank[p] \in Nat /\ rank[m] < rank[p]
          BY <1>1, <1>3, <2>2, <3>1 DEF Ranked
        <5> QED
          BY <5>1, <5>2
      <4>3. CASE m = low
        <5>1. Lack(m, low) = 1 /\ Lack(p, low) = 0
          BY <1>3, <4>1, <4>2, <4>3 DEF Lack, Under
        <5> QED
          BY <4>3, <5>1
      <4>4. CASE m # low
        <5>1. Lack(m, low) = Lack(p, low) /\ Lack(m, low) \in {0, 1}
          BY <4>1, <4>4 DEF Lack, Under
        <5> QED
          BY <4>4, <5>1
      <4> QED
        BY <4>3, <4>4
    <3>6. h[p] \in Nat /\ Bl(t, p) \in Nat /\ Lack(p, low) \in Nat /\ d \in Nat
      BY <1>3, <3>1 DEF Bl, Lack
    <3>7. (BlackHeight(p) + h[p]) + Lack(p, low) = Tall(h, t.root) + Bl(t, p)
      BY <3>1
    <3>8. Tall(h, t.root) \in Nat
      BY <1>3 DEF Tall, IsTree, Places
    <3> HIDE DEF p, d
    <3> QED
      BY <2>0, <3>2, <3>4, <3>5, <3>6, <3>7, <3>8
  <2> QED
    BY <2>1, <2>2
<1>10. Nodes \subseteq T
  <2> HIDE DEF T
  <2> QED
    BY <1>4, <1>9, RankInduction
<1> QED
  BY <1>10 DEF low, Members

\* A path that ends at n has all the black nodes, or all but one.
LEMMA EndsAgree ==
    ASSUME NEW h, NEW nd \in Places, NEW pr \in Places, NEW sd \in Sides,
           Shape(t, h, nd, pr, sd), NEW n \in Ends
    PROVE  LET low == Low(pr, sd)
               all == Tall(h, t.root)
           IN  /\ BlackHeight(n) \in Nat /\ all \in Nat
               /\ ~(n = pr /\ low = NULL) => BlackHeight(n) + Lack(n, low) = all
               /\ n = pr /\ low = NULL => BlackHeight(n) + 1 = all
<1> DEFINE low == Low(pr, sd)
           all == Tall(h, t.root)
<1>1. n \in Nodes /\ Linked(t, n)
  BY DEF Ends, Members
<1>2. PICK s \in Sides : t.child[n][s] = NULL
  BY DEF Ends
<1>3. IsTree(t) /\ h \in [Nodes -> Nat] /\ NULL \notin Nodes
  BY RbTreeAssumption DEF Shape, Heights
<1>4. PICK rank : Ranked(t, rank)
  BY ShapeAcyclic DEF Acyclic, Places
<1>5. BlackHeight(n) \in Nat /\ all \in Nat /\ Bl(t, n) \in Nat /\ Lack(n, low) \in {0, 1}
  BY <1>1, <1>3, <1>4, BlackHeightFacts DEF Tall, IsTree, Places, Bl, Lack
<1>6. (BlackHeight(n) + h[n]) + Lack(n, low) = all + Bl(t, n)
  BY <1>1, PathsAgree DEF Members
<1>7. CASE n = pr /\ low = NULL
  <2>1. t.child[n][sd] = NULL
    BY <1>1, <1>3, <1>7 DEF Low
  <2>2. h[n] = (Bl(t, n) + 0) + 1
    BY <1>1, <1>7, <2>1 DEF Shape, Fine, Tall
  <2>3. Lack(n, low) = 0
    BY <1>7 DEF Lack
  <2> HIDE DEF low, all
  <2>4. BlackHeight(n) + 1 = all
    BY <1>5, <1>6, <2>2, <2>3
  <2> QED
    BY <1>5, <1>7, <2>4 DEF low, all
<1>8. CASE ~(n = pr /\ low = NULL)
  <2>1. ~(n = pr /\ s = sd)
    BY <1>1, <1>2, <1>3, <1>8 DEF Low
  <2>2. h[n] = (Bl(t, n) + 0) + 0
    BY <1>1, <1>2, <2>1 DEF Shape, Fine, Tall
  <2> HIDE DEF low, all
  <2>3. BlackHeight(n) + Lack(n, low) = all
    BY <1>5, <1>6, <2>2
  <2> QED
    BY <1>5, <1>8, <2>3 DEF low, all
<1> QED
  BY <1>7, <1>8

\* No red node but the inserted one has a red parent.
LEMMA RedsApart ==
    ASSUME NEW h, NEW nd, NEW pr, NEW sd, Shape(t, h, nd, pr, sd),
           NEW n \in Members, n # nd, IsRed(t, n)
    PROVE  ~IsRed(t, t.parent[n])
<1>1. CASE t.parent[n] = NULL
  BY <1>1 DEF IsRed
<1>2. CASE t.parent[n] # NULL
  <2>1. n \in Nodes /\ t.parent[n] \in Nodes
    BY <1>2 DEF Members, Shape, IsTree, Places
  <2>2. PICK x \in Sides : t.child[t.parent[n]][x] = n
    BY <1>2, <2>1 DEF Shape, Links
  <2> QED
    BY <2>1, <2>2 DEF Shape, Fine
<1> QED
  BY <1>1, <1>2

\* The local invariant implies what is said of paths: Balanced and LoopInvariant.
LEMMA InvRedBlack == TreeInv => RedBlack
<1> SUFFICES ASSUME TreeInv PROVE RedBlack
  OBVIOUS
<1>0. "left" \in Sides /\ NULL \in Places /\ NULL \notin Nodes
  BY RbTreeAssumption DEF Sides, Places
<1>1. Balanced
  <2> SUFFICES ASSUME op = "idle" PROVE Balanced
    BY DEF Balanced
  <2>1. PICK h : Shape(t, h, NULL, NULL, "left") /\ ~IsRed(t, t.root)
    BY DEF TreeInv, Idle
  <2>2. \A n \in Members : IsRed(t, n) => ~IsRed(t, t.parent[n])
    BY <1>0, <2>1, RedsApart DEF Members
  <2>3. \A n \in Ends : BlackHeight(n) = Tall(h, t.root)
    <3> SUFFICES ASSUME NEW n \in Ends PROVE BlackHeight(n) = Tall(h, t.root)
      OBVIOUS
    <3>1. n # NULL /\ Low(NULL, "left") = NULL
      BY <1>0 DEF Ends, Members, Low
    <3>2. Lack(n, NULL) = 0
      BY DEF Lack
    <3>3. BlackHeight(n) \in Nat /\ BlackHeight(n) + Lack(n, NULL) = Tall(h, t.root)
      BY <1>0, <2>1, <3>1, EndsAgree
    <3> QED
      BY <3>2, <3>3
  <2>4. \A n \in Members, s \in Sides : t.child[n][s] # NULL => t.parent[t.child[n][s]] = n
    BY <2>1 DEF Shape, Links, Members
  <2> QED
    BY <2>1, <2>2, <2>3, <2>4 DEF Balanced
<1>2. ASSUME op = "insert"
      PROVE  /\ IsRed(t, node) /\ parent = t.parent[node]
             /\ \A m, n \in Ends : BlackHeight(m) = BlackHeight(n)
             /\ \A n \in Members \ {node} : IsRed(t, n) => ~IsRed(t, t.parent[n])
  <2>1. PICK h : Shape(t, h, node, NULL, "left")
    BY <1>2 DEF TreeInv, Inserting
  <2>2. node \in Places /\ IsRed(t, node) /\ parent = t.parent[node]
    BY <1>2 DEF TreeInv, Inserting, Places
  <2>3. \A n \in Members \ {node} : IsRed(t, n) => ~IsRed(t, t.parent[n])
    BY <2>1, RedsApart
  <2>4. \A n \in Ends : BlackHeight(n) = Tall(h, t.root)
    <3> SUFFICES ASSUME NEW n \in Ends PROVE BlackHeight(n) = Tall(h, t.root)
      OBVIOUS
    <3>1. n # NULL /\ Low(NULL, "left") = NULL
      BY <1>0 DEF Ends, Members, Low
    <3>2. Lack(n, NULL) = 0
      BY DEF Lack
    <3>3. BlackHeight(n) \in Nat /\ BlackHeight(n) + Lack(n, NULL) = Tall(h, t.root)
      BY <1>0, <2>1, <2>2, <3>1, EndsAgree
    <3> QED
      BY <3>2, <3>3
  <2> QED
    BY <2>2, <2>3, <2>4
<1>3. ASSUME op = "erase"
      PROVE  /\ parent # NULL /\ ~IsRed(t, node)
             /\ \A m \in Ends, n \in Ends \ {parent} :
                  /\ ~(node # NULL /\ Under(n, node))
                  /\ (node # NULL /\ Under(m, node)) \/ (node = NULL /\ m = parent)
                  => BlackHeight(n) = BlackHeight(m) + 1
  <2>1. PICK s \in Sides : t.child[parent][s] = node /\ \E h : Shape(t, h, NULL, parent, s)
    BY <1>3 DEF TreeInv, Erasing
  <2>2. PICK h : Shape(t, h, NULL, parent, s)
    BY <2>1
  <2>3. parent \in Nodes /\ parent \in Places /\ ~IsRed(t, node) /\ parent # NULL
    BY <1>0, <1>3 DEF TreeInv, Erasing, Places
  <2>4. Low(parent, s) = node
    BY <2>1, <2>3 DEF Low
  <2>5. ASSUME NEW m \in Ends, NEW n \in Ends \ {parent},
               ~(node # NULL /\ Under(n, node)),
               (node # NULL /\ Under(m, node)) \/ (node = NULL /\ m = parent)
        PROVE  BlackHeight(n) = BlackHeight(m) + 1
    <3>1. Lack(n, node) = 0
      BY <2>5 DEF Lack
    <3>2. BlackHeight(n) \in Nat /\ BlackHeight(n) + Lack(n, node) = Tall(h, t.root)
      BY <1>0, <2>2, <2>3, <2>4, <2>5, EndsAgree
    <3>3. BlackHeight(m) \in Nat /\ BlackHeight(m) + 1 = Tall(h, t.root)
      <4>1. CASE node # NULL /\ Under(m, node)
        <5>1. Lack(m, node) = 1
          BY <4>1 DEF Lack
        <5>2. BlackHeight(m) \in Nat /\ BlackHeight(m) + Lack(m, node) = Tall(h, t.root)
          BY <1>0, <2>2, <2>3, <2>4, <4>1, EndsAgree
        <5> QED
          BY <5>1, <5>2
      <4>2. CASE node = NULL /\ m = parent
        BY <1>0, <2>2, <2>3, <2>4, <4>2, EndsAgree
      <4> QED
        BY <2>5, <4>1, <4>2
    <3> QED
      BY <3>1, <3>2, <3>3
  <2> QED
    BY <2>3, <2>5
<1>4. LoopInvariant
  BY <1>2, <1>3 DEF LoopInvariant
<1> QED
  BY <1>1, <1>4 DEF RedBlack

-----------------------------------------------------------------------------
(* Rotations. *)

\* In u, p's child c on side s has taken p's place under q, and p has taken c's
\* inner child i.
Rotated(tr, u, p, s, c, q, i) ==
    /\ \A m \in Nodes, x \in Sides :
          u.child[m][x] = IF m = p THEN IF x = s THEN i ELSE tr.child[m][x]
                          ELSE IF m = c THEN IF x = Opp(s) THEN p ELSE tr.child[m][x]
                          ELSE IF m = q /\ tr.child[m][x] = p THEN c ELSE tr.child[m][x]
    /\ \A m \in Nodes :
          u.parent[m] = IF m = p THEN c ELSE IF m = c THEN q ELSE IF m = i THEN p
                        ELSE tr.parent[m]
    /\ u.root = IF q = NULL THEN c ELSE tr.root

\* The places of a rotation.
Around(tr, p, s, c, q, i) ==
    /\ p \in Nodes /\ c \in Nodes /\ s \in Sides /\ q \in Places /\ i \in Places
    /\ tr.child[p][s] = c /\ tr.parent[p] = q /\ tr.child[c][Opp(s)] = i
    /\ p # c /\ q # c /\ q # p /\ i # p /\ i # c /\ (i # q \/ i = NULL)

\* The nodes around a child that is to be rotated up are distinct.
LEMMA AroundFacts ==
    ASSUME NEW tr, IsTree(tr), Links(tr), Acyclic(tr), NEW p \in Nodes, NEW s \in Sides,
           tr.child[p][s] # NULL
    PROVE  Around(tr, p, s, tr.child[p][s], tr.parent[p], tr.child[tr.child[p][s]][Opp(s)])
<1> DEFINE c == tr.child[p][s]
           q == tr.parent[p]
           i == tr.child[c][Opp(s)]
<1>1. PICK rank : Ranked(tr, rank)
  BY DEF Acyclic
<1>2. NULL \notin Nodes /\ c \in Nodes /\ q \in Places /\ i \in Places
  BY RbTreeAssumption, OppFacts DEF IsTree, Places
<1>3. tr.parent[c] = p /\ (i # NULL => tr.parent[i] = c)
  BY <1>2, OppFacts DEF Links
<1> HIDE DEF c, q, i
<1>4. rank[c] < rank[p] /\ rank[c] \in Nat /\ rank[p] \in Nat
  BY <1>1, <1>2, <1>3 DEF Ranked
<1>5. q # NULL => rank[p] < rank[q] /\ rank[q] \in Nat
  BY <1>1, <1>2 DEF Ranked, q, Places
<1>6. i # NULL => rank[i] < rank[c] /\ rank[i] \in Nat
  BY <1>1, <1>2, <1>3 DEF Ranked, Places
<1>7. p # c /\ q # c /\ q # p /\ i # p /\ i # c /\ (i # q \/ i = NULL)
  BY <1>2, <1>4, <1>5, <1>6 DEF Places
<1> QED
  BY <1>2, <1>7 DEF c, q, i, Around

\* A rotation keeps parents and children in agreement and every node in the tree.
LEMMA RotatedLinks ==
    ASSUME NEW tr, NEW u, NEW p, NEW s, NEW c, NEW q, NEW i,
           IsTree(tr), IsTree(u), Links(tr), Linked(tr, p),
           Around(tr, p, s, c, q, i), Rotated(tr, u, p, s, c, q, i)
    PROVE  Links(u) /\ \A m \in Nodes : Linked(tr, m) => Linked(u, m)
<1>1. NULL \notin Nodes /\ Opp(s) \in Sides /\ Opp(s) # s /\ p \in Nodes /\ c \in Nodes
      /\ s \in Sides /\ q \in Nodes \cup {NULL} /\ i \in Nodes \cup {NULL}
  BY RbTreeAssumption, OppFacts DEF Around, Places
<1>2. /\ tr.child[p][s] = c /\ tr.parent[p] = q /\ tr.child[c][Opp(s)] = i
      /\ p # c /\ q # c /\ q # p /\ i # p /\ i # c /\ (i # q \/ i = NULL)
  BY DEF Around
<1>3. tr.parent[c] = p /\ (i # NULL => tr.parent[i] = c)
  BY <1>1, <1>2 DEF Links
<1>4. \A m \in Nodes, x \in Sides : tr.child[m][x] \in Nodes \cup {NULL}
  BY DEF IsTree, Places
<1>5. ASSUME NEW m \in Nodes, NEW x \in Sides, u.child[m][x] # NULL
      PROVE  u.parent[u.child[m][x]] = m /\ u.child[m][Opp(x)] # u.child[m][x]
  <2> DEFINE z == tr.child[m][x]
             w == tr.child[m][Opp(x)]
  <2>1. /\ Opp(x) \in Sides /\ Opp(x) # x /\ Opp(Opp(x)) = x /\ (x = s \/ x = Opp(s))
        /\ (Opp(x) = s <=> x # s) /\ (Opp(x) = Opp(s) <=> x = s)
    BY <1>1, OppFacts
  <2>2. z \in Nodes \cup {NULL} /\ w \in Nodes \cup {NULL}
    BY <1>4, <2>1
  <2>3. z # NULL => tr.parent[z] = m /\ w # z
    BY DEF Links
  <2>4. w # NULL => tr.parent[w] = m /\ w # z
    BY <2>1 DEF Links
  <2>5. u.child[m][x] = IF m = p THEN IF x = s THEN i ELSE z
                        ELSE IF m = c THEN IF x = Opp(s) THEN p ELSE z
                        ELSE IF m = q /\ z = p THEN c ELSE z
    BY DEF Rotated
  <2>6. u.child[m][Opp(x)] = IF m = p THEN IF x # s THEN i ELSE w
                             ELSE IF m = c THEN IF x = s THEN p ELSE w
                             ELSE IF m = q /\ w = p THEN c ELSE w
    BY <1>1, <2>1 DEF Rotated
  <2>7. \A n \in Nodes : u.parent[n] = IF n = p THEN c ELSE IF n = c THEN q
                                       ELSE IF n = i THEN p ELSE tr.parent[n]
    BY DEF Rotated
  <2>8. /\ m = p /\ x = s => z = c
        /\ m = p /\ x # s => w = c
        /\ m = c /\ x = s => w = i
        /\ m = c /\ x # s => z = i
    BY <1>2, <2>1
  <2> HIDE DEF z, w
  <2>9. CASE m = p
    BY <1>1, <1>2, <1>3, <2>2, <2>3, <2>4, <2>5, <2>6, <2>7, <2>8, <2>9, <1>5
  <2>10. CASE m = c
    BY <1>1, <1>2, <1>3, <2>1, <2>2, <2>3, <2>4, <2>5, <2>6, <2>7, <2>8, <2>10, <1>5
  <2>11. CASE m # p /\ m # c /\ m = q
    BY <1>1, <1>2, <1>3, <2>1, <2>2, <2>3, <2>4, <2>5, <2>6, <2>7, <2>11, <1>5
  <2>12. CASE m # p /\ m # c /\ m # q
    BY <1>1, <1>2, <1>3, <2>1, <2>2, <2>3, <2>4, <2>5, <2>6, <2>7, <2>12, <1>5
  <2> QED
    BY <2>9, <2>10, <2>11, <2>12
<1>6. u.root = (IF q = NULL THEN c ELSE tr.root) /\ (q = NULL => tr.root = p)
  BY <1>2 DEF Rotated, Linked
<1>7. \A m \in Nodes : u.parent[m] = IF m = p THEN c ELSE IF m = c THEN q
                                     ELSE IF m = i THEN p ELSE tr.parent[m]
  BY DEF Rotated
<1>8. \A m \in Nodes : Linked(tr, m) => Linked(u, m)
  BY <1>1, <1>2, <1>6, <1>7 DEF Linked
<1>9. ASSUME NEW m \in Nodes, u.parent[m] # NULL
      PROVE  \E x \in Sides : u.child[u.parent[m]][x] = m
  <2>1. CASE m = p
    <3>1. u.parent[m] = c /\ u.child[c][Opp(s)] = p
      BY <1>1, <1>2, <1>7, <2>1 DEF Rotated
    <3> QED
      BY <1>1, <2>1, <3>1
  <2>2. CASE m = c
    <3>1. u.parent[m] = q /\ q # NULL
      BY <1>2, <1>7, <1>9, <2>2
    <3>2. PICK x \in Sides : tr.child[q][x] = p
      BY <1>1, <1>2, <3>1 DEF Links
    <3>3. u.child[q][x] = c
      BY <1>1, <1>2, <3>1, <3>2 DEF Rotated
    <3> QED
      BY <2>2, <3>1, <3>3
  <2>3. CASE m # p /\ m # c /\ m = i
    <3>1. u.parent[m] = p /\ u.child[p][s] = i
      BY <1>1, <1>2, <1>7, <2>3 DEF Rotated
    <3> QED
      BY <1>1, <2>3, <3>1
  <2>4. CASE m # p /\ m # c /\ m # i
    <3> DEFINE r == tr.parent[m]
    <3>1. u.parent[m] = r /\ r # NULL /\ r \in Nodes
      BY <1>7, <1>9, <2>4 DEF IsTree, Places
    <3>2. PICK x \in Sides : tr.child[r][x] = m
      BY <3>1 DEF Links
    <3> HIDE DEF r
    <3>3. u.child[r][x] = m
      BY <1>1, <1>2, <2>4, <3>1, <3>2 DEF Rotated
    <3> QED
      BY <3>1, <3>3
  <2> QED
    BY <2>1, <2>2, <2>3, <2>4
<1>10. ASSUME NEW m \in Nodes, u.parent[m] # NULL PROVE Linked(u, u.parent[m])
  <2>1. CASE m = p
    BY <1>1, <1>2, <1>6, <1>7, <2>1 DEF Linked
  <2>2. CASE m = c
    <3>1. u.parent[m] = q /\ q \in Nodes
      BY <1>1, <1>2, <1>7, <1>10, <2>2
    <3>2. Linked(tr, q)
      BY <1>1, <1>2, <3>1 DEF Links
    <3> QED
      BY <1>8, <3>1, <3>2
  <2>3. CASE m # p /\ m # c /\ m = i
    <3>1. u.parent[m] = p /\ u.parent[p] = c
      BY <1>1, <1>2, <1>7, <2>3
    <3> QED
      BY <1>1, <3>1 DEF Linked
  <2>4. CASE m # p /\ m # c /\ m # i
    <3>1. u.parent[m] = tr.parent[m] /\ tr.parent[m] \in Nodes
      BY <1>7, <1>10, <2>4 DEF IsTree, Places
    <3>2. Linked(tr, tr.parent[m])
      BY <1>10, <3>1 DEF Links
    <3> QED
      BY <1>8, <3>1, <3>2
  <2> QED
    BY <2>1, <2>2, <2>3, <2>4
<1>11. u.root # NULL => u.parent[u.root] = NULL
  <2>1. CASE q = NULL
    BY <1>1, <1>2, <1>6, <1>7, <2>1
  <2>2. CASE q # NULL /\ tr.root # NULL
    <3>1. tr.parent[tr.root] = NULL /\ tr.root \in Nodes
      BY <2>2 DEF Links, IsTree, Places
    <3> QED
      BY <1>1, <1>2, <1>3, <1>6, <1>7, <2>2, <3>1
  <2> QED
    BY <1>6, <2>1, <2>2
<1> QED
  BY <1>5, <1>8, <1>9, <1>10, <1>11 DEF Links

-----------------------------------------------------------------------------
(* What the pointer assignments do, node by node, from tr to u. *)

ChildSet(tr, u, n, s, c) ==
    /\ IsTree(u)
    /\ \A m \in Nodes, x \in Sides :
          u.child[m][x] = IF m = n /\ x = s THEN c ELSE tr.child[m][x]
    /\ u.parent = tr.parent /\ u.colour = tr.colour /\ u.root = tr.root

ParentColourSet(tr, u, n, p, c) ==
    /\ IsTree(u)
    /\ u.child = tr.child /\ u.root = tr.root
    /\ \A m \in Nodes : /\ u.parent[m] = IF m = n THEN p ELSE tr.parent[m]
                        /\ u.colour[m] = IF m = n THEN c ELSE tr.colour[m]

ParentSet(tr, u, n, p) ==
    /\ IsTree(u)
    /\ u.child = tr.child /\ u.root = tr.root /\ u.colour = tr.colour
    /\ \A m \in Nodes : u.parent[m] = IF m = n THEN p ELSE tr.parent[m]

ChildChanged(tr, u, old, new, p) ==
    /\ IsTree(u)
    /\ \A m \in Nodes, x \in Sides :
          u.child[m][x] = IF m = p /\ tr.child[m][x] = old THEN new ELSE tr.child[m][x]
    /\ u.parent = tr.parent /\ u.colour = tr.colour
    /\ u.root = IF p = NULL THEN new ELSE tr.root

Lifted(tr, u, p, s, c) ==
    /\ IsTree(u)
    /\ \A m \in Nodes, x \in Sides :
          u.child[m][x] = IF m = p /\ x = s THEN tr.child[c][Opp(s)]
                          ELSE IF m = c /\ x = Opp(s) THEN p ELSE tr.child[m][x]
    /\ u.parent = tr.parent /\ u.colour = tr.colour /\ u.root = tr.root

ParentsTurned(tr, u, old, new, q, colour) ==
    /\ IsTree(u)
    /\ \A m \in Nodes, x \in Sides :
          u.child[m][x] = IF m = q /\ tr.child[m][x] = old THEN new ELSE tr.child[m][x]
    /\ \A m \in Nodes :
          /\ u.parent[m] = IF m = old THEN new ELSE IF m = new THEN q ELSE tr.parent[m]
          /\ u.colour[m] = IF m = old THEN colour
                           ELSE IF m = new THEN tr.colour[old] ELSE tr.colour[m]
    /\ u.root = IF q = NULL THEN new ELSE tr.root

\* old hangs on p, if p is a node, on one side only.
HangsOn(tr, old, p) ==
    p # NULL => \E x \in Sides : tr.child[p][x] = old /\ tr.child[p][Opp(x)] # old

\* What each of the pointer assignments changes: a child,
LEMMA SetChildFacts ==
    ASSUME NEW tr, IsTree(tr), NEW n \in Nodes, NEW s \in Sides, NEW c \in Places
    PROVE  ChildSet(tr, SetChild(tr, n, s, c), n, s, c)
  BY DEF SetChild, IsTree, ChildSet

\* the parent and the colour of a node that may be missing,
LEMMA SetParentColourFacts ==
    ASSUME NEW tr, IsTree(tr), NEW n \in Places, NEW p \in Places, NEW c \in {Red, Black}
    PROVE  ParentColourSet(tr, SetParentColour(tr, n, p, c), n, p, c)
<1>1. NULL \notin Nodes
  BY RbTreeAssumption
<1>2. CASE n = NULL
  BY <1>1, <1>2 DEF SetParentColour, ParentColourSet
<1>3. CASE n # NULL
  BY <1>3 DEF SetParentColour, IsTree, Places, ParentColourSet
<1> QED
  BY <1>2, <1>3

\* its parent alone,
LEMMA SetParentFacts ==
    ASSUME NEW tr, IsTree(tr), NEW n \in Places, NEW p \in Places
    PROVE  ParentSet(tr, SetParent(tr, n, p), n, p)
<1>1. NULL \notin Nodes
  BY RbTreeAssumption
<1>2. CASE n = NULL
  BY <1>1, <1>2 DEF SetParent, ParentSet
<1>3. CASE n # NULL
  BY <1>3 DEF SetParent, IsTree, Places, ParentSet
<1> QED
  BY <1>2, <1>3

\* the pointer to a node from above, which may be the root,
LEMMA ChangeChildFacts ==
    ASSUME NEW tr, IsTree(tr), NEW old, NEW new \in Places, NEW p \in Places,
           HangsOn(tr, old, p)
    PROVE  ChildChanged(tr, ChangeChild(tr, old, new, p), old, new, p)
<1>1. NULL \notin Nodes
  BY RbTreeAssumption
<1>2. CASE p = NULL
  BY <1>1, <1>2 DEF ChangeChild, IsTree, ChildChanged
<1>3. CASE p # NULL
  <2> DEFINE s == IF tr.child[p]["left"] = old THEN "left" ELSE "right"
  <2>1. p \in Nodes /\ s \in Sides
    BY <1>3 DEF Places, Sides
  <2>2. tr.child[p][s] = old /\ \A x \in Sides : tr.child[p][x] = old => x = s
    BY <1>3 DEF HangsOn, Sides, Opp
  <2>3. ChangeChild(tr, old, new, p) = SetChild(tr, p, s, new)
    BY <1>3 DEF ChangeChild
  <2> HIDE DEF s
  <2>4. PICK u : u = SetChild(tr, p, s, new)
    OBVIOUS
  <2>5. ChildSet(tr, u, p, s, new)
    BY <2>1, <2>4, SetChildFacts
  <2>6. ChildChanged(tr, u, old, new, p)
    BY <1>3, <2>1, <2>2, <2>5 DEF ChildSet, ChildChanged
  <2> QED
    BY <2>3, <2>4, <2>6
<1> QED
  BY <1>2, <1>3

\* the child pointers of a rotation,
LEMMA LiftFacts ==
    ASSUME NEW tr, IsTree(tr), NEW p \in Nodes, NEW s \in Sides, NEW c \in Nodes, p # c
    PROVE  Lifted(tr, Lift(tr, p, s, c), p, s, c)
<1>1. PICK i : i = tr.child[c][Opp(s)]
  OBVIOUS
<1>2. PICK a : a = SetChild(tr, p, s, i)
  OBVIOUS
<1>3. PICK u : u = SetChild(a, c, Opp(s), p)
  OBVIOUS
<1>4. Opp(s) \in Sides /\ i \in Places /\ p \in Places
  BY <1>1, OppFacts DEF IsTree, Places
<1>5. ChildSet(tr, a, p, s, i)
  BY <1>2, <1>4, SetChildFacts
<1>6. IsTree(a)
  BY <1>5 DEF ChildSet
<1>7. ChildSet(a, u, c, Opp(s), p)
  BY <1>3, <1>4, <1>6, SetChildFacts
<1>8. Lifted(tr, u, p, s, c)
  BY <1>1, <1>5, <1>7 DEF ChildSet, Lifted
<1>9. Lift(tr, p, s, c) = u
  BY <1>1, <1>2, <1>3 DEF Lift
<1> QED
  BY <1>8, <1>9

\* and its pointers upwards.
LEMMA RotateSetParentsFacts ==
    ASSUME NEW tr, IsTree(tr), NEW old \in Nodes, NEW new \in Nodes, old # new,
           NEW colour \in {Red, Black}, HangsOn(tr, old, tr.parent[old])
    PROVE  ParentsTurned(tr, RotateSetParents(tr, old, new, colour), old, new,
                         tr.parent[old], colour)
<1>0. PICK q : q = tr.parent[old]
  OBVIOUS
<1>1. PICK a : a = SetParentColour(tr, new, q, tr.colour[old])
  OBVIOUS
<1>2. PICK b : b = SetParentColour(a, old, new, colour)
  OBVIOUS
<1>3. PICK u : u = ChangeChild(b, old, new, q)
  OBVIOUS
<1>4. q \in Places /\ tr.colour[old] \in {Red, Black} /\ new \in Places /\ old \in Places
  BY <1>0 DEF IsTree, Places
<1>5. ParentColourSet(tr, a, new, q, tr.colour[old])
  BY <1>1, <1>4, SetParentColourFacts
<1>6. IsTree(a)
  BY <1>5 DEF ParentColourSet
<1>7. ParentColourSet(a, b, old, new, colour)
  BY <1>2, <1>4, <1>6, SetParentColourFacts
<1>8. IsTree(b) /\ HangsOn(b, old, q)
  BY <1>0, <1>5, <1>7 DEF ParentColourSet, HangsOn
<1>9. ChildChanged(b, u, old, new, q)
  BY <1>3, <1>4, <1>8, ChangeChildFacts
<1>10. RotateSetParents(tr, old, new, colour) = u
  BY <1>0, <1>1, <1>2, <1>3 DEF RotateSetParents
<1>11. ParentsTurned(tr, u, old, new, q, colour)
  BY <1>5, <1>7, <1>9 DEF ParentColourSet, ChildChanged, ParentsTurned
<1> QED
  BY <1>0, <1>10, <1>11

\* The child pointers between p and c and the pointers to c's inner child are set;
\* c's parent may be stale.
Prepared(tr, w, p, s, c, i) ==
    /\ IsTree(w) /\ w.root = tr.root
    /\ \A m \in Nodes, x \in Sides :
          w.child[m][x] = IF m = p /\ x = s THEN i
                          ELSE IF m = c /\ x = Opp(s) THEN p ELSE tr.child[m][x]
    /\ \A m \in Nodes \ {c} : w.parent[m] = IF m = i THEN p ELSE tr.parent[m]

Turned(tr, w, u, p, s, c, q, i, colour) ==
    /\ IsTree(u) /\ Rotated(tr, u, p, s, c, q, i)
    /\ \A m \in Nodes : u.colour[m] = IF m = p THEN colour
                                      ELSE IF m = c THEN w.colour[p] ELSE w.colour[m]

\* RotateSetParents completes a rotation.
LEMMA TurnFacts ==
    ASSUME NEW tr, NEW w, NEW p, NEW s, NEW c, NEW q, NEW i, NEW colour \in {Red, Black},
           IsTree(tr), Links(tr), Around(tr, p, s, c, q, i), Prepared(tr, w, p, s, c, i)
    PROVE  Turned(tr, w, RotateSetParents(w, p, c, colour), p, s, c, q, i, colour)
<1>1. PICK u : u = RotateSetParents(w, p, c, colour)
  OBVIOUS
<1>2. /\ p \in Nodes /\ c \in Nodes /\ s \in Sides /\ q \in Places /\ i \in Places
      /\ tr.child[p][s] = c /\ tr.parent[p] = q /\ tr.child[c][Opp(s)] = i
      /\ p # c /\ q # c /\ q # p /\ i # p /\ i # c /\ (i # q \/ i = NULL)
  BY DEF Around
<1>3. w.parent[p] = q /\ IsTree(w)
  BY <1>2 DEF Prepared
<1>4. HangsOn(w, p, q)
  <2> SUFFICES ASSUME q # NULL
               PROVE  \E x \in Sides : w.child[q][x] = p /\ w.child[q][Opp(x)] # p
    BY DEF HangsOn
  <2>1. q \in Nodes
    BY <1>2 DEF Places
  <2>2. PICK x \in Sides : tr.child[q][x] = p
    BY <1>2 DEF Links
  <2>3. tr.child[q][Opp(x)] # p /\ Opp(x) \in Sides
    BY <1>2, <2>1, <2>2, OppFacts, RbTreeAssumption DEF Links
  <2> QED
    BY <1>2, <2>1, <2>2, <2>3 DEF Prepared
<1>5. ParentsTurned(w, u, p, c, q, colour)
  BY <1>1, <1>2, <1>3, <1>4, RotateSetParentsFacts
<1>6. Opp(s) # s /\ Opp(s) \in Sides
  BY <1>2, OppFacts
<1>7. \A m \in Nodes, x \in Sides :
          u.child[m][x] = IF m = p THEN IF x = s THEN i ELSE tr.child[m][x]
                          ELSE IF m = c THEN IF x = Opp(s) THEN p ELSE tr.child[m][x]
                          ELSE IF m = q /\ tr.child[m][x] = p THEN c ELSE tr.child[m][x]
  BY <1>2, <1>5, <1>6 DEF ParentsTurned, Prepared
<1>8. \A m \in Nodes : u.parent[m] = IF m = p THEN c ELSE IF m = c THEN q
                                     ELSE IF m = i THEN p ELSE tr.parent[m]
  BY <1>2, <1>5 DEF ParentsTurned, Prepared
<1>9. Rotated(tr, u, p, s, c, q, i)
  BY <1>5, <1>7, <1>8 DEF Rotated, ParentsTurned, Prepared
<1> QED
  BY <1>1, <1>5, <1>9 DEF ParentsTurned, Turned

\* A rotation without colours, as a first half of two.
LEMMA RotationExists ==
    ASSUME NEW tr, IsTree(tr), NEW p, NEW s, NEW c, NEW q, NEW i, Around(tr, p, s, c, q, i)
    PROVE  \E v : IsTree(v) /\ Rotated(tr, v, p, s, c, q, i)
<1> DEFINE ch == [m \in Nodes |-> [x \in Sides |->
                    IF m = p THEN IF x = s THEN i ELSE tr.child[m][x]
                    ELSE IF m = c THEN IF x = Opp(s) THEN p ELSE tr.child[m][x]
                    ELSE IF m = q /\ tr.child[m][x] = p THEN c ELSE tr.child[m][x]]]
           pa == [m \in Nodes |-> IF m = p THEN c ELSE IF m = c THEN q ELSE IF m = i THEN p
                                  ELSE tr.parent[m]]
           ro == IF q = NULL THEN c ELSE tr.root
           v == [root |-> ro, leftmost |-> tr.leftmost, child |-> ch, parent |-> pa,
                 colour |-> tr.colour]
<1>1. ch \in [Nodes -> [Sides -> Places]] /\ pa \in [Nodes -> Places] /\ ro \in Places
  BY DEF IsTree, Around, Places
<1>2. Rotated(tr, v, p, s, c, q, i)
  BY DEF Rotated
<1>3. IsTree(v)
  <2> HIDE DEF ch, pa, ro
  <2> QED
    BY <1>1 DEF IsTree
<1> HIDE DEF v
<1> QED
  BY <1>2, <1>3

\* Two rotations: n, the inner child of g's child p, goes up to the place of g. Its
\* children j and k go to p and g.
InnerPlaces(tr, n, p, g, s, q, j, k) ==
    /\ g \in Nodes /\ p \in Nodes /\ n \in Nodes /\ s \in Sides
    /\ q \in Places /\ j \in Places /\ k \in Places
    /\ tr.child[g][s] = p /\ tr.child[p][Opp(s)] = n
    /\ tr.parent[g] = q /\ tr.parent[p] = g /\ tr.parent[n] = p
    /\ tr.child[n][s] = j /\ tr.child[n][Opp(s)] = k
    /\ (j # NULL => tr.parent[j] = n /\ j # k) /\ (k # NULL => tr.parent[k] = n)
    /\ tr.child[g][Opp(s)] # p
    /\ g # p /\ n # p /\ n # g /\ q # g /\ q # p /\ q # n
    /\ j # n /\ j # p /\ j # g /\ (j # NULL => j # q)
    /\ k # n /\ k # p /\ k # g /\ (k # NULL => k # q)

\* The nodes around an inner grandchild are distinct.
LEMMA InnerPlacesFacts ==
    ASSUME NEW tr, IsTree(tr), Links(tr), Acyclic(tr),
           NEW g \in Nodes, NEW s \in Sides, NEW p \in Nodes, NEW n \in Nodes,
           tr.child[g][s] = p, tr.child[p][Opp(s)] = n
    PROVE  InnerPlaces(tr, n, p, g, s, tr.parent[g], tr.child[n][s], tr.child[n][Opp(s)])
<1>0. PICK q, j, k : q = tr.parent[g] /\ j = tr.child[n][s] /\ k = tr.child[n][Opp(s)]
  OBVIOUS
<1>1. /\ NULL \notin Nodes /\ q \in Places /\ j \in Places /\ k \in Places
      /\ Opp(s) \in Sides /\ Opp(s) # s /\ Opp(Opp(s)) = s
  BY <1>0, OppFacts, RbTreeAssumption DEF IsTree
<1>2. /\ tr.parent[p] = g /\ tr.parent[n] = p /\ tr.child[g][Opp(s)] # p
      /\ (j # NULL => tr.parent[j] = n /\ j # k) /\ (k # NULL => tr.parent[k] = n)
  BY <1>0, <1>1 DEF Links
<1>3. PICK rank : Ranked(tr, rank)
  BY DEF Acyclic
<1>4. /\ rank[n] < rank[p] /\ rank[p] < rank[g] /\ rank[n] \in Nat /\ rank[p] \in Nat
      /\ rank[g] \in Nat
  BY <1>1, <1>2, <1>3 DEF Ranked
<1>5. q # NULL => q \in Nodes /\ rank[g] < rank[q] /\ rank[q] \in Nat
  BY <1>0, <1>1, <1>3 DEF Ranked, Places
<1>6. /\ j # NULL => j \in Nodes /\ rank[j] < rank[n] /\ rank[j] \in Nat
      /\ k # NULL => k \in Nodes /\ rank[k] < rank[n] /\ rank[k] \in Nat
  BY <1>1, <1>2, <1>3 DEF Ranked, Places
<1>7. /\ g # p /\ n # p /\ n # g /\ q # g /\ q # p /\ q # n
      /\ j # n /\ j # p /\ j # g /\ (j # NULL => j # q)
      /\ k # n /\ k # p /\ k # g /\ (k # NULL => k # q)
  BY <1>1, <1>4, <1>5, <1>6
<1>8. InnerPlaces(tr, n, p, g, s, q, j, k)
  BY <1>0, <1>1, <1>2, <1>7 DEF InnerPlaces
<1> QED
  BY <1>0, <1>8

\* All but the pointers from and to q, and n's own parent, are set.
InnerPrepared(tr, w, n, p, g, s, j, k) ==
    /\ IsTree(w) /\ w.root = tr.root
    /\ \A m \in Nodes, x \in Sides :
          w.child[m][x] = IF m = g /\ x = s THEN k
                          ELSE IF m = n THEN IF x = s THEN p ELSE g
                          ELSE IF m = p /\ x = Opp(s) THEN j ELSE tr.child[m][x]
    /\ \A m \in Nodes \ {n} : w.parent[m] = IF m = k THEN g ELSE IF m = p THEN n
                                            ELSE IF m = j THEN p ELSE tr.parent[m]

InnerUp(tr, u, n, p, g, s, q, j, k) ==
    /\ IsTree(u) /\ Links(u) /\ u.root = (IF q = NULL THEN n ELSE tr.root)
    /\ \A m \in Nodes, x \in Sides :
          u.child[m][x] = IF m = g THEN IF x = s THEN k ELSE tr.child[m][x]
                          ELSE IF m = n THEN IF x = s THEN p ELSE g
                          ELSE IF m = p THEN IF x = Opp(s) THEN j ELSE tr.child[m][x]
                          ELSE IF m = q /\ tr.child[m][x] = g THEN n
                          ELSE tr.child[m][x]

Recoloured(w, u, n, g, colour) ==
    \A m \in Nodes : u.colour[m] = IF m = g THEN colour ELSE IF m = n THEN w.colour[g]
                                   ELSE w.colour[m]

\* RotateSetParents completes the two rotations and keeps the links.
LEMMA InnerTurnFacts ==
    ASSUME NEW tr, NEW w, NEW n, NEW p, NEW g, NEW s, NEW q, NEW j, NEW k,
           NEW colour \in {Red, Black}, IsTree(tr), Links(tr), Linked(tr, g), Linked(tr, p),
           InnerPlaces(tr, n, p, g, s, q, j, k), InnerPrepared(tr, w, n, p, g, s, j, k)
    PROVE  /\ InnerUp(tr, RotateSetParents(w, g, n, colour), n, p, g, s, q, j, k)
           /\ Recoloured(w, RotateSetParents(w, g, n, colour), n, g, colour)
<1>0. PICK u : u = RotateSetParents(w, g, n, colour)
  OBVIOUS
<1>1. /\ g \in Nodes /\ p \in Nodes /\ s \in Sides /\ n \in Nodes /\ NULL \notin Nodes
      /\ q \in Places /\ j \in Places /\ k \in Places /\ p \in Places /\ n \in Places /\ g \in Places
      /\ Opp(s) \in Sides /\ Opp(s) # s /\ Opp(Opp(s)) = s
      /\ \A x \in Sides : x = s \/ x = Opp(s)
      /\ tr.child[g][s] = p /\ tr.parent[p] = g /\ tr.parent[n] = p /\ tr.child[p][Opp(s)] = n
      /\ tr.parent[g] = q /\ tr.child[n][s] = j /\ tr.child[n][Opp(s)] = k
  BY OppFacts, RbTreeAssumption DEF InnerPlaces, Places
<1>2. (j # NULL => tr.parent[j] = n /\ j # k) /\ (k # NULL => tr.parent[k] = n)
      /\ tr.child[g][Opp(s)] # p
  BY DEF InnerPlaces
<1>3. /\ g # p /\ n # p /\ n # g /\ q # g /\ q # p /\ q # n
      /\ j # n /\ j # p /\ j # g /\ (j # NULL => j # q)
      /\ k # n /\ k # p /\ k # g /\ (k # NULL => k # q)
  BY DEF InnerPlaces
<1>4. Around(tr, p, Opp(s), n, g, j)
  BY <1>1, <1>3 DEF Around
<1>5. PICK v : IsTree(v) /\ Rotated(tr, v, p, Opp(s), n, g, j)
  BY <1>1, <1>4, RotationExists
<1>6. Links(v) /\ Linked(v, g)
  BY <1>1, <1>4, <1>5, RotatedLinks
<1>7. \A m \in Nodes, x \in Sides :
          v.child[m][x] = IF m = p THEN IF x = Opp(s) THEN j ELSE tr.child[m][x]
                          ELSE IF m = n THEN IF x = s THEN p ELSE tr.child[m][x]
                          ELSE IF m = g /\ tr.child[m][x] = p THEN n ELSE tr.child[m][x]
  BY <1>1, <1>5 DEF Rotated
<1>8. \A m \in Nodes : v.parent[m] = IF m = p THEN n ELSE IF m = n THEN g
                                     ELSE IF m = j THEN p ELSE tr.parent[m]
  BY <1>5 DEF Rotated
<1>9. v.root = tr.root
  BY <1>1, <1>5 DEF Rotated
<1>10. Around(v, g, s, n, q, k)
  BY <1>1, <1>3, <1>7, <1>8 DEF Around
<1>11. ASSUME NEW m \in Nodes, NEW x \in Sides
       PROVE  w.child[m][x] = IF m = g /\ x = s THEN k
                              ELSE IF m = n /\ x = Opp(s) THEN g ELSE v.child[m][x]
  <2>1. m = g /\ x # s => tr.child[m][x] # p
    BY <1>1, <1>2
  <2>2. w.child[m][x] = IF m = g /\ x = s THEN k
                        ELSE IF m = n THEN IF x = s THEN p ELSE g
                        ELSE IF m = p /\ x = Opp(s) THEN j ELSE tr.child[m][x]
    BY DEF InnerPrepared
  <2> QED
    BY <1>1, <1>3, <1>7, <2>1, <2>2
<1>12. \A m \in Nodes \ {n} : w.parent[m] = IF m = k THEN g ELSE v.parent[m]
  BY <1>1, <1>3, <1>8 DEF InnerPrepared
<1>13. Prepared(v, w, g, s, n, k)
  BY <1>9, <1>11, <1>12 DEF Prepared, InnerPrepared
<1>14. Turned(v, w, u, g, s, n, q, k, colour)
  BY <1>0, <1>5, <1>6, <1>10, <1>13, TurnFacts
<1>15. IsTree(u) /\ Rotated(v, u, g, s, n, q, k)
  BY <1>14 DEF Turned
<1>16. Links(u)
  BY <1>5, <1>6, <1>10, <1>15, RotatedLinks
<1>17. \A m \in Nodes, x \in Sides :
          u.child[m][x] = IF m = g THEN IF x = s THEN k ELSE v.child[m][x]
                          ELSE IF m = n THEN IF x = Opp(s) THEN g ELSE v.child[m][x]
                          ELSE IF m = q /\ v.child[m][x] = g THEN n ELSE v.child[m][x]
  BY <1>15 DEF Rotated
<1>18. ASSUME NEW m \in Nodes, NEW x \in Sides
       PROVE  u.child[m][x] = IF m = g THEN IF x = s THEN k ELSE tr.child[m][x]
                              ELSE IF m = n THEN IF x = s THEN p ELSE g
                              ELSE IF m = p THEN IF x = Opp(s) THEN j ELSE tr.child[m][x]
                              ELSE IF m = q /\ tr.child[m][x] = g THEN n
                              ELSE tr.child[m][x]
  <2>1. m = g /\ x # s => tr.child[m][x] # p
    BY <1>1, <1>2
  <2>2. x = s \/ x = Opp(s)
    BY <1>1
  <2> QED
    BY <1>1, <1>3, <1>7, <1>17, <2>1, <2>2
<1>19. u.root = IF q = NULL THEN n ELSE tr.root
  BY <1>9, <1>15 DEF Rotated
<1>20. InnerUp(tr, u, n, p, g, s, q, j, k)
  BY <1>15, <1>16, <1>18, <1>19 DEF InnerUp
<1>21. Recoloured(w, u, n, g, colour)
  BY <1>14 DEF Turned, Recoloured
<1> QED
  BY <1>0, <1>20, <1>21

-----------------------------------------------------------------------------
(* The loop of hev_rbtree_insert_color. *)

\* The node and its parent p are red, so there is a black grandparent g.
Conflict(p, g, s) ==
    /\ p \in Nodes /\ g \in Nodes /\ s \in Sides /\ node \in Nodes
    /\ t.parent[node] = p /\ t.parent[p] = g /\ t.child[g][s] = p
    /\ t.colour[node] = Red /\ t.colour[p] = Red /\ t.colour[g] = Black
    /\ Linked(t, g) /\ Linked(t, p) /\ IsTree(t) /\ Links(t) /\ Acyclic(t)
    /\ ~IsRed(t, t.root)

\* What the loop of the insertion finds when the parent is red.
LEMMA ConflictFacts ==
    ASSUME op = "insert", TreeInv, IsRed(t, parent)
    PROVE  Conflict(parent, Grandparent, ParentSide)
<1>1. PICK h : Shape(t, h, node, NULL, "left")
  BY DEF TreeInv, Inserting
<1>2. NULL \notin Nodes /\ IsTree(t) /\ Links(t)
  BY <1>1, RbTreeAssumption DEF Shape
<1>3. /\ node \in Nodes /\ IsRed(t, node) /\ parent = t.parent[node] /\ node # parent
      /\ t.root = node \/ ~IsRed(t, t.root)
  BY <1>1, <1>2 DEF TreeInv, Inserting, Shape
<1>4. parent \in Nodes /\ t.colour[parent] = Red /\ t.colour[node] = Red
  BY <1>2, <1>3 DEF IsRed, IsTree, Places
<1>5. Linked(t, parent) /\ t.root # node /\ ~IsRed(t, t.root)
  <2>1. t.parent[node] # NULL
    BY <1>2, <1>3, <1>4
  <2> QED
    BY <1>2, <1>3, <2>1 DEF Links
<1> DEFINE g == t.parent[parent]
<1>6. g # NULL /\ g \in Nodes
  BY <1>2, <1>4, <1>5 DEF Linked, IsRed, IsTree, Places
<1>7. PICK x \in Sides : t.child[g][x] = parent
  BY <1>4, <1>6, <1>2 DEF Links
<1>8. t.child[g][Opp(x)] # parent
  BY <1>2, <1>4, <1>6, <1>7 DEF Links
<1>9. ParentSide = x
  BY <1>7, <1>8 DEF ParentSide, Grandparent, Sides, Opp
<1>10. t.colour[g] = Black
  <2>1. Fine(t, h, node, NULL, "left", g, x)
    BY <1>1, <1>6 DEF Shape
  <2> QED
    BY <1>2, <1>3, <1>4, <1>6, <1>7, <2>1 DEF Fine, IsRed, IsTree
<1>11. Linked(t, g)
  BY <1>2, <1>4, <1>6 DEF Links
<1>12. Acyclic(t)
  BY <1>1, <1>3, ShapeAcyclic
<1> QED
  BY <1>2, <1>3, <1>4, <1>5, <1>6, <1>7, <1>9, <1>10, <1>11, <1>12 DEF Conflict, Grandparent

\* The heights around a red node with a red child.
Measured(p, g, s, h) ==
    /\ h[p] \in Nat /\ h[g] = h[p] + 1 /\ h[node] = h[p]
    /\ Tall(h, t.child[g][Opp(s)]) = h[p]
    /\ \A x \in Sides : Tall(h, t.child[p][x]) = h[p] /\ Tall(h, t.child[node][x]) = h[p]
    /\ \A x \in Sides : ~IsRed(t, t.child[node][x])
    /\ \A x \in Sides : t.child[p][x] # node => ~IsRed(t, t.child[p][x])

\* The heights around it.
LEMMA ConflictHeights ==
    ASSUME NEW p, NEW g, NEW s, NEW h, Conflict(p, g, s), Shape(t, h, node, NULL, "left")
    PROVE  Measured(p, g, s, h)
<1>1. /\ p \in Nodes /\ g \in Nodes /\ s \in Sides /\ node \in Nodes /\ Opp(s) \in Sides
      /\ t.child[g][s] = p /\ t.parent[node] = p /\ NULL \notin Nodes
      /\ t.colour[node] = Red /\ t.colour[p] = Red /\ t.colour[g] = Black
      /\ h \in [Nodes -> Nat]
  BY OppFacts, RbTreeAssumption DEF Conflict, Shape, Heights
<1>2. Bl(t, g) = 1 /\ Bl(t, p) = 0 /\ Bl(t, node) = 0
  BY <1>1, OppFacts DEF Bl
<1>3. \A m \in Nodes, x \in Sides : h[m] = Bl(t, m) + Tall(h, t.child[m][x])
  <2> SUFFICES ASSUME NEW m \in Nodes, NEW x \in Sides
               PROVE  h[m] = Bl(t, m) + Tall(h, t.child[m][x])
    OBVIOUS
  <2>1. h[m] = (Bl(t, m) + Tall(h, t.child[m][x])) + 0
    BY <1>1 DEF Shape, Fine
  <2>2. Bl(t, m) \in Nat /\ Tall(h, t.child[m][x]) \in Nat
    BY <1>1 DEF Bl, Tall, Shape, IsTree, Places
  <2> QED
    BY <2>1, <2>2
<1>4. \A m \in Nodes, x \in Sides : Tall(h, t.child[m][x]) \in Nat
  BY <1>1 DEF Bl, Tall, Shape, IsTree, Places
<1>5. h[p] \in Nat /\ h[node] \in Nat /\ Tall(h, p) = h[p] /\ Tall(h, node) = h[node]
  BY <1>1 DEF Tall
<1>6. \E x \in Sides : t.child[p][x] = node
  BY <1>1 DEF Shape, Links
<1>7. /\ h[g] = 1 + h[p] /\ h[g] = 1 + Tall(h, t.child[g][Opp(s)])
      /\ \A x \in Sides : /\ h[p] = 0 + Tall(h, t.child[p][x])
                          /\ h[node] = 0 + Tall(h, t.child[node][x])
  BY <1>1, <1>2, <1>3, <1>5
<1>8. \A x \in Sides : h[p] = Tall(h, t.child[p][x]) /\ h[node] = Tall(h, t.child[node][x])
  BY <1>1, <1>4, <1>7
<1>9. h[node] = h[p]
  BY <1>5, <1>6, <1>8
<1>10. \A x \in Sides : t.child[node][x] # node
  BY <1>1 DEF Shape, Links
<1>11. \A m \in Nodes, x \in Sides :
          t.colour[m] = Red /\ t.child[m][x] # node => ~IsRed(t, t.child[m][x])
  BY <1>1 DEF Shape, Fine, IsRed
<1> QED
  BY <1>1, <1>4, <1>5, <1>7, <1>8, <1>9, <1>10, <1>11 DEF Measured

\* A change of colours keeps the links.
LEMMA SameLinks ==
    ASSUME NEW tr, NEW u, Links(tr), u.child = tr.child, u.parent = tr.parent, u.root = tr.root
    PROVE  Links(u) /\ \A m : Linked(tr, m) => Linked(u, m)
  BY DEF Links, Linked

\* A new height for at most two nodes is bounded as well.
LEMMA NewHeights ==
    ASSUME NEW h, Heights(h), NEW a, NEW b, NEW v \in Nat, NEW w \in Nat
    PROVE  Heights([h EXCEPT ![a] = v, ![b] = w])
<1>1. PICK k \in Nat : \A n \in Nodes : h[n] <= k
  BY DEF Heights
<1> DEFINE g == [h EXCEPT ![a] = v, ![b] = w]
           j == (k + v) + w
<1>2. h \in [Nodes -> Nat]
  BY DEF Heights
<1>3. g \in [Nodes -> Nat] /\ \A n \in Nodes : g[n] = h[n] \/ g[n] = v \/ g[n] = w
  BY <1>2
<1>4. j \in Nat /\ k <= j /\ v <= j /\ w <= j
  BY <1>1
<1> HIDE DEF g, j
<1>5. \A n \in Nodes : g[n] <= j
  BY <1>1, <1>2, <1>3, <1>4
<1>6. Heights(g)
  BY <1>3, <1>4, <1>5 DEF Heights
<1> QED
  BY <1>6 DEF g

\* Case 1 of the insertion keeps the invariant, with the grandparent as the node.
LEMMA InsertFlipStep == TreeInv /\ InsertFlip => TreeInv'
<1> SUFFICES ASSUME TreeInv, InsertFlip PROVE TreeInv'
  OBVIOUS
<1> DEFINE p == parent
           g == Grandparent
           s == ParentSide
           c == Uncle
<1>1. Conflict(p, g, s)
  BY ConflictFacts DEF InsertFlip
<1>2. PICK h : Shape(t, h, node, NULL, "left")
  BY DEF TreeInv, Inserting, InsertFlip
<1>3. PICK a : a = SetParentColour(t, c, g, Black)
  OBVIOUS
<1>4. PICK b : b = SetParentColour(a, p, g, Black)
  OBVIOUS
<1>5. /\ t' = SetParentColour(b, g, t.parent[g], Red)
      /\ node' = g /\ parent' = t.parent[g] /\ op' = "insert"
      /\ IsRed(t, c)
  BY <1>3, <1>4 DEF InsertFlip
<1>6. c = t.child[g][Opp(s)]
  BY DEF Uncle
<1> HIDE DEF p, g, s, c
<1>7. /\ p \in Nodes /\ g \in Nodes /\ s \in Sides /\ node \in Nodes /\ Opp(s) \in Sides
      /\ t.parent[node] = p /\ t.parent[p] = g /\ t.child[g][s] = p /\ p # g
      /\ t.parent[g] \in Places /\ t.parent[g] # g
      /\ IsTree(t) /\ Links(t) /\ ~IsRed(t, t.root) /\ Linked(t, g) /\ NULL \notin Nodes
  <2>1. PICK rank : Ranked(t, rank)
    BY <1>1 DEF Conflict, Acyclic
  <2>2. p \in Nodes /\ g \in Nodes /\ t.parent[p] = g /\ t.parent[g] \in Places /\ NULL \notin Nodes
    BY <1>1, RbTreeAssumption DEF Conflict, IsTree
  <2>3. rank[p] < rank[g] /\ rank[p] \in Nat /\ (t.parent[g] # NULL => rank[g] < rank[t.parent[g]])
        /\ rank[g] \in Nat
    BY <2>1, <2>2 DEF Ranked
  <2>4. p # g /\ t.parent[g] # g
    BY <2>2, <2>3
  <2> QED
    BY <1>1, <2>2, <2>4, OppFacts DEF Conflict
<1>8. c \in Nodes /\ t.parent[c] = g /\ c # p /\ c # g
  <2>1. c \in Nodes
    BY <1>5, <1>6, <1>7 DEF IsRed, IsTree, Places
  <2>2. t.parent[c] = g /\ c # p
    BY <1>6, <1>7, <2>1 DEF Links
  <2> QED
    BY <1>7, <2>1, <2>2
<1>9. ParentColourSet(t, a, c, g, Black)
  BY <1>3, <1>7, <1>8, SetParentColourFacts DEF Places
<1>10. IsTree(a)
  BY <1>9 DEF ParentColourSet
<1>11. ParentColourSet(a, b, p, g, Black)
  BY <1>4, <1>7, <1>10, SetParentColourFacts DEF Places
<1>12. IsTree(b)
  BY <1>11 DEF ParentColourSet
<1>13. PICK u : u = t'
  OBVIOUS
<1>14. ParentColourSet(b, u, g, t.parent[g], Red)
  BY <1>5, <1>7, <1>12, <1>13, SetParentColourFacts DEF Places
<1>15. /\ IsTree(u) /\ u.child = t.child /\ u.root = t.root
       /\ \A m \in Nodes : u.parent[m] = t.parent[m]
       /\ \A m \in Nodes : u.colour[m] = IF m = g THEN Red ELSE IF m = p \/ m = c THEN Black
                                         ELSE t.colour[m]
  BY <1>7, <1>8, <1>9, <1>11, <1>14 DEF ParentColourSet
<1>16. u.parent = t.parent
  BY <1>7, <1>15 DEF IsTree
<1>17. Links(u) /\ Linked(u, g)
  BY <1>7, <1>15, <1>16, SameLinks
<1> DEFINE k == h[p] + 1
           f == [h EXCEPT ![p] = k, ![c] = k]
<1>18. /\ h[p] \in Nat /\ h[g] = h[p] + 1 /\ Tall(h, c) = h[p]
       /\ \A x \in Sides : Tall(h, t.child[p][x]) = h[p]
  <2>1. Measured(p, g, s, h)
    BY <1>1, <1>2, ConflictHeights
  <2> QED
    BY <1>6, <2>1 DEF Measured
<1>19. k \in Nat /\ Heights(h) /\ h \in [Nodes -> Nat]
  BY <1>2, <1>18 DEF Shape, Heights
<1>20. Heights(f)
  BY <1>19, NewHeights
<1>21. \A m \in Nodes : f[m] = IF m = p \/ m = c THEN k ELSE h[m]
  BY <1>19
<1> HIDE DEF k, f
<1>22. ASSUME NEW m \in Nodes, NEW x \in Sides PROVE Fine(u, f, g, NULL, "left", m, x)
  <2> DEFINE z == t.child[m][x]
  <2>1. z \in Places /\ (z # NULL => z \in Nodes /\ t.parent[z] = m) /\ u.child[m][x] = z
    BY <1>7, <1>15 DEF Links, IsTree, Places
  <2>2. Fine(t, h, node, NULL, "left", m, x) /\ m # NULL
    BY <1>2, <1>7 DEF Shape
  <2>3. h[m] = (Bl(t, m) + Tall(h, z)) + 0 /\ (IsRed(t, m) /\ z # node => ~IsRed(t, z))
    BY <2>2 DEF Fine
  <2>4. x = s \/ x = Opp(s)
    BY <1>7, OppFacts
  <2>5. SUFFICES /\ f[m] = (Bl(u, m) + Tall(f, z)) + 0
                 /\ IsRed(u, m) /\ z # g => ~IsRed(u, z)
    BY <2>1, <2>2 DEF Fine
  <2>6. CASE m = g
    <3>1. z = p \/ z = c
      BY <1>6, <1>7, <2>4, <2>6
    <3>2. Tall(f, z) = k /\ f[m] = h[g] /\ Bl(u, m) = 0 /\ ~IsRed(u, z)
      BY <1>7, <1>8, <1>15, <1>21, <2>6, <3>1, OppFacts DEF Tall, Bl, IsRed
    <3> QED
      BY <1>18, <1>19, <2>6, <3>2 DEF k
  <2>7. CASE m = p \/ m = c
    <3>1. z # p /\ z # c
      BY <1>7, <1>8, <2>1, <2>7
    <3>2. Tall(f, z) = Tall(h, z) /\ f[m] = k /\ Bl(u, m) = 1 /\ ~IsRed(u, m)
      BY <1>7, <1>8, <1>15, <1>21, <2>1, <2>7, <3>1, OppFacts DEF Tall, Bl, IsRed
    <3>3. Tall(h, z) = h[p]
      <4>1. CASE m = p
        BY <1>18, <4>1
      <4>2. CASE m = c
        <5>1. h[m] = h[p] /\ Bl(t, m) = 0
          BY <1>5, <1>8, <1>18, <1>7, <4>2, OppFacts DEF Tall, Bl, IsRed
        <5>2. Tall(h, z) \in Nat
          BY <1>19, <2>1 DEF Tall
        <5> QED
          BY <2>3, <5>1, <5>2, <1>18
      <4> QED
        BY <2>7, <4>1, <4>2
    <3> QED
      BY <1>18, <3>2, <3>3 DEF k
  <2>8. CASE m # g /\ m # p /\ m # c
    <3>1. z # p /\ z # c /\ z # node
      BY <1>7, <1>8, <2>1, <2>8
    <3>2. Tall(f, z) = Tall(h, z) /\ f[m] = h[m] /\ Bl(u, m) = Bl(t, m)
      BY <1>15, <1>21, <2>1, <2>8, <3>1 DEF Tall, Bl
    <3>3. IsRed(u, m) /\ z # g => ~IsRed(u, z)
      BY <1>15, <2>1, <2>3, <2>8, <3>1 DEF IsRed
    <3> QED
      BY <2>3, <3>2, <3>3
  <2> QED
    BY <2>6, <2>7, <2>8
<1>23. Shape(u, f, g, NULL, "left")
  BY <1>7, <1>15, <1>17, <1>20, <1>22 DEF Shape
<1>24. IsRed(u, g) /\ (u.root = g \/ ~IsRed(u, u.root)) /\ t.parent[g] = u.parent[g]
  BY <1>7, <1>8, <1>15, OppFacts DEF IsRed, IsTree, Places
<1>25. Inserting'
  BY <1>5, <1>7, <1>13, <1>17, <1>23, <1>24 DEF Inserting
<1> QED
  BY <1>5, <1>25 DEF TreeInv

\* A whole rotation: c takes the place and the colour of p, which gets a new one.
RotatedUp(tr, u, p, s, c, q, i, colour) ==
    /\ IsTree(u) /\ Links(u) /\ Rotated(tr, u, p, s, c, q, i)
    /\ \A m \in Nodes : Linked(tr, m) => Linked(u, m)
    /\ \A m \in Nodes : u.colour[m] = IF m = p THEN colour ELSE IF m = c THEN tr.colour[p]
                                      ELSE IF m = i THEN Black ELSE tr.colour[m]

\* A whole rotation as the code writes it.
LEMMA RotateUpFacts ==
    ASSUME NEW tr, NEW p, NEW s, NEW c, NEW q, NEW i, NEW colour \in {Red, Black},
           IsTree(tr), Links(tr), Linked(tr, p), Around(tr, p, s, c, q, i)
    PROVE  RotatedUp(tr, RotateSetParents(SetParentColour(Lift(tr, p, s, c), i, p, Black),
                                          p, c, colour), p, s, c, q, i, colour)
<1>1. PICK l : l = Lift(tr, p, s, c)
  OBVIOUS
<1>2. PICK w : w = SetParentColour(l, i, p, Black)
  OBVIOUS
<1>3. PICK u : u = RotateSetParents(w, p, c, colour)
  OBVIOUS
<1>4. /\ p \in Nodes /\ c \in Nodes /\ s \in Sides /\ q \in Places /\ i \in Places
      /\ p \in Places /\ tr.child[p][s] = c /\ tr.parent[p] = q /\ tr.child[c][Opp(s)] = i
      /\ p # c /\ q # c /\ q # p /\ i # p /\ i # c /\ (i # q \/ i = NULL)
  BY DEF Around, Places
<1>5. Lifted(tr, l, p, s, c)
  BY <1>1, <1>4, LiftFacts
<1>6. IsTree(l)
  BY <1>5 DEF Lifted
<1>7. ParentColourSet(l, w, i, p, Black)
  BY <1>2, <1>4, <1>6, SetParentColourFacts
<1>8. Prepared(tr, w, p, s, c, i)
  BY <1>4, <1>5, <1>7 DEF Prepared, Lifted, ParentColourSet
<1>9. Turned(tr, w, u, p, s, c, q, i, colour)
  BY <1>3, <1>8, TurnFacts
<1>10. IsTree(u) /\ Rotated(tr, u, p, s, c, q, i)
  BY <1>9 DEF Turned
<1>11. Links(u) /\ \A m \in Nodes : Linked(tr, m) => Linked(u, m)
  BY <1>10, RotatedLinks
<1>12. \A m \in Nodes : u.colour[m] = IF m = p THEN colour ELSE IF m = c THEN tr.colour[p]
                                      ELSE IF m = i THEN Black ELSE tr.colour[m]
  BY <1>4, <1>5, <1>7, <1>9 DEF Turned, Lifted, ParentColourSet
<1>13. RotatedUp(tr, u, p, s, c, q, i, colour)
  BY <1>10, <1>11, <1>12 DEF RotatedUp
<1> QED
  BY <1>1, <1>2, <1>3, <1>13

\* The grandparent, the parent and its inner child are the places of a rotation.
LEMMA ConflictAround ==
    ASSUME NEW p, NEW g, NEW s, Conflict(p, g, s)
    PROVE  Around(t, g, s, p, t.parent[g], t.child[p][Opp(s)])
  BY AroundFacts, RbTreeAssumption DEF Conflict

\* Case 3 of the insertion.
LEMMA OuterStep ==
    ASSUME NEW p, NEW g, NEW s, NEW h, NEW u,
           Conflict(p, g, s), Shape(t, h, node, NULL, "left"),
           ~IsRed(t, t.child[g][Opp(s)]), t.child[p][Opp(s)] # node,
           u = RotateSetParents(SetParentColour(Lift(t, g, s, p), t.child[p][Opp(s)], g, Black),
                                g, p, Red)
    PROVE  (\E f : Shape(u, f, NULL, NULL, "left")) /\ ~IsRed(u, u.root)
<1>0. PICK q, i : q = t.parent[g] /\ i = t.child[p][Opp(s)]
  OBVIOUS
<1>1. Around(t, g, s, p, q, i)
  BY <1>0, ConflictAround
<1>2. RotatedUp(t, u, g, s, p, q, i, Red)
  BY <1>0, <1>1, RotateUpFacts DEF Conflict
<1>3. Measured(p, g, s, h)
  BY ConflictHeights
<1>4. /\ g \in Nodes /\ p \in Nodes /\ s \in Sides /\ q \in Places /\ i \in Places
      /\ t.child[g][s] = p /\ t.parent[g] = q /\ t.parent[p] = g /\ t.parent[node] = p
      /\ g # p /\ q # p /\ q # g /\ i # g /\ i # p /\ i # node
      /\ t.colour[g] = Black /\ t.colour[p] = Red /\ ~IsRed(t, t.root)
      /\ NULL \notin Nodes /\ Opp(s) \in Sides /\ Opp(s) # s
      /\ IsTree(t) /\ Links(t) /\ i = t.child[p][Opp(s)] /\ node \in Nodes
  BY <1>0, <1>1, OppFacts, RbTreeAssumption DEF Around, Conflict
<1>5. ~IsRed(t, i)
  BY <1>3, <1>4 DEF Measured
<1>6. \A m \in Nodes : u.colour[m] = IF m = g THEN Red ELSE IF m = p THEN Black ELSE t.colour[m]
  BY <1>2, <1>4, <1>5 DEF RotatedUp, IsRed, IsTree
<1>7. \A m \in Nodes, x \in Sides :
          u.child[m][x] = IF m = g THEN IF x = s THEN i ELSE t.child[m][x]
                          ELSE IF m = p THEN IF x = Opp(s) THEN g ELSE t.child[m][x]
                          ELSE IF m = q /\ t.child[m][x] = g THEN p ELSE t.child[m][x]
  BY <1>2 DEF RotatedUp, Rotated
<1> DEFINE f == [h EXCEPT ![g] = h[p], ![p] = h[g]]
<1>8. /\ h \in [Nodes -> Nat] /\ Heights(h) /\ h[p] \in Nat /\ h[g] \in Nat
      /\ h[g] = h[p] + 1 /\ Tall(h, t.child[g][Opp(s)]) = h[p] /\ Tall(h, i) = h[p]
      /\ Tall(h, t.child[p][s]) = h[p]
  BY <1>3, <1>4 DEF Shape, Heights, Measured
<1>9. Heights(f)
  BY <1>8, NewHeights
<1>10. \A m \in Nodes : f[m] = IF m = g THEN h[p] ELSE IF m = p THEN h[g] ELSE h[m]
  BY <1>4, <1>8
<1> HIDE DEF f
<1>11. ASSUME NEW m \in Nodes, NEW x \in Sides PROVE Fine(u, f, NULL, NULL, "left", m, x)
  <2> DEFINE z == t.child[m][x]
             y == u.child[m][x]
  <2>1. z \in Places /\ (z # NULL => z \in Nodes /\ t.parent[z] = m)
    BY <1>4 DEF Links, IsTree, Places
  <2>2. Fine(t, h, node, NULL, "left", m, x) /\ m # NULL
    BY <1>4 DEF Shape
  <2>3. h[m] = (Bl(t, m) + Tall(h, z)) + 0 /\ (IsRed(t, m) /\ z # node => ~IsRed(t, z))
    BY <2>2 DEF Fine
  <2>4. x = s \/ x = Opp(s)
    BY <1>4, OppFacts
  <2>5. SUFFICES /\ f[m] = (Bl(u, m) + Tall(f, y)) + 0
                 /\ IsRed(u, m) => ~IsRed(u, y)
    BY <2>2 DEF Fine
  <2>6. y = IF m = g THEN IF x = s THEN i ELSE z
            ELSE IF m = p THEN IF x = Opp(s) THEN g ELSE z
            ELSE IF m = q /\ z = g THEN p ELSE z
    BY <1>7
  <2>7. CASE m = g
    <3>1. y = i \/ (y = t.child[g][Opp(s)] /\ y = z /\ x = Opp(s))
      BY <1>4, <2>4, <2>6, <2>7
    <3>2. y # g /\ y # p
      BY <1>4, <2>1, <2>7, <3>1, OppFacts DEF Links
    <3>3. y \in Places /\ Tall(h, y) = h[p] /\ ~IsRed(t, y)
      BY <1>4, <1>5, <1>8, <2>1, <3>1
    <3>4. Tall(f, y) = Tall(h, y) /\ f[m] = h[p] /\ Bl(u, m) = 0
      BY <1>4, <1>6, <1>10, <2>7, <3>2, <3>3, OppFacts DEF Tall, Bl, Places
    <3>5. ~IsRed(u, y)
      BY <1>6, <3>2, <3>3 DEF IsRed, Places
    <3> QED
      BY <1>8, <3>3, <3>4, <3>5
  <2>8. CASE m = p /\ x = Opp(s)
    <3>1. y = g /\ f[g] = h[p] /\ f[m] = h[g] /\ Tall(f, y) = f[y]
      BY <1>4, <1>10, <2>6, <2>8 DEF Tall
    <3>2. Bl(u, m) = 1 /\ ~IsRed(u, m)
      BY <1>4, <1>6, <2>8, OppFacts DEF Bl, IsRed
    <3> QED
      BY <1>8, <3>1, <3>2
  <2>9. CASE m = p /\ x = s
    <3>1. y = z /\ z = t.child[p][s] /\ z # p /\ z # g /\ f[m] = h[g]
      BY <1>4, <1>10, <2>1, <2>6, <2>9
    <3>2. Bl(u, m) = 1 /\ ~IsRed(u, m)
      BY <1>4, <1>6, <2>9, OppFacts DEF Bl, IsRed
    <3>3. Tall(f, y) = h[p]
      BY <1>8, <1>10, <2>1, <3>1 DEF Tall
    <3> QED
      BY <1>8, <3>1, <3>2, <3>3
  <2>10. CASE m # g /\ m # p
    <3>1. z # p /\ z # node /\ f[m] = h[m] /\ Bl(u, m) = Bl(t, m) /\ (IsRed(u, m) <=> IsRed(t, m))
      BY <1>4, <1>6, <1>10, <2>1, <2>10 DEF Bl, IsRed
    <3>2. z = g => m = q
      BY <1>4, <2>1
    <3>3. CASE z = g
      <4>1. y = p /\ Tall(f, y) = h[g] /\ Tall(h, z) = h[g] /\ ~IsRed(u, y)
        BY <1>4, <1>6, <1>10, <2>6, <2>10, <3>2, <3>3, OppFacts DEF Tall, IsRed
      <4> QED
        BY <2>3, <3>1, <4>1
    <3>4. CASE z # g
      <4>1. y = z /\ Tall(f, y) = Tall(h, z) /\ (IsRed(u, y) <=> IsRed(t, z))
        BY <1>6, <1>10, <2>1, <2>6, <2>10, <3>1, <3>4 DEF Tall, IsRed
      <4> QED
        BY <2>3, <3>1, <4>1
    <3> QED
      BY <3>3, <3>4
  <2> QED
    BY <2>4, <2>7, <2>8, <2>9, <2>10
<1>12. Shape(u, f, NULL, NULL, "left")
  BY <1>2, <1>9, <1>11 DEF Shape, RotatedUp
<1>13. ~IsRed(u, u.root)
  <2>1. u.root = IF q = NULL THEN p ELSE t.root
    BY <1>2 DEF RotatedUp, Rotated
  <2>2. t.root # NULL => t.root \in Nodes /\ t.parent[t.root] = NULL
    BY <1>4 DEF Links, IsTree, Places
  <2> QED
    BY <1>4, <1>6, <2>1, <2>2, OppFacts DEF IsRed
<1> QED
  BY <1>12, <1>13

\* Cases 2 and 3 of the insertion: an inner child is rotated up twice.
InnerCode(tt, u, p, g, s, j) ==
    /\ tt = SetParentColour(SetParentColour(Lift(t, p, Opp(s), node), j, p, Black), p, node, Red)
    /\ u = RotateSetParents(SetParentColour(Lift(tt, g, s, node), tt.child[node][Opp(s)], g, Black),
                            g, node, Red)

InsertedUp(u, p, g, s, q, j, k) ==
    /\ InnerPlaces(t, node, p, g, s, q, j, k) /\ InnerUp(t, u, node, p, g, s, q, j, k)
    /\ \A m \in Nodes : u.colour[m] = IF m = g THEN Red ELSE IF m = node THEN Black
                                      ELSE t.colour[m]

\* Cases 2 and 3 of the insertion: what becomes of the pointers and colours.
LEMMA InnerTurned ==
    ASSUME NEW p, NEW g, NEW s, NEW q, NEW j, NEW k, NEW tt, NEW u,
           Conflict(p, g, s), t.child[p][Opp(s)] = node, q = t.parent[g],
           j = t.child[node][s], k = t.child[node][Opp(s)], ~IsRed(t, j), ~IsRed(t, k),
           InnerCode(tt, u, p, g, s, j)
    PROVE  InsertedUp(u, p, g, s, q, j, k)
<1>1. /\ g \in Nodes /\ p \in Nodes /\ s \in Sides /\ node \in Nodes /\ NULL \notin Nodes
      /\ j \in Places /\ k \in Places /\ p \in Places /\ node \in Places /\ g \in Places
      /\ Opp(s) \in Sides /\ Opp(s) # s /\ Opp(Opp(s)) = s
      /\ \A x \in Sides : x = s \/ x = Opp(s)
      /\ t.colour[g] = Black /\ t.colour[p] = Red /\ t.colour[node] = Red
      /\ IsTree(t) /\ Links(t) /\ Linked(t, g) /\ Linked(t, p)
  BY OppFacts, RbTreeAssumption DEF Conflict, IsTree, Places
<1>2. InnerPlaces(t, node, p, g, s, q, j, k)
  BY <1>1, InnerPlacesFacts DEF Conflict
<1>3. /\ g # p /\ node # p /\ node # g
      /\ j # node /\ j # p /\ j # g /\ k # node /\ k # p /\ k # g /\ (j # NULL => j # k)
  BY <1>2 DEF InnerPlaces
<1>11. PICK a : a = Lift(t, p, Opp(s), node)
  OBVIOUS
<1>12. PICK b : b = SetParentColour(a, j, p, Black)
  OBVIOUS
<1>13. Lifted(t, a, p, Opp(s), node)
  BY <1>1, <1>3, <1>11, LiftFacts
<1>14. IsTree(a)
  BY <1>13 DEF Lifted
<1>15. ParentColourSet(a, b, j, p, Black)
  BY <1>1, <1>12, <1>14, SetParentColourFacts
<1>16. IsTree(b)
  BY <1>15 DEF ParentColourSet
<1>17. ParentColourSet(b, tt, p, node, Red)
  BY <1>1, <1>11, <1>12, <1>16, SetParentColourFacts DEF InnerCode
<1>18. /\ IsTree(tt) /\ tt.root = t.root
       /\ \A m \in Nodes, x \in Sides :
             tt.child[m][x] = IF m = p /\ x = Opp(s) THEN j
                              ELSE IF m = node /\ x = s THEN p ELSE t.child[m][x]
       /\ \A m \in Nodes : tt.parent[m] = IF m = p THEN node ELSE IF m = j THEN p ELSE t.parent[m]
       /\ \A m \in Nodes : tt.colour[m] = IF m = p THEN Red ELSE IF m = j THEN Black ELSE t.colour[m]
  BY <1>1, <1>13, <1>15, <1>17 DEF Lifted, ParentColourSet
<1>19. tt.child[node][Opp(s)] = k
  BY <1>1, <1>3, <1>18
<1>20. PICK l : l = Lift(tt, g, s, node)
  OBVIOUS
<1>21. PICK w : w = SetParentColour(l, k, g, Black)
  OBVIOUS
<1>22. Lifted(tt, l, g, s, node)
  BY <1>1, <1>3, <1>18, <1>20, LiftFacts
<1>23. IsTree(l)
  BY <1>22 DEF Lifted
<1>24. ParentColourSet(l, w, k, g, Black)
  BY <1>1, <1>21, <1>23, SetParentColourFacts
<1>25. /\ IsTree(w) /\ w.root = t.root
       /\ \A m \in Nodes, x \in Sides :
             w.child[m][x] = IF m = g /\ x = s THEN k
                             ELSE IF m = node /\ x = Opp(s) THEN g ELSE tt.child[m][x]
       /\ \A m \in Nodes : w.parent[m] = IF m = k THEN g ELSE tt.parent[m]
       /\ \A m \in Nodes : w.colour[m] = IF m = k THEN Black ELSE tt.colour[m]
  BY <1>18, <1>19, <1>22, <1>24 DEF Lifted, ParentColourSet
<1>26. ASSUME NEW m \in Nodes, NEW x \in Sides
       PROVE  w.child[m][x] = IF m = g /\ x = s THEN k
                              ELSE IF m = node THEN IF x = s THEN p ELSE g
                              ELSE IF m = p /\ x = Opp(s) THEN j ELSE t.child[m][x]
  <2>1. x = s \/ x = Opp(s)
    BY <1>1
  <2> QED
    BY <1>1, <1>3, <1>18, <1>25, <2>1
<1>27. \A m \in Nodes \ {node} : w.parent[m] = IF m = k THEN g ELSE IF m = p THEN node
                                               ELSE IF m = j THEN p ELSE t.parent[m]
  BY <1>18, <1>25
<1>28. InnerPrepared(t, w, node, p, g, s, j, k)
  BY <1>25, <1>26, <1>27 DEF InnerPrepared
<1>29. u = RotateSetParents(w, g, node, Red)
  BY <1>19, <1>20, <1>21 DEF InnerCode
<1>30. InnerUp(t, u, node, p, g, s, q, j, k) /\ Recoloured(w, u, node, g, Red)
  BY <1>1, <1>2, <1>28, <1>29, InnerTurnFacts
<1>31. \A m \in Nodes : u.colour[m] = IF m = g THEN Red ELSE IF m = node THEN Black
                                      ELSE t.colour[m]
  <2>1. /\ j # NULL => t.colour[j] = Black
        /\ k # NULL => t.colour[k] = Black
    BY <1>1 DEF IsRed, IsTree, Places
  <2> QED
    BY <1>1, <1>3, <1>18, <1>25, <1>30, <2>1 DEF Recoloured
<1> QED
  BY <1>2, <1>30, <1>31 DEF InsertedUp

\* Cases 2 and 3 of the insertion leave the tree in order.
LEMMA InnerStep ==
    ASSUME NEW p, NEW g, NEW s, NEW h, NEW tt, NEW u,
           Conflict(p, g, s), Shape(t, h, node, NULL, "left"),
           ~IsRed(t, t.child[g][Opp(s)]), t.child[p][Opp(s)] = node,
           InnerCode(tt, u, p, g, s, t.child[node][s])
    PROVE  (\E f : Shape(u, f, NULL, NULL, "left")) /\ ~IsRed(u, u.root)
<1>0. PICK q, j, k : q = t.parent[g] /\ j = t.child[node][s] /\ k = t.child[node][Opp(s)]
  OBVIOUS
<1>1. Measured(p, g, s, h)
  BY ConflictHeights
<1>2. /\ g \in Nodes /\ p \in Nodes /\ s \in Sides /\ node \in Nodes /\ NULL \notin Nodes
      /\ q \in Places /\ j \in Places /\ k \in Places
      /\ Opp(s) \in Sides /\ Opp(s) # s
      /\ \A x \in Sides : x = s \/ x = Opp(s)
      /\ t.child[g][s] = p /\ t.parent[p] = g /\ t.parent[node] = p /\ t.parent[g] = q
      /\ t.colour[g] = Black /\ t.colour[p] = Red /\ t.colour[node] = Red
      /\ IsTree(t) /\ Links(t) /\ ~IsRed(t, t.root)
  BY <1>0, OppFacts, RbTreeAssumption DEF Conflict, IsTree, Places
<1>3. /\ ~IsRed(t, j) /\ ~IsRed(t, k) /\ Tall(h, j) = h[p] /\ Tall(h, k) = h[p]
      /\ h[p] \in Nat /\ h[g] = h[p] + 1 /\ Tall(h, t.child[g][Opp(s)]) = h[p]
      /\ Tall(h, t.child[p][s]) = h[p] /\ (t.child[p][s] # node => ~IsRed(t, t.child[p][s]))
  BY <1>0, <1>1, <1>2 DEF Measured
<1>6. InsertedUp(u, p, g, s, q, j, k)
  BY <1>0, <1>3, InnerTurned
<1>4. /\ IsTree(u) /\ Links(u) /\ u.root = (IF q = NULL THEN node ELSE t.root)
      /\ \A m \in Nodes, x \in Sides :
            u.child[m][x] = IF m = g THEN IF x = s THEN k ELSE t.child[m][x]
                            ELSE IF m = node THEN IF x = s THEN p ELSE g
                            ELSE IF m = p THEN IF x = Opp(s) THEN j ELSE t.child[m][x]
                            ELSE IF m = q /\ t.child[m][x] = g THEN node
                            ELSE t.child[m][x]
      /\ \A m \in Nodes : u.colour[m] = IF m = g THEN Red ELSE IF m = node THEN Black
                                        ELSE t.colour[m]
  BY <1>6 DEF InsertedUp, InnerUp
<1>5. /\ t.child[p][s] # node /\ t.child[g][Opp(s)] # p
      /\ g # p /\ node # p /\ node # g /\ q # g /\ q # node /\ q # p
      /\ j # node /\ j # g /\ k # node /\ k # g
  <2>1. t.child[p][s] # node
    BY <1>2 DEF Links
  <2> QED
    BY <1>6, <2>1 DEF InsertedUp, InnerPlaces
<1> DEFINE f == [h EXCEPT ![g] = h[p], ![node] = h[g]]
<1>7. h \in [Nodes -> Nat] /\ Heights(h) /\ h[g] \in Nat
  BY <1>2 DEF Shape, Heights
<1>8. Heights(f)
  BY <1>3, <1>7, NewHeights
<1>9. \A m \in Nodes : f[m] = IF m = g THEN h[p] ELSE IF m = node THEN h[g] ELSE h[m]
  BY <1>5, <1>7
<1> HIDE DEF f
<1>10. ASSUME NEW m \in Nodes, NEW x \in Sides PROVE Fine(u, f, NULL, NULL, "left", m, x)
  <2> DEFINE z == t.child[m][x]
             y == u.child[m][x]
  <2>1. z \in Places /\ (z # NULL => z \in Nodes /\ t.parent[z] = m)
    BY <1>2 DEF Links, IsTree, Places
  <2>2. Fine(t, h, node, NULL, "left", m, x) /\ m # NULL
    BY <1>2 DEF Shape
  <2>3. h[m] = (Bl(t, m) + Tall(h, z)) + 0 /\ (IsRed(t, m) /\ z # node => ~IsRed(t, z))
    BY <2>2 DEF Fine
  <2>4. x = s \/ x = Opp(s)
    BY <1>2
  <2>5. SUFFICES /\ f[m] = (Bl(u, m) + Tall(f, y)) + 0
                 /\ IsRed(u, m) => ~IsRed(u, y)
    BY <2>2 DEF Fine
  <2>6. y = IF m = g THEN IF x = s THEN k ELSE z
            ELSE IF m = node THEN IF x = s THEN p ELSE g
            ELSE IF m = p THEN IF x = Opp(s) THEN j ELSE z
            ELSE IF m = q /\ z = g THEN node ELSE z
    BY <1>4
  <2>7. CASE m = g
    <3>1. y = k \/ (y = t.child[g][Opp(s)] /\ y = z)
      BY <2>4, <2>6, <2>7
    <3>2. y # g /\ y # node
      BY <1>2, <1>5, <2>1, <2>7, <3>1
    <3>3. y \in Places /\ Tall(h, y) = h[p] /\ ~IsRed(t, y)
      BY <1>2, <1>3, <2>1, <3>1
    <3>4. Tall(f, y) = Tall(h, y) /\ f[m] = h[p] /\ Bl(u, m) = 0
      BY <1>2, <1>4, <1>9, <2>7, <3>2, <3>3, OppFacts DEF Tall, Bl, Places
    <3>5. ~IsRed(u, y)
      BY <1>4, <3>2, <3>3 DEF IsRed, Places
    <3> QED
      BY <1>3, <3>3, <3>4, <3>5
  <2>8. CASE m = node
    <3>1. (y = p \/ y = g) /\ f[m] = h[g] /\ Tall(f, y) = h[p]
      BY <1>2, <1>5, <1>9, <2>6, <2>8 DEF Tall
    <3>2. Bl(u, m) = 1 /\ ~IsRed(u, m)
      BY <1>2, <1>4, <1>5, <2>8, OppFacts DEF Bl, IsRed
    <3> QED
      BY <1>3, <3>1, <3>2
  <2>9. CASE m = p
    <3>1. y = j \/ (y = z /\ y = t.child[p][s])
      BY <1>5, <2>4, <2>6, <2>9
    <3>2. y # g /\ y # node
      BY <1>2, <1>5, <2>1, <2>9, <3>1
    <3>3. y \in Places /\ Tall(h, y) = h[p] /\ ~IsRed(t, y)
      BY <1>2, <1>3, <1>5, <2>1, <3>1
    <3>4. Tall(f, y) = Tall(h, y) /\ f[m] = h[p] /\ Bl(u, m) = 0
      BY <1>2, <1>4, <1>5, <1>9, <2>9, <3>2, <3>3, OppFacts DEF Tall, Bl, Places
    <3>5. ~IsRed(u, y)
      BY <1>4, <3>2, <3>3 DEF IsRed, Places
    <3> QED
      BY <1>3, <3>3, <3>4, <3>5
  <2>10. CASE m # g /\ m # p /\ m # node
    <3>1. z # node /\ f[m] = h[m] /\ Bl(u, m) = Bl(t, m) /\ (IsRed(u, m) <=> IsRed(t, m))
      BY <1>2, <1>4, <1>9, <2>1, <2>10 DEF Bl, IsRed
    <3>2. z = g => m = q
      BY <1>2, <2>1
    <3>3. CASE z = g
      <4>1. y = node /\ Tall(f, y) = h[g] /\ Tall(h, z) = h[g] /\ ~IsRed(u, y)
        BY <1>2, <1>4, <1>5, <1>9, <2>6, <2>10, <3>2, <3>3, OppFacts DEF Tall, IsRed
      <4> QED
        BY <2>3, <3>1, <4>1
    <3>4. CASE z # g
      <4>1. y = z /\ Tall(f, y) = Tall(h, z) /\ (IsRed(u, y) <=> IsRed(t, z))
        BY <1>4, <1>9, <2>1, <2>6, <2>10, <3>1, <3>4 DEF Tall, IsRed
      <4> QED
        BY <2>3, <3>1, <4>1
    <3> QED
      BY <3>3, <3>4
  <2> QED
    BY <2>7, <2>8, <2>9, <2>10
<1>11. Shape(u, f, NULL, NULL, "left")
  BY <1>4, <1>8, <1>10 DEF Shape
<1>12. ~IsRed(u, u.root)
  <2>1. t.root # NULL => t.root \in Nodes /\ t.parent[t.root] = NULL
    BY <1>2 DEF Links, IsTree, Places
  <2> QED
    BY <1>2, <1>4, <1>5, <2>1, OppFacts DEF IsRed
<1> QED
  BY <1>11, <1>12

\* A rotation that ends an insertion keeps the invariant.
LEMMA InsertRotateStep == TreeInv /\ InsertRotate => TreeInv'
<1> SUFFICES ASSUME TreeInv, InsertRotate PROVE TreeInv'
  OBVIOUS
<1>1. PICK p, g, s : p = parent /\ g = Grandparent /\ s = ParentSide
  OBVIOUS
<1>2. Conflict(p, g, s)
  BY <1>1, ConflictFacts DEF InsertRotate
<1>3. PICK h : Shape(t, h, node, NULL, "left")
  BY DEF TreeInv, Inserting, InsertRotate
<1>4. ~IsRed(t, t.child[g][Opp(s)]) /\ op' = "idle"
  BY <1>1 DEF InsertRotate, Uncle, Done
<1>5. PICK u : u = t'
  OBVIOUS
<1>6. CASE t.child[p][Opp(s)] # node
  <2>1. InnerToOuter(t, p, node, s) = [tree |-> t, top |-> p]
    BY <1>6 DEF InnerToOuter
  <2>2. u = RotateSetParents(SetParentColour(Lift(t, g, s, p), t.child[p][Opp(s)], g, Black),
                             g, p, Red)
    BY <1>1, <1>5, <2>1 DEF InsertRotate
  <2>3. (\E f : Shape(u, f, NULL, NULL, "left")) /\ ~IsRed(u, u.root)
    BY <1>2, <1>3, <1>4, <1>6, <2>2, OuterStep
  <2> QED
    BY <1>4, <1>5, <2>3 DEF TreeInv, Idle
<1>7. CASE t.child[p][Opp(s)] = node
  <2>1. PICK tt : tt = SetParentColour(SetParentColour(Lift(t, p, Opp(s), node),
                                                       t.child[node][s], p, Black), p, node, Red)
    OBVIOUS
  <2>2. InnerToOuter(t, p, node, s) = [tree |-> tt, top |-> node]
    BY <1>7, <2>1 DEF InnerToOuter
  <2>3. u = RotateSetParents(SetParentColour(Lift(tt, g, s, node), tt.child[node][Opp(s)], g, Black),
                             g, node, Red)
    BY <1>1, <1>5, <2>2 DEF InsertRotate
  <2>4. InnerCode(tt, u, p, g, s, t.child[node][s])
    BY <2>1, <2>3 DEF InnerCode
  <2>5. (\E f : Shape(u, f, NULL, NULL, "left")) /\ ~IsRed(u, u.root)
    BY <1>2, <1>3, <1>4, <1>7, <2>4, InnerStep
  <2> QED
    BY <1>4, <1>5, <2>5 DEF TreeInv, Idle
<1> QED
  BY <1>6, <1>7

\* An insertion that ends at a black parent or at the root keeps the invariant.
LEMMA InsertDoneStep == TreeInv /\ InsertDone => TreeInv'
<1> SUFFICES ASSUME TreeInv, InsertDone PROVE TreeInv'
  OBVIOUS
<1>1. PICK h : Shape(t, h, node, NULL, "left")
  BY DEF TreeInv, Inserting, InsertDone
<1>2. /\ node \in Nodes /\ Linked(t, node) /\ IsRed(t, node) /\ parent = t.parent[node]
      /\ t.root = node \/ ~IsRed(t, t.root)
      /\ IsTree(t) /\ Links(t) /\ NULL \notin Nodes /\ ~IsRed(t, parent) /\ op' = "idle"
      /\ t' = IF parent = NULL THEN SetParentColour(t, node, NULL, Black) ELSE t
  BY <1>1, RbTreeAssumption DEF TreeInv, Inserting, InsertDone, Done, Shape
<1>3. CASE parent # NULL
  <2>1. ASSUME NEW m \in Nodes, NEW x \in Sides PROVE Fine(t, h, NULL, NULL, "left", m, x)
    <3>1. Fine(t, h, node, NULL, "left", m, x)
      BY <1>1 DEF Shape
    <3>2. t.child[m][x] = node => m = parent
      BY <1>2 DEF Links
    <3> QED
      BY <1>2, <3>1, <3>2 DEF Fine
  <2>2. Shape(t, h, NULL, NULL, "left")
    BY <1>1, <2>1 DEF Shape
  <2>3. t.root # node /\ ~IsRed(t, t.root) /\ t' = t
    BY <1>2, <1>3 DEF Links
  <2> QED
    BY <1>2, <2>2, <2>3 DEF TreeInv, Idle
<1>4. CASE parent = NULL
  <2>1. PICK u : u = t'
    OBVIOUS
  <2>2. ParentColourSet(t, u, node, NULL, Black)
    BY <1>2, <1>4, <2>1, SetParentColourFacts DEF Places
  <2>3. /\ IsTree(u) /\ u.child = t.child /\ u.root = t.root
        /\ \A m \in Nodes : u.parent[m] = t.parent[m]
        /\ \A m \in Nodes : u.colour[m] = IF m = node THEN Black ELSE t.colour[m]
    BY <1>2, <1>4, <2>2 DEF ParentColourSet
  <2>4. u.parent = t.parent
    BY <1>2, <2>3 DEF IsTree
  <2>5. Links(u)
    BY <1>2, <2>3, <2>4, SameLinks
  <2> DEFINE k == h[node] + 1
             f == [h EXCEPT ![node] = k, ![node] = k]
  <2>6. h \in [Nodes -> Nat] /\ Heights(h) /\ k \in Nat
    BY <1>1, <1>2 DEF Shape, Heights
  <2>7. Heights(f)
    BY <2>6, NewHeights
  <2>8. \A m \in Nodes : f[m] = IF m = node THEN h[node] + 1 ELSE h[m]
    BY <2>6
  <2> HIDE DEF f, k
  <2>9. ASSUME NEW m \in Nodes, NEW x \in Sides PROVE Fine(u, f, NULL, NULL, "left", m, x)
    <3> DEFINE z == t.child[m][x]
    <3>0. z = node => t.parent[node] = m
      BY <1>2 DEF Links
    <3>1. z \in Places /\ z # node /\ u.child[m][x] = z
      BY <1>2, <1>4, <2>3, <3>0 DEF IsTree
    <3>2. Fine(t, h, node, NULL, "left", m, x) /\ m # NULL
      BY <1>1, <1>2 DEF Shape
    <3>3. h[m] = (Bl(t, m) + Tall(h, z)) + 0 /\ (IsRed(t, m) => ~IsRed(t, z))
      BY <3>1, <3>2 DEF Fine
    <3>4. Tall(f, z) = Tall(h, z) /\ Tall(h, z) \in Nat /\ (IsRed(u, z) <=> IsRed(t, z))
      BY <2>3, <2>6, <2>8, <3>1 DEF Tall, IsRed, Places
    <3>5. CASE m = node
      <4>1. Bl(t, m) = 0 /\ Bl(u, m) = 1 /\ ~IsRed(u, m) /\ f[m] = h[m] + 1
        BY <1>2, <2>3, <2>8, <3>5, OppFacts DEF Bl, IsRed
      <4>2. f[m] = (Bl(u, m) + Tall(f, z)) + 0
        BY <3>3, <3>4, <4>1
      <4> QED
        BY <3>1, <3>2, <4>1, <4>2 DEF Fine
    <3>6. CASE m # node
      <4>1. Bl(u, m) = Bl(t, m) /\ (IsRed(u, m) <=> IsRed(t, m)) /\ f[m] = h[m]
        BY <2>3, <2>8, <3>6 DEF Bl, IsRed
      <4>2. f[m] = (Bl(u, m) + Tall(f, z)) + 0 /\ (IsRed(u, m) => ~IsRed(u, z))
        BY <3>3, <3>4, <4>1
      <4> QED
        BY <3>1, <3>2, <4>2 DEF Fine
    <3> QED
      BY <3>5, <3>6
  <2>10. Shape(u, f, NULL, NULL, "left")
    BY <2>3, <2>5, <2>7, <2>9 DEF Shape
  <2>11. ~IsRed(u, u.root)
    BY <1>2, <1>4, <2>3, OppFacts DEF IsRed, Linked
  <2> QED
    BY <1>2, <2>1, <2>10, <2>11 DEF TreeInv, Idle
<1> QED
  BY <1>3, <1>4

-----------------------------------------------------------------------------
(* The loop of _hev_rbtree_erase_color. *)

\* Below the parent's side s, where node is, one black node is missing.
Lacking(tr, h, s) ==
    /\ parent \in Nodes /\ node \in Places /\ s \in Sides
    /\ tr.child[parent][s] = node /\ ~IsRed(tr, node) /\ ~IsRed(tr, tr.root)
    /\ Shape(tr, h, NULL, parent, s)

\* The sibling b is there, and one taller than node.
HasSibling(tr, h, s, b) ==
    /\ b \in Nodes /\ b # node /\ b # parent /\ tr.child[parent][Opp(s)] = b
    /\ tr.parent[b] = parent /\ NULL \notin Nodes
    /\ h \in [Nodes -> Nat] /\ Tall(h, node) \in Nat /\ h[b] = Tall(h, node) + 1
    /\ h[parent] = Bl(tr, parent) + h[b]
    /\ Linked(tr, parent) /\ Acyclic(tr)

\* Where a black node is missing there is a sibling, so the code may follow its pointers.
LEMMA SiblingFacts ==
    ASSUME NEW tr, NEW h, NEW s, Lacking(tr, h, s)
    PROVE  HasSibling(tr, h, s, tr.child[parent][Opp(s)])
<1> DEFINE b == tr.child[parent][Opp(s)]
<1>1. /\ parent \in Nodes /\ node \in Places /\ s \in Sides /\ tr.child[parent][s] = node
      /\ NULL \notin Nodes /\ Opp(s) \in Sides /\ Opp(s) # s /\ Opp(Opp(s)) = s
      /\ IsTree(tr) /\ Links(tr) /\ h \in [Nodes -> Nat] /\ parent # NULL
  BY OppFacts, RbTreeAssumption DEF Lacking, Shape, Heights
<1>2. /\ Fine(tr, h, NULL, parent, s, parent, s)
      /\ Fine(tr, h, NULL, parent, s, parent, Opp(s))
  BY <1>1 DEF Lacking, Shape
<1>3. b \in Places
  BY <1>1 DEF IsTree
<1>4. /\ h[parent] = (Bl(tr, parent) + Tall(h, node)) + 1
      /\ h[parent] = (Bl(tr, parent) + Tall(h, b)) + 0
  BY <1>1, <1>2 DEF Fine
<1> HIDE DEF b
<1>5. Tall(h, node) \in Nat /\ Tall(h, b) \in Nat /\ Bl(tr, parent) \in {0, 1}
  BY <1>1, <1>3 DEF Tall, Bl, Places
<1>6. Tall(h, b) = Tall(h, node) + 1 /\ h[parent] = Bl(tr, parent) + Tall(h, b)
  BY <1>4, <1>5
<1>7. b # NULL
  BY <1>5, <1>6 DEF Tall
<1>8. b \in Nodes /\ Tall(h, b) = h[b]
  BY <1>3, <1>7 DEF Places, Tall
<1>9. tr.parent[b] = parent /\ b # node
  BY <1>1, <1>7, <1>8 DEF Links, b
<1>10. Linked(tr, parent)
  BY <1>1, <1>8, <1>9 DEF Links
<1>11. Acyclic(tr)
  <2>1. Shape(tr, h, NULL, parent, s)
    BY DEF Lacking
  <2> QED
    BY <2>1, ShapeAcyclic
<1>12. b # parent
  <2>1. PICK rank : Ranked(tr, rank)
    BY <1>11 DEF Acyclic
  <2>2. rank[b] < rank[parent] /\ rank[parent] \in Nat
    BY <1>1, <1>8, <1>9, <2>1 DEF Ranked
  <2> QED
    BY <2>2
<1>13. HasSibling(tr, h, s, b)
  BY <1>1, <1>5, <1>6, <1>8, <1>9, <1>10, <1>11, <1>12 DEF HasSibling, b
<1> QED
  BY <1>13 DEF b

\* What the loop of the erasure finds, on the side the code computes.
LEMMA ErasingLacks ==
    ASSUME op = "erase", TreeInv
    PROVE  \E h : Lacking(t, h, NodeSide)
<1>1. PICK s \in Sides : t.child[parent][s] = node /\ \E h : Shape(t, h, NULL, parent, s)
  BY DEF TreeInv, Erasing
<1>2. PICK h : Shape(t, h, NULL, parent, s)
  BY <1>1
<1>3. Lacking(t, h, s)
  BY <1>1, <1>2 DEF TreeInv, Erasing, Lacking
<1>4. HasSibling(t, h, s, t.child[parent][Opp(s)])
  BY <1>3, SiblingFacts
<1>5. t.child[parent][Opp(s)] # node
  BY <1>4 DEF HasSibling
<1>6. NodeSide = s
  BY <1>1, <1>5 DEF NodeSide, Sides, Opp
<1> QED
  BY <1>3, <1>6

\* Case 1: the red sibling b goes up, and its inner child i is the new sibling.
SiblingUp(tr, u, s, b, i) ==
    u = RotateSetParents(SetParentColour(Lift(tr, parent, Opp(s), b), i, parent, Black),
                         parent, b, Red)

SiblingRaised(u, s, i) ==
    /\ \E f : Lacking(u, f, s)
    /\ u.child[parent][Opp(s)] = i /\ ~IsRed(u, i)

\* Case 1 of the erasure: a black node is still missing, and now the sibling is black.
LEMMA RedSiblingStep ==
    ASSUME NEW tr, NEW h, NEW s, NEW b, NEW i, NEW u, Lacking(tr, h, s),
           b = tr.child[parent][Opp(s)], i = tr.child[b][s], IsRed(tr, b),
           SiblingUp(tr, u, s, b, i)
    PROVE  SiblingRaised(u, s, i)
<1>1. HasSibling(tr, h, s, b)
  BY SiblingFacts
<1>2. /\ parent \in Nodes /\ node \in Places /\ s \in Sides /\ tr.child[parent][s] = node
      /\ NULL \notin Nodes /\ Opp(s) \in Sides /\ Opp(s) # s /\ Opp(Opp(s)) = s
      /\ \A x \in Sides : x = s \/ x = Opp(s)
      /\ IsTree(tr) /\ Links(tr) /\ ~IsRed(tr, node) /\ ~IsRed(tr, tr.root)
      /\ Heights(h)
  BY OppFacts, RbTreeAssumption DEF Lacking, Shape
<1>3. /\ b \in Nodes /\ b # node /\ b # parent /\ tr.parent[b] = parent
      /\ h \in [Nodes -> Nat] /\ Tall(h, node) \in Nat /\ h[b] = Tall(h, node) + 1
      /\ h[parent] = Bl(tr, parent) + h[b] /\ Linked(tr, parent) /\ Acyclic(tr)
  BY <1>1 DEF HasSibling
<1>4. PICK q : q = tr.parent[parent]
  OBVIOUS
<1>5. Around(tr, parent, Opp(s), b, q, i)
  BY <1>2, <1>3, <1>4, AroundFacts
<1>6. RotatedUp(tr, u, parent, Opp(s), b, q, i, Red)
  BY <1>2, <1>3, <1>5, RotateUpFacts DEF SiblingUp
<1>7. \A m \in Nodes, x \in Sides :
          /\ Fine(tr, h, NULL, parent, s, m, x)
          /\ h[m] = (Bl(tr, m) + Tall(h, tr.child[m][x])) + (IF m = parent /\ x = s THEN 1 ELSE 0)
          /\ IsRed(tr, m) => ~IsRed(tr, tr.child[m][x])
  <2> SUFFICES ASSUME NEW m \in Nodes, NEW x \in Sides
               PROVE  /\ Fine(tr, h, NULL, parent, s, m, x)
                      /\ h[m] = (Bl(tr, m) + Tall(h, tr.child[m][x]))
                                + (IF m = parent /\ x = s THEN 1 ELSE 0)
                      /\ IsRed(tr, m) => ~IsRed(tr, tr.child[m][x])
    OBVIOUS
  <2>1. Fine(tr, h, NULL, parent, s, m, x)
    BY DEF Lacking, Shape
  <2> QED
    BY <2>1 DEF Fine, IsRed
<1>8. /\ q \in Places /\ i \in Places /\ q # b /\ q # parent /\ i # parent /\ i # b
  BY <1>5 DEF Around
<1>9. tr.colour[parent] = Black /\ tr.colour[b] = Red
  BY <1>2, <1>3, <1>7 DEF IsRed, IsTree
<1>10. ~IsRed(tr, i) /\ Tall(h, i) = h[b] /\ i # NULL
  <2>1. h[b] = (Bl(tr, b) + Tall(h, i)) + 0 /\ ~IsRed(tr, i)
    BY <1>2, <1>3, <1>7
  <2>2. Bl(tr, b) = 0 /\ Tall(h, i) \in Nat
    BY <1>3, <1>8, <1>9, OppFacts DEF Bl, Tall, Places
  <2>3. Tall(h, i) = h[b]
    BY <1>3, <2>1, <2>2
  <2> QED
    BY <1>3, <2>1, <2>3 DEF Tall
<1>11. h[parent] = h[b] + 1 /\ h[b] \in Nat /\ h[parent] \in Nat
  <2>1. Bl(tr, parent) = 1
    BY <1>9 DEF Bl
  <2> QED
    BY <1>2, <1>3, <2>1
<1>12. \A m \in Nodes : u.colour[m] = IF m = parent THEN Red ELSE IF m = b THEN Black
                                      ELSE tr.colour[m]
  BY <1>2, <1>3, <1>6, <1>8, <1>9, <1>10 DEF RotatedUp, IsRed, IsTree
<1>13. \A m \in Nodes, x \in Sides :
          u.child[m][x] = IF m = parent THEN IF x = Opp(s) THEN i ELSE tr.child[m][x]
                          ELSE IF m = b THEN IF x = s THEN parent ELSE tr.child[m][x]
                          ELSE IF m = q /\ tr.child[m][x] = parent THEN b ELSE tr.child[m][x]
  BY <1>2, <1>6 DEF RotatedUp, Rotated
<1> DEFINE f == [h EXCEPT ![parent] = h[b], ![b] = h[parent]]
<1>14. Heights(f)
  BY <1>2, <1>11, NewHeights
<1>15. \A m \in Nodes : f[m] = IF m = parent THEN h[b] ELSE IF m = b THEN h[parent] ELSE h[m]
  BY <1>2, <1>3
<1> HIDE DEF f
<1>16. ASSUME NEW m \in Nodes, NEW x \in Sides PROVE Fine(u, f, NULL, parent, s, m, x)
  <2> DEFINE z == tr.child[m][x]
             y == u.child[m][x]
  <2>1. z \in Places /\ (z # NULL => z \in Nodes /\ tr.parent[z] = m)
    BY <1>2 DEF Links, IsTree, Places
  <2>3. /\ h[m] = (Bl(tr, m) + Tall(h, z)) + (IF m = parent /\ x = s THEN 1 ELSE 0)
        /\ IsRed(tr, m) => ~IsRed(tr, z)
    BY <1>7
  <2>4. x = s \/ x = Opp(s)
    BY <1>2
  <2>5. SUFFICES /\ f[m] = (Bl(u, m) + Tall(f, y)) + (IF m = parent /\ x = s THEN 1 ELSE 0)
                 /\ IsRed(u, m) => ~IsRed(u, y)
    BY DEF Fine
  <2>6. y = IF m = parent THEN IF x = Opp(s) THEN i ELSE z
            ELSE IF m = b THEN IF x = s THEN parent ELSE z
            ELSE IF m = q /\ z = parent THEN b ELSE z
    BY <1>13
  <2>7. CASE m = parent
    <3>1. (x = Opp(s) /\ y = i) \/ (x = s /\ y = node /\ y = z)
      BY <1>2, <2>4, <2>6, <2>7
    <3>2. y # parent /\ y # b
      BY <1>2, <1>3, <1>4, <1>8, <2>1, <2>7, <3>1
    <3>3. y \in Places /\ ~IsRed(tr, y)
      BY <1>2, <1>8, <1>10, <3>1
    <3>4. Tall(f, y) = Tall(h, y) /\ f[m] = h[b] /\ Bl(u, m) = 0
      BY <1>2, <1>12, <1>15, <2>7, <3>2, <3>3, OppFacts DEF Tall, Bl, Places
    <3>5. ~IsRed(u, y)
      BY <1>12, <3>2, <3>3 DEF IsRed, Places
    <3>6. CASE x = s
      BY <1>2, <1>3, <2>7, <3>1, <3>4, <3>5, <3>6
    <3>7. CASE x = Opp(s)
      BY <1>2, <1>10, <1>11, <2>7, <3>1, <3>4, <3>5, <3>7
    <3> QED
      BY <2>4, <3>6, <3>7
  <2>8. CASE m = b /\ x = s
    <3>1. y = parent /\ f[parent] = h[b] /\ f[m] = h[parent] /\ Tall(f, y) = f[y]
      BY <1>2, <1>3, <1>15, <2>6, <2>8 DEF Tall
    <3>2. Bl(u, m) = 1 /\ ~IsRed(u, m)
      BY <1>3, <1>12, <2>8, OppFacts DEF Bl, IsRed
    <3> QED
      BY <1>3, <1>11, <2>8, <3>1, <3>2
  <2>9. CASE m = b /\ x = Opp(s)
    <3>1. y = z /\ z # parent /\ z # b /\ f[m] = h[parent]
      BY <1>2, <1>3, <1>4, <1>8, <1>15, <2>1, <2>6, <2>9
    <3>2. Bl(u, m) = 1 /\ Bl(tr, m) = 0 /\ ~IsRed(u, m)
      BY <1>3, <1>9, <1>12, <2>9, OppFacts DEF Bl, IsRed
    <3>3. Tall(f, y) = Tall(h, z) /\ Tall(h, z) \in Nat
      BY <1>3, <1>15, <2>1, <3>1 DEF Tall
    <3>4. h[b] = Tall(h, z)
      BY <1>3, <2>3, <2>9, <3>2, <3>3
    <3> QED
      BY <1>3, <1>11, <2>9, <3>1, <3>2, <3>3, <3>4
  <2>10. CASE m # parent /\ m # b
    <3>1. z # b /\ f[m] = h[m] /\ Bl(u, m) = Bl(tr, m) /\ (IsRed(u, m) <=> IsRed(tr, m))
      BY <1>2, <1>3, <1>12, <1>15, <2>1, <2>10 DEF Bl, IsRed
    <3>2. z = parent => m = q
      BY <1>2, <1>4, <2>1
    <3>3. CASE z = parent
      <4>1. y = b /\ Tall(f, y) = h[parent] /\ Tall(h, z) = h[parent] /\ ~IsRed(u, y)
        BY <1>2, <1>3, <1>12, <1>15, <2>6, <2>10, <3>2, <3>3, OppFacts DEF Tall, IsRed
      <4> QED
        BY <2>3, <2>10, <3>1, <4>1
    <3>4. CASE z # parent
      <4>1. y = z /\ Tall(f, y) = Tall(h, z) /\ (IsRed(u, y) <=> IsRed(tr, z))
        BY <1>12, <1>15, <2>1, <2>6, <2>10, <3>1, <3>4 DEF Tall, IsRed
      <4> QED
        BY <2>3, <2>10, <3>1, <4>1
    <3> QED
      BY <3>3, <3>4
  <2> QED
    BY <2>4, <2>7, <2>8, <2>9, <2>10
<1>17. Shape(u, f, NULL, parent, s)
  BY <1>6, <1>14, <1>16 DEF Shape, RotatedUp
<1>18. ~IsRed(u, u.root)
  <2>1. u.root = IF q = NULL THEN b ELSE tr.root
    BY <1>6 DEF RotatedUp, Rotated
  <2>2. tr.root # NULL => tr.root \in Nodes /\ tr.parent[tr.root] = NULL
    BY <1>2 DEF Links, IsTree, Places
  <2> QED
    BY <1>2, <1>3, <1>4, <1>12, <2>1, <2>2, OppFacts DEF IsRed
<1>19. u.child[parent][s] = node /\ u.child[parent][Opp(s)] = i
  BY <1>2, <1>13
<1>20. ~IsRed(u, node) /\ ~IsRed(u, i)
  <2>1. node # parent
    BY <1>2, <1>4, <1>8 DEF Links
  <2> QED
    BY <1>2, <1>3, <1>8, <1>10, <1>12, <2>1 DEF IsRed, Places
<1>21. Lacking(u, f, s)
  BY <1>2, <1>17, <1>18, <1>19, <1>20 DEF Lacking
<1> QED
  BY <1>19, <1>20, <1>21 DEF SiblingRaised

\* What the lack means for every node and child.
LackFine(tr, h, s) ==
    \A m \in Nodes, x \in Sides :
       /\ h[m] = (Bl(tr, m) + Tall(h, tr.child[m][x])) + (IF m = parent /\ x = s THEN 1 ELSE 0)
       /\ IsRed(tr, m) => ~IsRed(tr, tr.child[m][x])

\* What is in order elsewhere while a black node is missing.
LEMMA LackingFine ==
    ASSUME NEW tr, NEW h, NEW s, Lacking(tr, h, s)
    PROVE  LackFine(tr, h, s)
<1> SUFFICES ASSUME NEW m \in Nodes, NEW x \in Sides
             PROVE  /\ h[m] = (Bl(tr, m) + Tall(h, tr.child[m][x]))
                              + (IF m = parent /\ x = s THEN 1 ELSE 0)
                    /\ IsRed(tr, m) => ~IsRed(tr, tr.child[m][x])
  BY DEF LackFine
<1>1. Fine(tr, h, NULL, parent, s, m, x)
  BY DEF Lacking, Shape
<1> QED
  BY <1>1 DEF Fine, IsRed

\* Case 2: the black sibling b turns red and the parent, if it was red, black.
Flipped(tr, u, b) ==
    /\ IsTree(u) /\ u.child = tr.child /\ u.root = tr.root /\ u.parent = tr.parent
    /\ \A m \in Nodes : u.colour[m] = IF m = b THEN Red ELSE IF m = parent THEN Black
                                      ELSE tr.colour[m]

\* The lack is over, or has moved to where the parent hangs on q.
AfterFlip(tr, u, q) ==
    \/ /\ q = NULL \/ IsRed(tr, parent)
       /\ \E f : Shape(u, f, NULL, NULL, "left")
    \/ /\ q \in Nodes /\ ~IsRed(tr, parent)
       /\ \E y \in Sides : tr.child[q][y] = parent /\ \E f : Shape(u, f, NULL, q, y)

\* Case 2 of the erasure: the tree is in order, or the lack has moved to the parent.
LEMMA FlipStep ==
    ASSUME NEW tr, NEW h, NEW s, NEW b, NEW u, Lacking(tr, h, s),
           b = tr.child[parent][Opp(s)], ~IsRed(tr, b),
           \A x \in Sides : ~IsRed(tr, tr.child[b][x]), Flipped(tr, u, b)
    PROVE  AfterFlip(tr, u, tr.parent[parent]) /\ ~IsRed(u, u.root)
<1>1. HasSibling(tr, h, s, b) /\ LackFine(tr, h, s)
  BY SiblingFacts, LackingFine
<1>2. /\ parent \in Nodes /\ node \in Places /\ s \in Sides /\ tr.child[parent][s] = node
      /\ NULL \notin Nodes /\ Opp(s) \in Sides /\ Opp(s) # s
      /\ \A x \in Sides : x = s \/ x = Opp(s)
      /\ IsTree(tr) /\ Links(tr) /\ ~IsRed(tr, node) /\ ~IsRed(tr, tr.root)
      /\ Heights(h)
  BY OppFacts, RbTreeAssumption DEF Lacking, Shape
<1>3. /\ b \in Nodes /\ b # node /\ b # parent /\ tr.parent[b] = parent
      /\ tr.child[parent][Opp(s)] = b
      /\ h \in [Nodes -> Nat] /\ Tall(h, node) \in Nat /\ h[b] = Tall(h, node) + 1
      /\ h[parent] = Bl(tr, parent) + h[b] /\ Linked(tr, parent) /\ Acyclic(tr)
  BY <1>1 DEF HasSibling
<1>4. PICK q : q = tr.parent[parent]
  OBVIOUS
<1>5. q \in Places /\ q # parent /\ q # b /\ node # parent
  <2>1. PICK rank : Ranked(tr, rank)
    BY <1>3 DEF Acyclic
  <2>2. /\ rank[b] < rank[parent] /\ rank[b] \in Nat /\ rank[parent] \in Nat
        /\ q # NULL => rank[parent] < rank[q]
        /\ node # NULL => rank[node] < rank[parent]
    BY <1>2, <1>3, <1>4, <2>1 DEF Ranked, Places, Links
  <2> QED
    BY <1>2, <1>3, <1>4, <2>2 DEF IsTree
<1>6. /\ IsTree(u) /\ u.child = tr.child /\ u.root = tr.root /\ u.parent = tr.parent
      /\ \A m \in Nodes : u.colour[m] = IF m = b THEN Red ELSE IF m = parent THEN Black
                                        ELSE tr.colour[m]
  BY DEF Flipped
<1>7. Links(u)
  BY <1>2, <1>6, SameLinks
<1>8. PICK k : k = Tall(h, node)
  OBVIOUS
<1>9. k \in Nat /\ k + 1 \in Nat
  BY <1>3, <1>8
<1> DEFINE f == [h EXCEPT ![b] = k, ![parent] = k + 1]
<1>10. Heights(f)
  BY <1>2, <1>9, NewHeights
<1>11. \A m \in Nodes : f[m] = IF m = parent THEN k + 1 ELSE IF m = b THEN k ELSE h[m]
  BY <1>2, <1>3
<1> HIDE DEF f
<1>12. PICK y \in Sides : q # NULL => tr.child[q][y] = parent
  BY <1>2, <1>4 DEF Links
<1> DEFINE over == q = NULL \/ IsRed(tr, parent)
           pr == IF over THEN NULL ELSE q
<1>13. \A m \in Nodes, x \in Sides : tr.child[m][x] = parent => m = q /\ x = y
  <2> SUFFICES ASSUME NEW m \in Nodes, NEW x \in Sides, tr.child[m][x] = parent
               PROVE  m = q /\ x = y
    OBVIOUS
  <2>1. m = q
    BY <1>2, <1>4 DEF Links
  <2>2. tr.child[q][y] = parent /\ Opp(x) # x /\ (y = x \/ y = Opp(x))
    BY <1>2, <1>12, <2>1, OppFacts
  <2>3. tr.child[m][Opp(x)] # parent
    BY <1>2 DEF Links
  <2> QED
    BY <2>1, <2>2, <2>3
<1>14. ASSUME NEW m \in Nodes, NEW x \in Sides PROVE Fine(u, f, NULL, pr, y, m, x)
  <2> DEFINE z == tr.child[m][x]
             e == IF m = pr /\ x = y THEN 1 ELSE 0
  <2>1. z \in Places /\ (z # NULL => z \in Nodes /\ tr.parent[z] = m) /\ u.child[m][x] = z
    BY <1>2, <1>6 DEF Links, IsTree, Places
  <2>2. /\ h[m] = (Bl(tr, m) + Tall(h, z)) + (IF m = parent /\ x = s THEN 1 ELSE 0)
        /\ IsRed(tr, m) => ~IsRed(tr, z)
    BY <1>1 DEF LackFine
  <2>3. SUFFICES f[m] = (Bl(u, m) + Tall(f, z)) + e /\ (IsRed(u, m) => ~IsRed(u, z))
    BY <2>1 DEF Fine
  <2>4. x = s \/ x = Opp(s)
    BY <1>2
  <2>5. pr # parent /\ pr # b
    BY <1>2, <1>3, <1>5
  <2>6. CASE m = parent
    <3>1. Bl(u, m) = 1 /\ ~IsRed(u, m) /\ f[m] = k + 1 /\ e = 0
      BY <1>2, <1>3, <1>6, <1>11, <2>5, <2>6, OppFacts DEF Bl, IsRed
    <3>2. Tall(f, z) = k
      <4>1. CASE x = s
        BY <1>2, <1>3, <1>5, <1>8, <1>11, <2>6, <4>1 DEF Tall, Places
      <4>2. CASE x = Opp(s)
        BY <1>2, <1>3, <1>11, <2>6, <4>2 DEF Tall
      <4> QED
        BY <2>4, <4>1, <4>2
    <3> QED
      BY <1>9, <3>1, <3>2
  <2>7. CASE m = b
    <3>1. z # b /\ z # parent /\ ~IsRed(tr, z)
      BY <1>2, <1>3, <1>4, <1>5, <2>1, <2>7
    <3>2. f[m] = k /\ e = 0 /\ Bl(u, m) = 0 /\ Bl(tr, m) = 1 /\ h[m] = k + 1
      BY <1>2, <1>3, <1>6, <1>8, <1>11, <2>5, <2>7, OppFacts DEF Bl, IsRed, IsTree
    <3>3. Tall(f, z) = Tall(h, z) /\ Tall(h, z) \in Nat /\ ~IsRed(u, z)
      BY <1>3, <1>6, <1>11, <2>1, <3>1 DEF Tall, IsRed
    <3>4. h[m] = (Bl(tr, m) + Tall(h, z)) + 0
      BY <1>3, <2>2, <2>7
    <3> QED
      BY <1>9, <3>2, <3>3, <3>4
  <2>8. CASE m # parent /\ m # b
    <3>1. z # b /\ f[m] = h[m] /\ Bl(u, m) = Bl(tr, m) /\ (IsRed(u, m) <=> IsRed(tr, m))
      BY <1>2, <1>3, <1>6, <1>11, <2>1, <2>8 DEF Bl, IsRed
    <3>2. h[m] = (Bl(tr, m) + Tall(h, z)) + 0
      BY <2>2, <2>8
    <3>3. CASE z = parent
      <4>1. m = q /\ x = y /\ Tall(f, z) = k + 1 /\ ~IsRed(u, z) /\ Tall(h, z) = h[parent]
        BY <1>2, <1>3, <1>6, <1>11, <1>13, <3>3, OppFacts DEF Tall, IsRed
      <4>2. CASE IsRed(tr, parent)
        <5>1. e = 0 /\ Bl(tr, parent) = 0 /\ q # NULL
          BY <1>2, <2>8, <4>1, <4>2, OppFacts DEF Bl, IsRed
        <5> QED
          BY <1>3, <1>8, <1>9, <3>1, <3>2, <4>1, <5>1
      <4>3. CASE ~IsRed(tr, parent)
        <5>1. e = 1 /\ Bl(tr, parent) = 1 /\ Bl(tr, m) \in {0, 1}
          BY <1>2, <2>8, <4>1, <4>3, OppFacts DEF Bl, IsRed, IsTree
        <5> QED
          BY <1>3, <1>8, <1>9, <3>1, <3>2, <4>1, <5>1
      <4> QED
        BY <4>2, <4>3
    <3>4. CASE z # parent
      <4>1. e = 0
        <5> SUFFICES ASSUME m = q, x = y, ~over PROVE FALSE
          BY <1>2
        <5> QED
          BY <1>2, <1>12, <3>4
      <4>2. Tall(f, z) = Tall(h, z) /\ (IsRed(u, z) <=> IsRed(tr, z))
        BY <1>6, <1>11, <2>1, <3>1, <3>4 DEF Tall, IsRed
      <4> QED
        BY <2>2, <3>1, <3>2, <4>1, <4>2
    <3> QED
      BY <3>3, <3>4
  <2> QED
    BY <2>6, <2>7, <2>8
<1>15. Shape(u, f, NULL, pr, y)
  BY <1>6, <1>7, <1>10, <1>14 DEF Shape
<1>16. ~IsRed(u, u.root)
  <2>1. tr.root # NULL => tr.root \in Nodes /\ tr.parent[tr.root] = NULL
    BY <1>2 DEF Links, IsTree, Places
  <2> QED
    BY <1>2, <1>3, <1>6, <2>1, OppFacts DEF IsRed
<1>17. CASE over
  <2>1. \A m \in Nodes, x \in Sides : Fine(u, f, NULL, NULL, "left", m, x)
    BY <1>2, <1>14, <1>17 DEF Fine
  <2>2. Shape(u, f, NULL, NULL, "left")
    BY <1>15, <2>1 DEF Shape
  <2> QED
    BY <1>4, <1>16, <1>17, <2>2 DEF AfterFlip
<1>18. CASE ~over
  <2>1. q \in Nodes /\ tr.child[q][y] = parent /\ Shape(u, f, NULL, q, y)
    BY <1>5, <1>12, <1>15, <1>18 DEF Places
  <2> QED
    BY <1>4, <1>16, <1>18, <2>1 DEF AfterFlip
<1> QED
  BY <1>17, <1>18

\* Case 4: the sibling b goes up, its red outer child o turns black.
OuterNephew(tr, u, s, b, i, o) ==
    u = RotateSetParents(SetParent(SetParentColour(Lift(tr, parent, Opp(s), b), o, b, Black),
                                   i, parent), parent, b, Black)

\* The sibling b is black; i and o are its inner and its outer child.
Nephews(tr, s, b, i, o) ==
    /\ tr.child[parent][Opp(s)] = b /\ ~IsRed(tr, b)
    /\ tr.child[b][s] = i /\ tr.child[b][Opp(s)] = o

\* Case 4 of the erasure leaves the tree in order.
LEMMA OuterNephewStep ==
    ASSUME NEW tr, NEW h, NEW s, NEW b, NEW i, NEW o, NEW u, Lacking(tr, h, s),
           Nephews(tr, s, b, i, o), IsRed(tr, o), OuterNephew(tr, u, s, b, i, o)
    PROVE  (\E f : Shape(u, f, NULL, NULL, "left")) /\ ~IsRed(u, u.root)
<1>1. HasSibling(tr, h, s, b) /\ LackFine(tr, h, s)
  <2>1. tr.child[parent][Opp(s)] = b
    BY DEF Nephews
  <2>2. HasSibling(tr, h, s, tr.child[parent][Opp(s)])
    BY SiblingFacts
  <2> QED
    BY <2>1, <2>2, LackingFine
<1>2. /\ parent \in Nodes /\ node \in Places /\ s \in Sides /\ tr.child[parent][s] = node
      /\ parent \in Places
      /\ NULL \notin Nodes /\ Opp(s) \in Sides /\ Opp(s) # s /\ Opp(Opp(s)) = s
      /\ \A x \in Sides : x = s \/ x = Opp(s)
      /\ IsTree(tr) /\ Links(tr) /\ ~IsRed(tr, node) /\ ~IsRed(tr, tr.root)
      /\ Heights(h) /\ ~IsRed(tr, b)
      /\ tr.child[parent][Opp(s)] = b /\ tr.child[b][s] = i /\ tr.child[b][Opp(s)] = o
  BY OppFacts, RbTreeAssumption DEF Lacking, Shape, Places, Nephews
<1>3. /\ b \in Nodes /\ b # node /\ b # parent /\ tr.parent[b] = parent /\ b \in Places
      /\ h \in [Nodes -> Nat] /\ Tall(h, node) \in Nat /\ h[b] = Tall(h, node) + 1
      /\ h[parent] = Bl(tr, parent) + h[b] /\ Linked(tr, parent) /\ Acyclic(tr)
  BY <1>1 DEF HasSibling, Places
<1>4. PICK q : q = tr.parent[parent]
  OBVIOUS
<1>5. Around(tr, parent, Opp(s), b, q, i)
  BY <1>2, <1>3, <1>4, AroundFacts
<1>6. /\ q \in Places /\ i \in Places /\ q # b /\ q # parent /\ i # parent /\ i # b
  BY <1>5 DEF Around
<1>7. /\ o \in Nodes /\ o \in Places /\ o # i /\ tr.parent[o] = b /\ o # b /\ o # parent
      /\ q # o /\ (i # NULL => tr.parent[i] = b)
  <2>1. o \in Nodes /\ o # NULL
    BY <1>2, <1>3 DEF IsRed, IsTree, Places
  <2>2. tr.parent[o] = b /\ o # i /\ (i # NULL => tr.parent[i] = b)
    BY <1>2, <1>3, <2>1 DEF Links
  <2>3. q # o
    <3>1. PICK rank : Ranked(tr, rank)
      BY <1>3 DEF Acyclic
    <3>2. /\ rank[o] < rank[b] /\ rank[b] < rank[parent]
          /\ rank[o] \in Nat /\ rank[b] \in Nat /\ rank[parent] \in Nat
      BY <1>2, <1>3, <2>1, <2>2, <3>1 DEF Ranked
    <3>3. q # NULL => rank[parent] < rank[q]
      BY <1>2, <1>4, <3>1 DEF Ranked
    <3> QED
      BY <2>1, <3>2, <3>3
  <2> QED
    BY <1>3, <1>4, <1>6, <2>1, <2>2, <2>3 DEF Places
<1>8. PICK l : l = Lift(tr, parent, Opp(s), b)
  OBVIOUS
<1>9. PICK c : c = SetParentColour(l, o, b, Black)
  OBVIOUS
<1>10. PICK w : w = SetParent(c, i, parent)
  OBVIOUS
<1>11. Lifted(tr, l, parent, Opp(s), b)
  BY <1>2, <1>3, <1>8, LiftFacts
<1>12. IsTree(l)
  BY <1>11 DEF Lifted
<1>13. ParentColourSet(l, c, o, b, Black)
  BY <1>3, <1>7, <1>9, <1>12, SetParentColourFacts
<1>14. IsTree(c)
  BY <1>13 DEF ParentColourSet
<1>15. ParentSet(c, w, i, parent)
  BY <1>2, <1>6, <1>10, <1>14, SetParentFacts
<1>16. /\ IsTree(w) /\ w.root = tr.root
       /\ \A m \in Nodes, x \in Sides :
             w.child[m][x] = IF m = parent /\ x = Opp(s) THEN i
                             ELSE IF m = b /\ x = Opp(Opp(s)) THEN parent ELSE tr.child[m][x]
       /\ \A m \in Nodes : w.parent[m] = IF m = i THEN parent ELSE tr.parent[m]
       /\ \A m \in Nodes : w.colour[m] = IF m = o THEN Black ELSE tr.colour[m]
  BY <1>2, <1>7, <1>11, <1>13, <1>15 DEF Lifted, ParentColourSet, ParentSet
<1>17. Prepared(tr, w, parent, Opp(s), b, i)
  BY <1>16 DEF Prepared
<1>18. u = RotateSetParents(w, parent, b, Black)
  BY <1>8, <1>9, <1>10 DEF OuterNephew
<1>19. Turned(tr, w, u, parent, Opp(s), b, q, i, Black)
  BY <1>2, <1>5, <1>17, <1>18, TurnFacts
<1>20. IsTree(u) /\ Rotated(tr, u, parent, Opp(s), b, q, i)
  BY <1>19 DEF Turned
<1>21. Links(u)
  BY <1>2, <1>3, <1>5, <1>20, RotatedLinks
<1>22. \A m \in Nodes : u.colour[m] = IF m = parent THEN Black
                                      ELSE IF m = b THEN tr.colour[parent]
                                      ELSE IF m = o THEN Black ELSE tr.colour[m]
  BY <1>2, <1>7, <1>16, <1>19 DEF Turned
<1>23. \A m \in Nodes, x \in Sides :
          u.child[m][x] = IF m = parent THEN IF x = Opp(s) THEN i ELSE tr.child[m][x]
                          ELSE IF m = b THEN IF x = s THEN parent ELSE tr.child[m][x]
                          ELSE IF m = q /\ tr.child[m][x] = parent THEN b ELSE tr.child[m][x]
  BY <1>2, <1>20 DEF Rotated
<1>24. PICK k : k = Tall(h, node)
  OBVIOUS
<1>25. k \in Nat /\ k + 1 \in Nat /\ h[b] = k + 1 /\ h[parent] \in Nat
  BY <1>2, <1>3, <1>24
<1>26. Tall(h, i) = k /\ h[o] = k
  <2>1. h[b] = (Bl(tr, b) + Tall(h, i)) + 0 /\ h[b] = (Bl(tr, b) + Tall(h, o)) + 0
    BY <1>1, <1>2, <1>3 DEF LackFine
  <2>2. Bl(tr, b) = 1 /\ Tall(h, i) \in Nat /\ Tall(h, o) = h[o] /\ h[o] \in Nat
    BY <1>2, <1>3, <1>6, <1>7, OppFacts DEF Bl, Tall, IsRed, IsTree, Places
  <2> QED
    BY <1>25, <2>1, <2>2
<1> DEFINE e == [h EXCEPT ![parent] = k + 1, ![o] = k + 1]
           f == [e EXCEPT ![b] = h[parent], ![b] = h[parent]]
<1>27. Heights(e) /\ Heights(f)
  <2>1. Heights(e)
    BY <1>2, <1>25, NewHeights
  <2> HIDE DEF e
  <2> QED
    BY <1>25, <2>1, NewHeights
<1>28. \A m \in Nodes : f[m] = IF m = b THEN h[parent]
                               ELSE IF m = parent \/ m = o THEN k + 1 ELSE h[m]
  BY <1>2, <1>3, <1>7
<1> HIDE DEF e, f
<1>29. ASSUME NEW m \in Nodes, NEW x \in Sides PROVE Fine(u, f, NULL, NULL, "left", m, x)
  <2> DEFINE z == tr.child[m][x]
             y == u.child[m][x]
  <2>1. z \in Places /\ (z # NULL => z \in Nodes /\ tr.parent[z] = m) /\ m # NULL
    BY <1>2 DEF Links, IsTree, Places
  <2>2. /\ h[m] = (Bl(tr, m) + Tall(h, z)) + (IF m = parent /\ x = s THEN 1 ELSE 0)
        /\ IsRed(tr, m) => ~IsRed(tr, z)
    BY <1>1 DEF LackFine
  <2>3. SUFFICES f[m] = (Bl(u, m) + Tall(f, y)) + 0 /\ (IsRed(u, m) => ~IsRed(u, y))
    BY <2>1 DEF Fine
  <2>4. x = s \/ x = Opp(s)
    BY <1>2
  <2>5. y = IF m = parent THEN IF x = Opp(s) THEN i ELSE z
            ELSE IF m = b THEN IF x = s THEN parent ELSE z
            ELSE IF m = q /\ z = parent THEN b ELSE z
    BY <1>23
  <2>6. CASE m = parent
    <3>1. Bl(u, m) = 1 /\ ~IsRed(u, m) /\ f[m] = k + 1
      BY <1>2, <1>3, <1>22, <1>28, <2>6, OppFacts DEF Bl, IsRed
    <3>2. y \in Places /\ y # parent /\ y # b /\ y # o /\ Tall(h, y) = k
      <4>1. y = i \/ (y = node /\ y = z)
        BY <1>2, <2>4, <2>5, <2>6
      <4>2. z # parent /\ z # o
        BY <1>2, <1>3, <1>4, <1>6, <1>7, <2>1, <2>6
      <4> QED
        BY <1>2, <1>3, <1>6, <1>7, <1>24, <1>26, <4>1, <4>2
    <3>3. Tall(f, y) = k
      BY <1>28, <3>2 DEF Tall, Places
    <3> QED
      BY <1>25, <3>1, <3>3
  <2>7. CASE m = b
    <3>1. y = IF x = s THEN parent ELSE o
      BY <1>2, <1>3, <2>4, <2>5, <2>7
    <3>2. ~IsRed(u, y) /\ Tall(f, y) = k + 1
      BY <1>2, <1>3, <1>7, <1>22, <1>28, <3>1, OppFacts DEF IsRed, Tall
    <3>3. Bl(u, m) = Bl(tr, parent) /\ f[m] = h[parent]
      BY <1>3, <1>22, <1>28, <2>7 DEF Bl
    <3>4. Bl(tr, parent) \in {0, 1}
      BY DEF Bl
    <3> QED
      BY <1>3, <1>25, <3>2, <3>3, <3>4
  <2>8. CASE m = o
    <3>1. y = z /\ z # o /\ z # b /\ z # parent
      <4>1. z # o /\ z # b /\ z # parent
        BY <1>2, <1>3, <1>4, <1>7, <2>1, <2>8
      <4> QED
        BY <1>7, <2>5, <2>8, <4>1
    <3>2. Bl(u, m) = 1 /\ Bl(tr, m) = 0 /\ ~IsRed(u, m) /\ f[m] = k + 1
      BY <1>2, <1>3, <1>7, <1>22, <1>28, <2>8, OppFacts DEF Bl, IsRed
    <3>3. Tall(f, y) = Tall(h, z) /\ Tall(h, z) \in Nat
      BY <1>3, <1>28, <2>1, <3>1 DEF Tall
    <3>4. Tall(h, z) = k
      BY <1>7, <1>25, <1>26, <2>2, <2>8, <3>2, <3>3
    <3> QED
      BY <1>25, <3>2, <3>3, <3>4
  <2>9. CASE m # parent /\ m # b /\ m # o
    <3>1. /\ z # b /\ z # o /\ f[m] = h[m]
          /\ Bl(u, m) = Bl(tr, m) /\ (IsRed(u, m) <=> IsRed(tr, m))
      BY <1>2, <1>3, <1>7, <1>22, <1>28, <2>1, <2>9 DEF Bl, IsRed
    <3>2. h[m] = (Bl(tr, m) + Tall(h, z)) + 0
      BY <2>2, <2>9
    <3>3. CASE z = parent
      <4>1. m = q /\ y = b
        BY <1>2, <1>4, <2>1, <2>5, <2>9, <3>3
      <4>2. Tall(f, y) = Tall(h, z) /\ (IsRed(u, y) <=> IsRed(tr, z))
        BY <1>2, <1>3, <1>22, <1>28, <3>3, <4>1 DEF Tall, IsRed
      <4> QED
        BY <2>2, <3>1, <3>2, <4>2
    <3>4. CASE z # parent
      <4>1. y = z /\ Tall(f, y) = Tall(h, z) /\ (IsRed(u, y) <=> IsRed(tr, z))
        BY <1>22, <1>28, <2>1, <2>5, <2>9, <3>1, <3>4 DEF Tall, IsRed
      <4> QED
        BY <2>2, <3>1, <3>2, <4>1
    <3> QED
      BY <3>3, <3>4
  <2> QED
    BY <2>6, <2>7, <2>8, <2>9
<1>30. Shape(u, f, NULL, NULL, "left")
  BY <1>20, <1>21, <1>27, <1>29 DEF Shape
<1>31. ~IsRed(u, u.root)
  <2>1. u.root = IF q = NULL THEN b ELSE tr.root
    BY <1>20 DEF Rotated
  <2>2. tr.root # NULL => tr.root \in Nodes /\ tr.parent[tr.root] = NULL
    BY <1>2 DEF Links, IsTree, Places
  <2>3. q = NULL => tr.root = parent
    BY <1>3, <1>4 DEF Linked
  <2> QED
    BY <1>2, <1>3, <1>4, <1>7, <1>22, <2>1, <2>2, <2>3, OppFacts DEF IsRed
<1> QED
  BY <1>30, <1>31

\* Cases 3 and 4: the red inner child i of the sibling b goes up twice; its children
\* are a on side s and c on the other.
InnerNephew(tr, tt, u, s, b, i, c) ==
    /\ tt = SetParentColour(SetChild(Lift(tr, b, s, i), parent, Opp(s), i), c, b, Black)
    /\ u = RotateSetParents(SetParent(SetParentColour(Lift(tt, parent, Opp(s), i), b, i, Black),
                                      tt.child[i][s], parent), parent, i, Black)

NephewUp(tr, u, s, b, i, q, a, c) ==
    /\ InnerPlaces(tr, i, b, parent, Opp(s), q, c, a)
    /\ InnerUp(tr, u, i, b, parent, Opp(s), q, c, a)
    /\ \A m \in Nodes : u.colour[m] = IF m = parent THEN Black
                                      ELSE IF m = i THEN tr.colour[parent] ELSE tr.colour[m]

\* Cases 3 and 4 of the erasure: what becomes of the pointers and colours.
LEMMA InnerNephewTurned ==
    ASSUME NEW tr, NEW h, NEW s, NEW b, NEW i, NEW o, NEW a, NEW c, NEW tt, NEW u,
           Lacking(tr, h, s), Nephews(tr, s, b, i, o), IsRed(tr, i),
           tr.child[i][s] = a, tr.child[i][Opp(s)] = c, ~IsRed(tr, c),
           InnerNephew(tr, tt, u, s, b, i, c)
    PROVE  NephewUp(tr, u, s, b, i, tr.parent[parent], a, c)
<1>1. HasSibling(tr, h, s, b)
  <2>1. tr.child[parent][Opp(s)] = b
    BY DEF Nephews
  <2>2. HasSibling(tr, h, s, tr.child[parent][Opp(s)])
    BY SiblingFacts
  <2> QED
    BY <2>1, <2>2
<1>2. /\ parent \in Nodes /\ s \in Sides /\ parent \in Places /\ b \in Nodes /\ b \in Places
      /\ NULL \notin Nodes /\ Opp(s) \in Sides /\ Opp(s) # s /\ Opp(Opp(s)) = s
      /\ \A x \in Sides : x = s \/ x = Opp(s)
      /\ IsTree(tr) /\ Links(tr) /\ Acyclic(tr) /\ Linked(tr, parent)
      /\ tr.child[parent][Opp(s)] = b /\ tr.child[b][s] = i /\ tr.parent[b] = parent
      /\ ~IsRed(tr, b)
  BY <1>1, OppFacts, RbTreeAssumption DEF Lacking, Shape, Places, Nephews, HasSibling
<1>3. i \in Nodes /\ i \in Places /\ a \in Places /\ c \in Places
  <2>1. i \in Nodes
    BY <1>2 DEF IsRed, IsTree, Places
  <2> QED
    BY <1>2, <2>1 DEF IsTree, Places
<1>4. Linked(tr, b)
  BY <1>2 DEF Linked
<1>5. PICK q : q = tr.parent[parent]
  OBVIOUS
<1>6. InnerPlaces(tr, i, b, parent, Opp(s), q, c, a)
  <2>1. InnerPlaces(tr, i, b, parent, Opp(s), tr.parent[parent], tr.child[i][Opp(s)],
                    tr.child[i][Opp(Opp(s))])
    BY <1>2, <1>3, InnerPlacesFacts
  <2> QED
    BY <1>2, <1>5, <2>1
<1>7. /\ parent # b /\ i # b /\ i # parent
      /\ c # i /\ c # b /\ c # parent /\ a # i /\ a # b /\ a # parent /\ (c # NULL => c # a)
  BY <1>6 DEF InnerPlaces
<1>8. PICK d : d = Lift(tr, b, s, i)
  OBVIOUS
<1>9. PICK e : e = SetChild(d, parent, Opp(s), i)
  OBVIOUS
<1>10. Lifted(tr, d, b, s, i)
  BY <1>2, <1>3, <1>7, <1>8, LiftFacts
<1>11. IsTree(d)
  BY <1>10 DEF Lifted
<1>12. ChildSet(d, e, parent, Opp(s), i)
  BY <1>2, <1>3, <1>9, <1>11, SetChildFacts
<1>13. IsTree(e)
  BY <1>12 DEF ChildSet
<1>14. ParentColourSet(e, tt, c, b, Black)
  BY <1>2, <1>3, <1>8, <1>9, <1>13, SetParentColourFacts DEF InnerNephew
<1>15. /\ IsTree(tt) /\ tt.root = tr.root
       /\ \A m \in Nodes, x \in Sides :
             tt.child[m][x] = IF m = parent /\ x = Opp(s) THEN i
                              ELSE IF m = b /\ x = s THEN c
                              ELSE IF m = i /\ x = Opp(s) THEN b ELSE tr.child[m][x]
       /\ \A m \in Nodes : tt.parent[m] = IF m = c THEN b ELSE tr.parent[m]
       /\ \A m \in Nodes : tt.colour[m] = IF m = c THEN Black ELSE tr.colour[m]
  BY <1>2, <1>7, <1>10, <1>12, <1>14 DEF Lifted, ChildSet, ParentColourSet
<1>16. tt.child[i][s] = a
  BY <1>2, <1>3, <1>7, <1>15
<1>17. PICK l : l = Lift(tt, parent, Opp(s), i)
  OBVIOUS
<1>18. PICK k : k = SetParentColour(l, b, i, Black)
  OBVIOUS
<1>19. PICK w : w = SetParent(k, a, parent)
  OBVIOUS
<1>20. Lifted(tt, l, parent, Opp(s), i)
  BY <1>2, <1>3, <1>7, <1>15, <1>17, LiftFacts
<1>21. IsTree(l)
  BY <1>20 DEF Lifted
<1>22. ParentColourSet(l, k, b, i, Black)
  BY <1>2, <1>3, <1>18, <1>21, SetParentColourFacts
<1>23. IsTree(k)
  BY <1>22 DEF ParentColourSet
<1>24. ParentSet(k, w, a, parent)
  BY <1>2, <1>3, <1>19, <1>23, SetParentFacts
<1>25. /\ IsTree(w) /\ w.root = tr.root
       /\ \A m \in Nodes, x \in Sides :
             w.child[m][x] = IF m = parent /\ x = Opp(s) THEN a
                             ELSE IF m = i /\ x = s THEN parent ELSE tt.child[m][x]
       /\ \A m \in Nodes : w.parent[m] = IF m = a THEN parent ELSE IF m = b THEN i
                                         ELSE tt.parent[m]
       /\ \A m \in Nodes : w.colour[m] = IF m = b THEN Black ELSE tt.colour[m]
  BY <1>2, <1>15, <1>16, <1>20, <1>22, <1>24 DEF Lifted, ParentColourSet, ParentSet
<1>26. ASSUME NEW m \in Nodes, NEW x \in Sides
       PROVE  w.child[m][x] = IF m = parent /\ x = Opp(s) THEN a
                              ELSE IF m = i THEN IF x = Opp(s) THEN b ELSE parent
                              ELSE IF m = b /\ x = Opp(Opp(s)) THEN c ELSE tr.child[m][x]
  <2>1. x = s \/ x = Opp(s)
    BY <1>2
  <2> QED
    BY <1>2, <1>7, <1>15, <1>25, <2>1
<1>27. \A m \in Nodes \ {i} : w.parent[m] = IF m = a THEN parent ELSE IF m = b THEN i
                                            ELSE IF m = c THEN b ELSE tr.parent[m]
  BY <1>15, <1>25
<1>28. InnerPrepared(tr, w, i, b, parent, Opp(s), c, a)
  BY <1>25, <1>26, <1>27 DEF InnerPrepared
<1>29. u = RotateSetParents(w, parent, i, Black)
  BY <1>16, <1>17, <1>18, <1>19 DEF InnerNephew
<1>30. InnerUp(tr, u, i, b, parent, Opp(s), q, c, a) /\ Recoloured(w, u, i, parent, Black)
  BY <1>2, <1>4, <1>6, <1>28, <1>29, InnerTurnFacts
<1>31. \A m \in Nodes : u.colour[m] = IF m = parent THEN Black
                                      ELSE IF m = i THEN tr.colour[parent] ELSE tr.colour[m]
  <2>1. tr.colour[b] = Black /\ (c # NULL => tr.colour[c] = Black)
    BY <1>2, <1>3 DEF IsRed, IsTree, Places
  <2> QED
    BY <1>2, <1>3, <1>7, <1>15, <1>25, <1>30, <2>1 DEF Recoloured
<1> QED
  BY <1>5, <1>6, <1>30, <1>31 DEF NephewUp

\* Cases 3 and 4 of the erasure leave the tree in order.
LEMMA InnerNephewStep ==
    ASSUME NEW tr, NEW h, NEW s, NEW b, NEW i, NEW o, NEW a, NEW c, NEW tt, NEW u,
           Lacking(tr, h, s), Nephews(tr, s, b, i, o), IsRed(tr, i), ~IsRed(tr, o),
           tr.child[i][s] = a, tr.child[i][Opp(s)] = c,
           InnerNephew(tr, tt, u, s, b, i, c)
    PROVE  (\E f : Shape(u, f, NULL, NULL, "left")) /\ ~IsRed(u, u.root)
<1>1. HasSibling(tr, h, s, b) /\ LackFine(tr, h, s)
  <2>1. tr.child[parent][Opp(s)] = b
    BY DEF Nephews
  <2>2. HasSibling(tr, h, s, tr.child[parent][Opp(s)])
    BY SiblingFacts
  <2> QED
    BY <2>1, <2>2, LackingFine
<1>2. /\ parent \in Nodes /\ node \in Places /\ s \in Sides /\ tr.child[parent][s] = node
      /\ parent \in Places
      /\ NULL \notin Nodes /\ Opp(s) \in Sides /\ Opp(s) # s /\ Opp(Opp(s)) = s
      /\ \A x \in Sides : x = s \/ x = Opp(s)
      /\ IsTree(tr) /\ Links(tr) /\ ~IsRed(tr, node) /\ ~IsRed(tr, tr.root)
      /\ Heights(h) /\ ~IsRed(tr, b)
      /\ tr.child[parent][Opp(s)] = b /\ tr.child[b][s] = i /\ tr.child[b][Opp(s)] = o
  BY OppFacts, RbTreeAssumption DEF Lacking, Shape, Places, Nephews
<1>3. /\ b \in Nodes /\ b # node /\ tr.parent[b] = parent /\ b \in Places
      /\ h \in [Nodes -> Nat] /\ Tall(h, node) \in Nat /\ h[b] = Tall(h, node) + 1
      /\ h[parent] = Bl(tr, parent) + h[b] /\ Linked(tr, parent)
  BY <1>1 DEF HasSibling, Places
<1>4. i \in Nodes /\ a \in Places /\ c \in Places /\ o \in Places
  <2>1. i \in Nodes
    BY <1>2, <1>3 DEF IsRed, IsTree, Places
  <2> QED
    BY <1>2, <1>3, <2>1 DEF IsTree, Places
<1>5. ~IsRed(tr, a) /\ ~IsRed(tr, c)
  BY <1>1, <1>2, <1>4 DEF LackFine
<1>6. PICK q : q = tr.parent[parent]
  OBVIOUS
<1>7. NephewUp(tr, u, s, b, i, q, a, c)
  BY <1>5, <1>6, InnerNephewTurned
<1>8. /\ tr.parent[i] = b /\ parent # b /\ i # b /\ i # parent /\ q # parent /\ q # b /\ q # i
      /\ c # i /\ c # b /\ c # parent /\ a # i /\ a # b /\ a # parent
  BY <1>7 DEF NephewUp, InnerPlaces
<1>9. /\ IsTree(u) /\ Links(u) /\ u.root = (IF q = NULL THEN i ELSE tr.root)
      /\ \A m \in Nodes, x \in Sides :
            u.child[m][x] = IF m = parent THEN IF x = Opp(s) THEN a ELSE tr.child[m][x]
                            ELSE IF m = i THEN IF x = Opp(s) THEN b ELSE parent
                            ELSE IF m = b THEN IF x = s THEN c ELSE tr.child[m][x]
                            ELSE IF m = q /\ tr.child[m][x] = parent THEN i
                            ELSE tr.child[m][x]
      /\ \A m \in Nodes : u.colour[m] = IF m = parent THEN Black
                                        ELSE IF m = i THEN tr.colour[parent] ELSE tr.colour[m]
  BY <1>2, <1>7 DEF NephewUp, InnerUp
<1>10. PICK k : k = Tall(h, node)
  OBVIOUS
<1>11. k \in Nat /\ k + 1 \in Nat /\ h[b] = k + 1 /\ h[parent] \in Nat
  BY <1>2, <1>3, <1>10
<1>12. h[i] = k /\ Tall(h, o) = k /\ Bl(tr, b) = 1
  <2>1. h[b] = (Bl(tr, b) + Tall(h, i)) + 0 /\ h[b] = (Bl(tr, b) + Tall(h, o)) + 0
    BY <1>1, <1>2, <1>3, <1>8 DEF LackFine
  <2>2. Bl(tr, b) = 1 /\ Tall(h, o) \in Nat /\ Tall(h, i) = h[i] /\ h[i] \in Nat
    BY <1>2, <1>3, <1>4, OppFacts DEF Bl, Tall, IsRed, IsTree, Places
  <2> QED
    BY <1>11, <2>1, <2>2
<1>13. Tall(h, a) = k /\ Tall(h, c) = k
  <2>1. h[i] = (Bl(tr, i) + Tall(h, a)) + 0 /\ h[i] = (Bl(tr, i) + Tall(h, c)) + 0
    BY <1>1, <1>2, <1>4, <1>8 DEF LackFine
  <2>2. Bl(tr, i) = 0 /\ Tall(h, a) \in Nat /\ Tall(h, c) \in Nat
    BY <1>3, <1>4, OppFacts DEF Bl, Tall, IsRed, Places
  <2> QED
    BY <1>11, <1>12, <2>1, <2>2
<1> DEFINE f == [h EXCEPT ![parent] = k + 1, ![i] = h[parent]]
<1>14. Heights(f)
  BY <1>2, <1>11, NewHeights
<1>15. \A m \in Nodes : f[m] = IF m = i THEN h[parent] ELSE IF m = parent THEN k + 1 ELSE h[m]
  BY <1>2, <1>3, <1>8
<1> HIDE DEF f
<1>16. ASSUME NEW m \in Nodes, NEW x \in Sides PROVE Fine(u, f, NULL, NULL, "left", m, x)
  <2> DEFINE z == tr.child[m][x]
             y == u.child[m][x]
  <2>1. z \in Places /\ (z # NULL => z \in Nodes /\ tr.parent[z] = m) /\ m # NULL
    BY <1>2 DEF Links, IsTree, Places
  <2>2. /\ h[m] = (Bl(tr, m) + Tall(h, z)) + (IF m = parent /\ x = s THEN 1 ELSE 0)
        /\ IsRed(tr, m) => ~IsRed(tr, z)
    BY <1>1 DEF LackFine
  <2>3. SUFFICES f[m] = (Bl(u, m) + Tall(f, y)) + 0 /\ (IsRed(u, m) => ~IsRed(u, y))
    BY <2>1 DEF Fine
  <2>4. x = s \/ x = Opp(s)
    BY <1>2
  <2>5. y = IF m = parent THEN IF x = Opp(s) THEN a ELSE z
            ELSE IF m = i THEN IF x = Opp(s) THEN b ELSE parent
            ELSE IF m = b THEN IF x = s THEN c ELSE z
            ELSE IF m = q /\ z = parent THEN i ELSE z
    BY <1>9
  <2>6. CASE m = parent
    <3>1. Bl(u, m) = 1 /\ ~IsRed(u, m) /\ f[m] = k + 1
      BY <1>2, <1>8, <1>9, <1>15, <2>6, OppFacts DEF Bl, IsRed
    <3>2. y \in Places /\ y # parent /\ y # i /\ Tall(h, y) = k
      <4>1. y = a \/ (y = node /\ y = z)
        BY <1>2, <2>4, <2>5, <2>6
      <4>2. z # parent /\ z # i
        BY <1>2, <1>4, <1>6, <1>8, <2>1, <2>6
      <4> QED
        BY <1>2, <1>4, <1>8, <1>10, <1>13, <4>1, <4>2
    <3>3. Tall(f, y) = k
      BY <1>15, <3>2 DEF Tall, Places
    <3> QED
      BY <1>11, <3>1, <3>3
  <2>7. CASE m = i
    <3>1. y = b \/ y = parent
      BY <1>8, <2>5, <2>7
    <3>2. ~IsRed(u, y) /\ Tall(f, y) = k + 1
      BY <1>2, <1>3, <1>8, <1>9, <1>11, <1>15, <3>1, OppFacts DEF IsRed, Tall
    <3>3. Bl(u, m) = Bl(tr, parent) /\ f[m] = h[parent]
      BY <1>4, <1>8, <1>9, <1>15, <2>7 DEF Bl
    <3>4. Bl(tr, parent) \in {0, 1}
      BY DEF Bl
    <3> QED
      BY <1>3, <1>11, <3>2, <3>3, <3>4
  <2>8. CASE m = b
    <3>1. y = c \/ (y = o /\ y = z)
      BY <1>2, <1>8, <2>4, <2>5, <2>8
    <3>2. y \in Places /\ y # parent /\ y # i /\ Tall(h, y) = k
      <4>1. z = parent => q = b
        BY <1>2, <1>6, <2>1, <2>8
      <4>2. o # i
        <5>1. o # NULL => o # i
          BY <1>2, <1>3 DEF Links
        <5> QED
          BY <1>2, <1>4, <5>1
      <4> QED
        BY <1>4, <1>8, <1>12, <1>13, <3>1, <4>1, <4>2
    <3>3. Tall(f, y) = k /\ f[m] = k + 1 /\ Bl(u, m) = 1 /\ ~IsRed(u, m)
      BY <1>2, <1>3, <1>8, <1>9, <1>11, <1>12, <1>15, <2>8, <3>2 DEF Tall, Places, Bl, IsRed
    <3> QED
      BY <1>11, <3>3
  <2>9. CASE m # parent /\ m # b /\ m # i
    <3>1. z # i /\ f[m] = h[m] /\ Bl(u, m) = Bl(tr, m) /\ (IsRed(u, m) <=> IsRed(tr, m))
      BY <1>2, <1>4, <1>8, <1>9, <1>15, <2>1, <2>9 DEF Bl, IsRed
    <3>2. h[m] = (Bl(tr, m) + Tall(h, z)) + 0
      BY <2>2, <2>9
    <3>3. CASE z = parent
      <4>1. m = q /\ y = i
        BY <1>2, <1>6, <2>1, <2>5, <2>9, <3>3
      <4>2. Tall(f, y) = Tall(h, z) /\ (IsRed(u, y) <=> IsRed(tr, z))
        BY <1>2, <1>4, <1>8, <1>9, <1>15, <3>3, <4>1 DEF Tall, IsRed
      <4> QED
        BY <2>2, <3>1, <3>2, <4>2
    <3>4. CASE z # parent
      <4>1. y = z /\ Tall(f, y) = Tall(h, z) /\ (IsRed(u, y) <=> IsRed(tr, z))
        BY <1>9, <1>15, <2>1, <2>5, <2>9, <3>1, <3>4 DEF Tall, IsRed
      <4> QED
        BY <2>2, <3>1, <3>2, <4>1
    <3> QED
      BY <3>3, <3>4
  <2> QED
    BY <2>6, <2>7, <2>8, <2>9
<1>17. Shape(u, f, NULL, NULL, "left")
  BY <1>9, <1>14, <1>16 DEF Shape
<1>18. ~IsRed(u, u.root)
  <2>1. tr.root # NULL => tr.root \in Nodes /\ tr.parent[tr.root] = NULL
    BY <1>2 DEF Links, IsTree, Places
  <2>2. q = NULL => tr.root = parent
    BY <1>3, <1>6 DEF Linked
  <2> QED
    BY <1>2, <1>3, <1>4, <1>6, <1>8, <1>9, <2>1, <2>2, OppFacts DEF IsRed
<1> QED
  BY <1>17, <1>18

\* After case 1 there is a tree with the same lack and a black sibling b.
BlackSibling(tr, s, b) ==
    /\ RedSiblingUp(s) = [tree |-> tr, sibling |-> b]
    /\ tr.child[parent][Opp(s)] = b /\ ~IsRed(tr, b)
    /\ \E h : Lacking(tr, h, s)

\* After case 1 the sibling is black, whether it was red or not.
LEMMA BlackSiblingExists ==
    ASSUME op = "erase", TreeInv
    PROVE  \E tr, b : BlackSibling(tr, NodeSide, b)
<1>1. PICK s : s = NodeSide
  OBVIOUS
<1>2. PICK h : Lacking(t, h, s)
  BY <1>1, ErasingLacks
<1>3. PICK sib : sib = t.child[parent][Opp(s)]
  OBVIOUS
<1>4. CASE ~IsRed(t, sib)
  <2>1. RedSiblingUp(s) = [tree |-> t, sibling |-> sib]
    BY <1>3, <1>4 DEF RedSiblingUp
  <2>2. BlackSibling(t, s, sib)
    BY <1>2, <1>3, <1>4, <2>1 DEF BlackSibling
  <2> QED
    BY <1>1, <2>2
<1>5. CASE IsRed(t, sib)
  <2>1. PICK i : i = t.child[sib][s]
    OBVIOUS
  <2>2. PICK u : u = RotateSetParents(SetParentColour(Lift(t, parent, Opp(s), sib), i, parent, Black),
                                      parent, sib, Red)
    OBVIOUS
  <2>3. SiblingUp(t, u, s, sib, i)
    BY <2>2 DEF SiblingUp
  <2>4. (\E f : Lacking(u, f, s)) /\ u.child[parent][Opp(s)] = i /\ ~IsRed(u, i)
    <3>1. SiblingRaised(u, s, i)
      BY <1>2, <1>3, <1>5, <2>1, <2>3, RedSiblingStep
    <3> QED
      BY <3>1 DEF SiblingRaised
  <2>5. RedSiblingUp(s) = [tree |-> u, sibling |-> i]
    BY <1>3, <1>5, <2>1, <2>2 DEF RedSiblingUp
  <2>6. BlackSibling(u, s, i)
    BY <2>4, <2>5 DEF BlackSibling
  <2> QED
    BY <1>1, <2>6
<1> QED
  BY <1>4, <1>5

\* A round that colours the sibling red keeps the invariant.
LEMMA EraseFlipStep == TreeInv /\ EraseFlip => TreeInv'
<1> SUFFICES ASSUME TreeInv, EraseFlip PROVE TreeInv'
  OBVIOUS
<1>1. PICK s : s = NodeSide
  OBVIOUS
<1>2. PICK tr, b : BlackSibling(tr, s, b)
  BY <1>1, BlackSiblingExists DEF EraseFlip
<1>3. PICK h : Lacking(tr, h, s)
  BY <1>2 DEF BlackSibling
<1>4. RedSiblingUp(s).tree = tr /\ RedSiblingUp(s).sibling = b
  BY <1>2 DEF BlackSibling
<1>5. PICK a : a = SetParentColour(tr, b, parent, Red)
  OBVIOUS
<1>6. /\ \A x \in Sides : ~IsRed(tr, tr.child[b][x])
      /\ t' = IF IsRed(a, parent) THEN SetParentColour(a, parent, a.parent[parent], Black) ELSE a
      /\ IF FlipContinues(a)
         THEN node' = parent /\ parent' = a.parent[parent] /\ UNCHANGED op
         ELSE Done
      /\ op = "erase"
  BY <1>1, <1>4, <1>5 DEF EraseFlip
<1>7. HasSibling(tr, h, s, b) /\ tr.child[parent][Opp(s)] = b /\ ~IsRed(tr, b)
  BY <1>2, <1>3, SiblingFacts DEF BlackSibling
<1>8. /\ b \in Nodes /\ b # parent /\ tr.parent[b] = parent /\ parent \in Nodes /\ IsTree(tr)
      /\ b \in Places /\ parent \in Places /\ NULL \notin Nodes /\ Red \in {Red, Black}
  BY <1>3, <1>7 DEF HasSibling, Lacking, Shape, Places
<1>9. ParentColourSet(tr, a, b, parent, Red)
  BY <1>5, <1>8, SetParentColourFacts
<1>10. /\ IsTree(a) /\ a.child = tr.child /\ a.root = tr.root
       /\ \A m \in Nodes : a.parent[m] = tr.parent[m]
       /\ \A m \in Nodes : a.colour[m] = IF m = b THEN Red ELSE tr.colour[m]
  BY <1>8, <1>9 DEF ParentColourSet
<1>11. IsRed(a, parent) <=> IsRed(tr, parent)
  BY <1>8, <1>10 DEF IsRed
<1>12. PICK u : u = t'
  OBVIOUS
<1>13. Flipped(tr, u, b)
  <2>1. CASE IsRed(a, parent)
    <3>1. a.parent[parent] \in Places /\ Black \in {Red, Black}
      BY <1>8, <1>10 DEF IsTree
    <3>2. ParentColourSet(a, u, parent, a.parent[parent], Black)
      BY <1>6, <1>8, <1>10, <1>12, <2>1, <3>1, SetParentColourFacts
    <3>3. /\ IsTree(u) /\ u.child = tr.child /\ u.root = tr.root
          /\ \A m \in Nodes : u.parent[m] = tr.parent[m]
          /\ \A m \in Nodes : u.colour[m] = IF m = b THEN Red ELSE IF m = parent THEN Black
                                            ELSE tr.colour[m]
      BY <1>8, <1>10, <3>2 DEF ParentColourSet
    <3>4. u.parent = tr.parent
      BY <1>8, <3>3 DEF IsTree
    <3> QED
      BY <3>3, <3>4 DEF Flipped
  <2>2. CASE ~IsRed(a, parent)
    <3>1. u = a /\ tr.colour[parent] = Black
      BY <1>6, <1>8, <1>11, <1>12, <2>2 DEF IsRed, IsTree
    <3>2. a.parent = tr.parent
      BY <1>8, <1>10 DEF IsTree
    <3> QED
      BY <1>8, <1>10, <3>1, <3>2 DEF Flipped
  <2> QED
    BY <2>1, <2>2
<1>14. PICK q : q = tr.parent[parent]
  OBVIOUS
<1>15. AfterFlip(tr, u, q) /\ ~IsRed(u, u.root)
  BY <1>3, <1>6, <1>7, <1>13, <1>14, FlipStep
<1>16. a.parent[parent] = q /\ (FlipContinues(a) <=> ~IsRed(tr, parent) /\ q # NULL)
  BY <1>8, <1>10, <1>11, <1>14 DEF FlipContinues
<1>17. CASE q = NULL \/ IsRed(tr, parent)
  <2>1. op' = "idle"
    BY <1>6, <1>16, <1>17 DEF Done
  <2>2. \E f : Shape(u, f, NULL, NULL, "left")
    BY <1>8, <1>15, <1>17 DEF AfterFlip
  <2> QED
    BY <1>12, <1>15, <2>1, <2>2 DEF TreeInv, Idle
<1>18. CASE q # NULL /\ ~IsRed(tr, parent)
  <2>1. op' = "erase" /\ node' = parent /\ parent' = q
    BY <1>6, <1>16, <1>18
  <2>2. q \in Nodes /\ \E y \in Sides : tr.child[q][y] = parent /\ \E f : Shape(u, f, NULL, q, y)
    BY <1>15, <1>18 DEF AfterFlip
  <2>3. PICK y \in Sides : tr.child[q][y] = parent /\ \E f : Shape(u, f, NULL, q, y)
    BY <2>2
  <2>4. u.child[q][y] = parent /\ ~IsRed(u, parent)
    BY <1>8, <1>13, <2>3, OppFacts DEF Flipped, IsRed
  <2>5. Erasing'
    BY <1>8, <1>12, <1>15, <2>1, <2>2, <2>3, <2>4 DEF Erasing
  <2> QED
    BY <2>1, <2>5 DEF TreeInv
<1> QED
  BY <1>17, <1>18

\* A round that ends in a rotation keeps the invariant.
LEMMA EraseRotateStep == TreeInv /\ EraseRotate => TreeInv'
<1> SUFFICES ASSUME TreeInv, EraseRotate PROVE TreeInv'
  OBVIOUS
<1>1. PICK s : s = NodeSide
  OBVIOUS
<1>2. PICK tr, b : BlackSibling(tr, s, b)
  BY <1>1, BlackSiblingExists DEF EraseRotate
<1>3. PICK h : Lacking(tr, h, s)
  BY <1>2 DEF BlackSibling
<1>4. RedSiblingUp(s) = [tree |-> tr, sibling |-> b]
  BY <1>2 DEF BlackSibling
<1>5. PICK i, o : tr.child[b][s] = i /\ tr.child[b][Opp(s)] = o
  OBVIOUS
<1>6. Nephews(tr, s, b, i, o)
  BY <1>2, <1>5 DEF BlackSibling, Nephews
<1>7. PICK u : u = t'
  OBVIOUS
<1>8. op' = "idle"
  BY DEF EraseRotate, Done
<1>9. IsRed(tr, i) \/ IsRed(tr, o)
  <2>1. PICK side \in Sides : IsRed(tr, tr.child[b][side])
    BY <1>1, <1>4 DEF EraseRotate
  <2>2. side = s \/ side = Opp(s)
    BY <1>3, OppFacts DEF Lacking
  <2> QED
    BY <1>5, <2>1, <2>2
<1>10. CASE IsRed(tr, o)
  <2>1. InnerNephewOut(tr, b, s) = [tree |-> tr, sibling |-> b, outer |-> o]
    BY <1>5, <1>10 DEF InnerNephewOut
  <2>2. u = RotateSetParents(SetParent(SetParentColour(Lift(tr, parent, Opp(s), b), o, b, Black),
                                       i, parent), parent, b, Black)
    BY <1>1, <1>4, <1>5, <1>7, <2>1 DEF EraseRotate
  <2>3. OuterNephew(tr, u, s, b, i, o)
    BY <2>2 DEF OuterNephew
  <2>4. (\E f : Shape(u, f, NULL, NULL, "left")) /\ ~IsRed(u, u.root)
    BY <1>3, <1>6, <1>10, <2>3, OuterNephewStep
  <2> QED
    BY <1>7, <1>8, <2>4 DEF TreeInv, Idle
<1>11. CASE ~IsRed(tr, o)
  <2>1. PICK a, c : tr.child[i][s] = a /\ tr.child[i][Opp(s)] = c
    OBVIOUS
  <2>2. PICK tt : tt = SetParentColour(SetChild(Lift(tr, b, s, i), parent, Opp(s), i), c, b, Black)
    OBVIOUS
  <2>3. InnerNephewOut(tr, b, s) = [tree |-> tt, sibling |-> i, outer |-> b]
    BY <1>5, <1>11, <2>1, <2>2 DEF InnerNephewOut
  <2>4. u = RotateSetParents(SetParent(SetParentColour(Lift(tt, parent, Opp(s), i), b, i, Black),
                                       tt.child[i][s], parent), parent, i, Black)
    BY <1>1, <1>4, <1>7, <2>3 DEF EraseRotate
  <2>5. InnerNephew(tr, tt, u, s, b, i, c)
    BY <2>2, <2>4 DEF InnerNephew
  <2>6. (\E f : Shape(u, f, NULL, NULL, "left")) /\ ~IsRed(u, u.root)
    BY <1>3, <1>6, <1>9, <1>11, <2>1, <2>5, InnerNephewStep
  <2> QED
    BY <1>7, <1>8, <2>6 DEF TreeInv, Idle
<1> QED
  BY <1>10, <1>11

-----------------------------------------------------------------------------
(* Taking a node out: _hev_rbtree_erase. *)

\* n has at most one child, c.
LoneChild(tr, n, c, p) ==
    /\ n \in Nodes /\ Linked(tr, n) /\ tr.parent[n] = p
    /\ \E y \in Sides : tr.child[n][y] = c /\ tr.child[n][Opp(y)] = NULL

\* n is out, and c has its place and its colour.
TakenOut(tr, u, n, c, p) ==
    /\ IsTree(u)
    /\ \A m \in Nodes, x \in Sides :
          u.child[m][x] = IF m = n THEN NULL
                          ELSE IF m = p /\ tr.child[m][x] = n THEN c ELSE tr.child[m][x]
    /\ \A m \in Nodes : u.parent[m] = IF m = n THEN NULL ELSE IF m = c THEN p ELSE tr.parent[m]
    /\ \A m \in Nodes : u.colour[m] = IF m = n THEN Red ELSE IF m = c THEN tr.colour[n]
                                      ELSE tr.colour[m]
    /\ u.root = IF p = NULL THEN c ELSE tr.root

\* The tree is in order, or a black node is missing where r has no child.
AfterUnlink(u, r) ==
    /\ ~IsRed(u, u.root)
    /\ r = NULL => \E f : Shape(u, f, NULL, NULL, "left")
    /\ r # NULL => r \in Nodes /\ \E y \in Sides : u.child[r][y] = NULL /\ \E f : Shape(u, f, NULL, r, y)

\* The places around a node with at most one child.
AroundLone(tr, n, c, p) ==
    /\ n \in Nodes /\ c \in Places /\ p \in Places /\ NULL \notin Nodes
    /\ n # p /\ c # n /\ (c # NULL => c # p /\ tr.parent[c] = n)
    /\ \A x \in Sides : tr.child[n][x] = c \/ tr.child[n][x] = NULL
    /\ \A m \in Nodes, x \in Sides : tr.child[m][x] = n => m = p
    /\ (p = NULL <=> tr.root = n)

\* The places around a node with at most one child are distinct.
LEMMA AroundLoneFacts ==
    ASSUME NEW tr, NEW n, NEW c, NEW p, IsTree(tr), Links(tr), Acyclic(tr),
           LoneChild(tr, n, c, p)
    PROVE  AroundLone(tr, n, c, p)
<1>1. PICK y \in Sides : tr.child[n][y] = c /\ tr.child[n][Opp(y)] = NULL
  BY DEF LoneChild
<1>2. /\ n \in Nodes /\ Linked(tr, n) /\ tr.parent[n] = p /\ NULL \notin Nodes
      /\ c \in Places /\ p \in Places
  BY <1>1, RbTreeAssumption DEF LoneChild, IsTree
<1>3. c # NULL => tr.parent[c] = n
  BY <1>1, <1>2 DEF Links
<1>4. PICK rank : Ranked(tr, rank)
  BY DEF Acyclic
<1>5. /\ rank[n] \in Nat /\ (p # NULL => rank[n] < rank[p] /\ rank[p] \in Nat)
      /\ c # NULL => rank[c] < rank[n] /\ rank[c] \in Nat
  BY <1>2, <1>3, <1>4 DEF Ranked, Places
<1>6. n # p /\ c # n /\ (c # NULL => c # p)
  BY <1>2, <1>5
<1>7. \A x \in Sides : tr.child[n][x] = c \/ tr.child[n][x] = NULL
  BY <1>1, OppFacts
<1>8. \A m \in Nodes, x \in Sides : tr.child[m][x] = n => m = p
  BY <1>2 DEF Links
<1>9. p = NULL <=> tr.root = n
  BY <1>2 DEF Linked, Links
<1> QED
  BY <1>2, <1>3, <1>6, <1>7, <1>8, <1>9 DEF AroundLone

\* Taking such a node out keeps parents and children in agreement.
LEMMA TakenOutLinks ==
    ASSUME NEW tr, NEW u, NEW n, NEW c, NEW p, IsTree(tr), Links(tr),
           AroundLone(tr, n, c, p), LoneChild(tr, n, c, p), TakenOut(tr, u, n, c, p)
    PROVE  Links(u)
<1>1. /\ n \in Nodes /\ c \in Places /\ p \in Places /\ NULL \notin Nodes
      /\ n # p /\ c # n /\ (c # NULL => c # p /\ tr.parent[c] = n)
      /\ \A x \in Sides : tr.child[n][x] = c \/ tr.child[n][x] = NULL
      /\ \A m \in Nodes, x \in Sides : tr.child[m][x] = n => m = p
      /\ (p = NULL <=> tr.root = n) /\ tr.parent[n] = p /\ Linked(tr, n)
  BY DEF AroundLone, LoneChild
<1>2. \A m \in Nodes, x \in Sides :
          u.child[m][x] = IF m = n THEN NULL
                          ELSE IF m = p /\ tr.child[m][x] = n THEN c ELSE tr.child[m][x]
  BY DEF TakenOut
<1>3. \A m \in Nodes : u.parent[m] = IF m = n THEN NULL ELSE IF m = c THEN p ELSE tr.parent[m]
  BY DEF TakenOut
<1>4. u.root = IF p = NULL THEN c ELSE tr.root
  BY DEF TakenOut
<1>5. ASSUME NEW m \in Nodes, NEW x \in Sides, u.child[m][x] # NULL
      PROVE  u.parent[u.child[m][x]] = m /\ u.child[m][Opp(x)] # u.child[m][x]
  <2> DEFINE z == tr.child[m][x]
             w == tr.child[m][Opp(x)]
  <2>1. /\ z \in Places /\ w \in Places /\ Opp(x) \in Sides
        /\ (z # NULL => z \in Nodes /\ tr.parent[z] = m /\ w # z)
        /\ (w # NULL => w \in Nodes /\ tr.parent[w] = m)
    <3>1. Opp(x) \in Sides
      BY OppFacts
    <3> QED
      BY <3>1 DEF Links, IsTree, Places
  <2>2. /\ m # n
        /\ u.child[m][x] = IF m = p /\ z = n THEN c ELSE z
        /\ u.child[m][Opp(x)] = IF m = p /\ w = n THEN c ELSE w
    BY <1>2, <1>5, <2>1
  <2>3. (z = n => m = p) /\ (w = n => m = p)
    BY <1>1, <2>1
  <2> HIDE DEF z, w
  <2>4. CASE z = n
    <3>1. u.child[m][x] = c /\ c \in Nodes /\ u.child[m][Opp(x)] = w /\ m = p
      BY <1>1, <1>5, <2>1, <2>2, <2>3, <2>4 DEF Places
    <3>2. w # c
      BY <1>1, <2>1, <2>2, <3>1
    <3> QED
      BY <1>1, <1>3, <3>1, <3>2
  <2>5. CASE z # n
    <3>1. u.child[m][x] = z /\ z \in Nodes /\ z # c
      BY <1>1, <1>5, <2>1, <2>2, <2>5
    <3> QED
      BY <1>1, <1>3, <2>1, <2>2, <2>5, <3>1
  <2> QED
    BY <2>4, <2>5
<1>6. \A m \in Nodes : m # n /\ Linked(tr, m) => Linked(u, m)
  BY <1>1, <1>3, <1>4 DEF Linked
<1>7. ASSUME NEW m \in Nodes, u.parent[m] # NULL
      PROVE  /\ \E x \in Sides : u.child[u.parent[m]][x] = m
             /\ Linked(u, u.parent[m])
  <2>1. CASE m = c
    <3>1. u.parent[m] = p /\ p # NULL /\ p \in Nodes
      BY <1>1, <1>3, <1>7, <2>1 DEF Places
    <3>2. PICK x \in Sides : tr.child[p][x] = n
      BY <1>1, <3>1 DEF Links
    <3>3. u.child[p][x] = m
      BY <1>1, <1>2, <2>1, <3>1, <3>2
    <3>4. Linked(tr, p)
      BY <1>1, <3>1 DEF Links
    <3> QED
      BY <1>1, <1>6, <3>1, <3>3, <3>4
  <2>2. CASE m # c
    <3> DEFINE r == tr.parent[m]
    <3>1. u.parent[m] = r /\ m # n /\ r # NULL /\ r \in Nodes
      BY <1>1, <1>3, <1>7, <2>2 DEF IsTree, Places
    <3>2. PICK x \in Sides : tr.child[r][x] = m
      BY <3>1 DEF Links
    <3>3. Linked(tr, r)
      BY <3>1 DEF Links
    <3> HIDE DEF r
    <3>4. r # n
      BY <1>1, <2>2, <3>2
    <3>5. u.child[r][x] = m
      BY <1>2, <3>1, <3>2, <3>4
    <3> QED
      BY <1>6, <3>1, <3>3, <3>4, <3>5
  <2> QED
    BY <2>1, <2>2
<1>8. u.root # NULL => u.parent[u.root] = NULL
  <2>1. CASE p = NULL
    BY <1>1, <1>3, <1>4, <2>1 DEF Places
  <2>2. CASE p # NULL /\ tr.root # NULL
    <3>1. tr.parent[tr.root] = NULL /\ tr.root \in Nodes
      BY <2>2 DEF Links, IsTree, Places
    <3> QED
      BY <1>1, <1>3, <1>4, <2>2, <3>1
  <2> QED
    BY <1>4, <2>1, <2>2
<1> QED
  BY <1>5, <1>7, <1>8 DEF Links

\* A lone child is red, and its parent black.
LoneHeights(tr, h, n, c) ==
    /\ Bl(tr, n) \in {0, 1} /\ h[n] = Bl(tr, n) /\ Tall(h, c) = 0
    /\ c # NULL => /\ tr.colour[c] = Red /\ h[c] = 0 /\ tr.colour[n] = Black /\ h[n] = 1
                   /\ Bl(tr, c) = 0

\* The heights of a node with at most one child and of that child.
LEMMA LoneHeightsFacts ==
    ASSUME NEW tr, NEW h, NEW n, NEW c, NEW p,
           Shape(tr, h, NULL, NULL, "left"), LoneChild(tr, n, c, p)
    PROVE  LoneHeights(tr, h, n, c)
<1>1. IsTree(tr) /\ Links(tr) /\ h \in [Nodes -> Nat]
  BY DEF Shape, Heights
<1>3. n \in Nodes /\ c \in Places /\ NULL \notin Nodes
  BY <1>1, RbTreeAssumption DEF LoneChild, IsTree
<1>5. \A m \in Nodes, x \in Sides :
          /\ h[m] = (Bl(tr, m) + Tall(h, tr.child[m][x])) + 0
          /\ IsRed(tr, m) => ~IsRed(tr, tr.child[m][x])
  <2> SUFFICES ASSUME NEW m \in Nodes, NEW x \in Sides
               PROVE  /\ h[m] = (Bl(tr, m) + Tall(h, tr.child[m][x])) + 0
                      /\ IsRed(tr, m) => ~IsRed(tr, tr.child[m][x])
    OBVIOUS
  <2>1. Fine(tr, h, NULL, NULL, "left", m, x) /\ m # NULL
    BY <1>3 DEF Shape
  <2> QED
    BY <2>1 DEF Fine, IsRed
<1>6. Bl(tr, n) \in {0, 1} /\ h[n] = Bl(tr, n) /\ Tall(h, c) = 0
  <2>1. PICK y \in Sides : tr.child[n][y] = c /\ tr.child[n][Opp(y)] = NULL
    BY DEF LoneChild
  <2>2. h[n] = (Bl(tr, n) + Tall(h, c)) + 0 /\ h[n] = (Bl(tr, n) + Tall(h, NULL)) + 0
    BY <1>3, <1>5, <2>1, OppFacts
  <2>3. Bl(tr, n) \in {0, 1} /\ Tall(h, NULL) = 0 /\ Tall(h, c) \in Nat
    BY <1>1, <1>3 DEF Bl, Tall, Places
  <2> QED
    BY <2>2, <2>3
<1>7. c # NULL => /\ tr.colour[c] = Red /\ h[c] = 0 /\ tr.colour[n] = Black /\ h[n] = 1
                  /\ Bl(tr, c) = 0
  <2> SUFFICES ASSUME c # NULL
               PROVE  /\ tr.colour[c] = Red /\ h[c] = 0 /\ tr.colour[n] = Black /\ h[n] = 1
                      /\ Bl(tr, c) = 0
    OBVIOUS
  <2>1. c \in Nodes /\ h[c] = 0
    BY <1>3, <1>6 DEF Places, Tall
  <2>2. PICK x : x \in Sides
    BY DEF Sides
  <2>3. h[c] = (Bl(tr, c) + Tall(h, tr.child[c][x])) + 0 /\ Tall(h, tr.child[c][x]) \in Nat
    BY <1>1, <1>5, <2>1, <2>2 DEF Tall, IsTree, Places
  <2>4. Bl(tr, c) = 0
    BY <2>1, <2>3 DEF Bl
  <2>5. tr.colour[c] = Red
    BY <1>1, <2>1, <2>4 DEF Bl, IsTree
  <2>6. PICK y \in Sides : tr.child[n][y] = c
    BY DEF LoneChild
  <2>7. tr.colour[n] = Black
    BY <1>1, <1>3, <1>5, <2>5, <2>6 DEF IsRed, IsTree
  <2>8. Bl(tr, n) = 1
    BY <2>7 DEF Bl
  <2> QED
    BY <1>6, <2>1, <2>4, <2>5, <2>7, <2>8
<1> QED
  BY <1>6, <1>7 DEF LoneHeights

\* Without the node the tree is in order, or a black node is missing at its parent.
LEMMA TakenOutStep ==
    ASSUME NEW tr, NEW h, NEW u, NEW n, NEW c, NEW p, NEW r,
           Shape(tr, h, NULL, NULL, "left"), ~IsRed(tr, tr.root),
           LoneChild(tr, n, c, p), TakenOut(tr, u, n, c, p),
           r = IF c = NULL /\ tr.colour[n] = Black THEN p ELSE NULL
    PROVE  AfterUnlink(u, r)
<1>1. IsTree(tr) /\ Links(tr) /\ Acyclic(tr) /\ Heights(h) /\ h \in [Nodes -> Nat]
  BY ShapeAcyclic DEF Shape, Heights
<1>2. AroundLone(tr, n, c, p)
  BY <1>1, AroundLoneFacts
<1>3. /\ n \in Nodes /\ c \in Places /\ p \in Places /\ NULL \notin Nodes
      /\ n # p /\ c # n /\ (c # NULL => c # p /\ tr.parent[c] = n)
      /\ \A x \in Sides : tr.child[n][x] = c \/ tr.child[n][x] = NULL
      /\ \A m \in Nodes, x \in Sides : tr.child[m][x] = n => m = p
      /\ (p = NULL <=> tr.root = n) /\ tr.parent[n] = p
  BY <1>2 DEF AroundLone, LoneChild
<1>4. Links(u)
  BY <1>1, <1>2, TakenOutLinks
<1>5. \A m \in Nodes, x \in Sides :
          /\ h[m] = (Bl(tr, m) + Tall(h, tr.child[m][x])) + 0
          /\ IsRed(tr, m) => ~IsRed(tr, tr.child[m][x])
  <2> SUFFICES ASSUME NEW m \in Nodes, NEW x \in Sides
               PROVE  /\ h[m] = (Bl(tr, m) + Tall(h, tr.child[m][x])) + 0
                      /\ IsRed(tr, m) => ~IsRed(tr, tr.child[m][x])
    OBVIOUS
  <2>1. Fine(tr, h, NULL, NULL, "left", m, x) /\ m # NULL
    BY <1>3 DEF Shape
  <2> QED
    BY <2>1 DEF Fine, IsRed
<1>6. LoneHeights(tr, h, n, c)
  BY LoneHeightsFacts
<1>7. /\ Bl(tr, n) \in {0, 1} /\ h[n] = Bl(tr, n)
      /\ c # NULL => /\ tr.colour[c] = Red /\ h[c] = 0 /\ tr.colour[n] = Black /\ h[n] = 1
                     /\ Bl(tr, c) = 0
  BY <1>6 DEF LoneHeights
<1> DEFINE f == [h EXCEPT ![n] = 0, ![c] = h[n]]
<1>8. Heights(f)
  <2>1. 0 \in Nat /\ h[n] \in Nat
    BY <1>1, <1>3
  <2> QED
    BY <1>1, <2>1, NewHeights
<1>9. \A m \in Nodes : f[m] = IF m = n THEN 0 ELSE IF m = c THEN h[n] ELSE h[m]
  BY <1>1, <1>3
<1> HIDE DEF f
<1>10. PICK y \in Sides : p # NULL => tr.child[p][y] = n /\ \A x \in Sides : tr.child[p][x] = n => x = y
  <2>1. CASE p = NULL
    BY <2>1 DEF Sides
  <2>2. CASE p # NULL
    <3>1. PICK y \in Sides : tr.child[p][y] = n
      BY <1>1, <1>3, <2>2 DEF Links
    <3>2. p \in Nodes /\ tr.child[p][Opp(y)] # n
      BY <1>1, <1>3, <2>2, <3>1 DEF Links, Places
    <3> QED
      BY <3>1, <3>2, OppFacts
  <2> QED
    BY <2>1, <2>2
<1>11. \A m \in Nodes, x \in Sides :
          u.child[m][x] = IF m = n THEN NULL
                          ELSE IF m = p /\ tr.child[m][x] = n THEN c ELSE tr.child[m][x]
  BY DEF TakenOut
<1>12. \A m \in Nodes : u.colour[m] = IF m = n THEN Red ELSE IF m = c THEN tr.colour[n]
                                      ELSE tr.colour[m]
  BY DEF TakenOut
<1>13. ASSUME NEW m \in Nodes, NEW x \in Sides PROVE Fine(u, f, NULL, r, y, m, x)
  <2> DEFINE z == tr.child[m][x]
             w == u.child[m][x]
             e == IF m = r /\ x = y THEN 1 ELSE 0
  <2>1. z \in Places /\ (z # NULL => z \in Nodes /\ tr.parent[z] = m) /\ m # NULL
    BY <1>1, <1>3 DEF Links, IsTree, Places
  <2>2. h[m] = (Bl(tr, m) + Tall(h, z)) + 0 /\ (IsRed(tr, m) => ~IsRed(tr, z))
    BY <1>5
  <2>3. SUFFICES f[m] = (Bl(u, m) + Tall(f, w)) + e /\ (IsRed(u, m) => ~IsRed(u, w))
    BY <2>1 DEF Fine
  <2>4. w = IF m = n THEN NULL ELSE IF m = p /\ z = n THEN c ELSE z
    BY <1>11
  <2>5. CASE m = n
    <3>1. f[m] = 0 /\ Bl(u, m) = 0 /\ w = NULL /\ Tall(f, w) = 0 /\ ~IsRed(u, w) /\ e = 0
      BY <1>3, <1>9, <1>12, <2>1, <2>4, <2>5, OppFacts DEF Bl, Tall, IsRed
    <3> QED
      BY <3>1
  <2>6. CASE m = c
    <3>1. z # n /\ z # c /\ w = z /\ e = 0
      BY <1>3, <2>1, <2>4, <2>6
    <3>2. f[m] = h[n] /\ h[n] = 1 /\ Bl(u, m) = 1 /\ ~IsRed(u, m) /\ Bl(tr, m) = 0 /\ h[m] = 0
      BY <1>3, <1>7, <1>9, <1>12, <2>1, <2>6, OppFacts DEF Bl, IsRed
    <3>3. Tall(f, w) = Tall(h, z) /\ Tall(h, z) \in Nat
      BY <1>1, <1>9, <2>1, <3>1 DEF Tall
    <3> QED
      BY <2>2, <3>1, <3>2, <3>3
  <2>7. CASE m # n /\ m # c /\ z = n
    <3>1. m = p /\ x = y /\ w = c /\ f[m] = h[m] /\ Tall(h, z) = h[n]
      BY <1>3, <1>9, <1>10, <2>1, <2>4, <2>7 DEF Tall
    <3>2. Bl(u, m) = Bl(tr, m) /\ (IsRed(u, m) <=> IsRed(tr, m)) /\ Bl(tr, m) \in {0, 1}
      BY <1>12, <2>7 DEF Bl, IsRed
    <3>3. h[n] = Tall(f, c) + e
      <4>1. CASE c = NULL
        <5>1. Tall(f, c) = 0 /\ e = Bl(tr, n)
          BY <2>1, <3>1, <4>1, <1>3 DEF Tall, Bl
        <5> QED
          BY <1>7, <5>1
      <4>2. CASE c # NULL
        <5>1. Tall(f, c) = h[n] /\ e = 0 /\ h[n] = 1
          BY <1>3, <1>7, <1>9, <2>1, <4>2 DEF Tall, Places
        <5> QED
          BY <5>1
      <4> QED
        BY <4>1, <4>2
    <3>4. Tall(f, c) \in Nat /\ e \in {0, 1}
      BY <1>3, <1>8 DEF Tall, Places, Heights
    <3>5. IsRed(u, m) => ~IsRed(u, w)
      BY <1>3, <1>12, <2>2, <2>7, <3>1, <3>2 DEF IsRed, Places
    <3> QED
      BY <2>2, <3>1, <3>2, <3>3, <3>4, <3>5
  <2>8. CASE m # n /\ m # c /\ z # n
    <3>1. w = z /\ (z # NULL => z # c) /\ f[m] = h[m] /\ Bl(u, m) = Bl(tr, m) /\ (IsRed(u, m) <=> IsRed(tr, m))
      BY <1>3, <1>9, <1>12, <2>1, <2>4, <2>8 DEF Bl, IsRed
    <3>2. e = 0
      BY <1>3, <1>10, <2>1, <2>8
    <3>3. Tall(f, w) = Tall(h, z) /\ (IsRed(u, w) <=> IsRed(tr, z))
      BY <1>9, <1>12, <2>1, <2>8, <3>1 DEF Tall, IsRed
    <3> QED
      BY <2>2, <3>1, <3>2, <3>3
  <2> QED
    BY <2>5, <2>6, <2>7, <2>8
<1>14. Shape(u, f, NULL, r, y)
  BY <1>4, <1>8, <1>13 DEF Shape, TakenOut
<1>15. ~IsRed(u, u.root)
  <2>1. tr.root # NULL => tr.root \in Nodes /\ tr.parent[tr.root] = NULL
    BY <1>1 DEF Links, IsTree, Places
  <2>2. u.root = IF p = NULL THEN c ELSE tr.root
    BY DEF TakenOut
  <2> QED
    BY <1>3, <1>7, <1>12, <2>1, <2>2, OppFacts DEF IsRed, Places
<1>16. r = NULL => Shape(u, f, NULL, NULL, "left")
  <2> SUFFICES ASSUME r = NULL PROVE Shape(u, f, NULL, NULL, "left")
    OBVIOUS
  <2>1. \A m \in Nodes, x \in Sides : Fine(u, f, NULL, NULL, "left", m, x)
    BY <1>3, <1>13 DEF Fine
  <2> QED
    BY <1>14, <2>1 DEF Shape
<1>17. r # NULL => r \in Nodes /\ u.child[r][y] = NULL
  BY <1>3, <1>10, <1>11 DEF Places
<1> QED
  BY <1>14, <1>15, <1>16, <1>17 DEF AfterUnlink

\* n gets parent p, no children and the colour red.
Renewed(tr, u, n, p) ==
    /\ IsTree(u) /\ u.root = tr.root
    /\ \A m \in Nodes, x \in Sides : u.child[m][x] = IF m = n THEN NULL ELSE tr.child[m][x]
    /\ \A m \in Nodes : /\ u.parent[m] = IF m = n THEN p ELSE tr.parent[m]
                        /\ u.colour[m] = IF m = n THEN Red ELSE tr.colour[m]

\* What the assignments to the fields of one node change.
LEMMA RenewFacts ==
    ASSUME NEW tr, IsTree(tr), NEW n \in Nodes, NEW p \in Places, NEW l
    PROVE  Renewed(tr, [tr EXCEPT !.child[n] = [s \in Sides |-> NULL], !.parent[n] = p,
                                  !.colour[n] = Red, !.leftmost = l], n, p)
<1> DEFINE ch == [tr.child EXCEPT ![n] = [s \in Sides |-> NULL]]
           pa == [tr.parent EXCEPT ![n] = p]
           co == [tr.colour EXCEPT ![n] = Red]
           u == [tr EXCEPT !.child[n] = [s \in Sides |-> NULL], !.parent[n] = p,
                           !.colour[n] = Red, !.leftmost = l]
<1>1. /\ ch \in [Nodes -> [Sides -> Places]] /\ pa \in [Nodes -> Places]
      /\ co \in [Nodes -> {Red, Black}]
      /\ \A m \in Nodes, x \in Sides : ch[m][x] = IF m = n THEN NULL ELSE tr.child[m][x]
      /\ \A m \in Nodes : /\ pa[m] = IF m = n THEN p ELSE tr.parent[m]
                          /\ co[m] = IF m = n THEN Red ELSE tr.colour[m]
  BY DEF IsTree, Places
<1>2. u = [tr EXCEPT !.child = ch, !.parent = pa, !.colour = co, !.leftmost = l]
  BY DEF IsTree
<1>3. u.root = tr.root /\ u.child = ch /\ u.parent = pa /\ u.colour = co
  <2> HIDE DEF u, ch, pa, co
  <2> QED
    BY <1>2 DEF IsTree
<1>4. IsTree(u)
  <2>1. tr.root \in Places
    BY DEF IsTree
  <2> HIDE DEF u, ch, pa, co
  <2> QED
    BY <1>1, <1>2, <2>1 DEF IsTree
<1> HIDE DEF u, ch, pa, co
<1>5. Renewed(tr, u, n, p)
  BY <1>1, <1>3, <1>4 DEF Renewed
<1> QED
  BY <1>5 DEF u

\* At most one child.
LEMMA UnlinkLeafFacts ==
    ASSUME NEW h, NEW n, NEW c, NEW p, Shape(t, h, NULL, NULL, "left"), LoneChild(t, n, c, p),
           NEW w, w = SetParentColour(ChangeChild(t, n, c, p), c, p, t.colour[n])
    PROVE  IsTree(w) /\ \A u : Renewed(w, u, n, NULL) => TakenOut(t, u, n, c, p)
<1>1. IsTree(t) /\ Links(t) /\ Acyclic(t)
  BY ShapeAcyclic DEF Shape
<1>2. AroundLone(t, n, c, p)
  BY <1>1, AroundLoneFacts
<1>3. /\ n \in Nodes /\ c \in Places /\ p \in Places /\ NULL \notin Nodes /\ n # p /\ c # n
      /\ t.parent[n] = p /\ t.colour[n] \in {Red, Black}
  BY <1>1, <1>2 DEF AroundLone, LoneChild, IsTree
<1>4. HangsOn(t, n, p)
  BY <1>1, <1>3 DEF HangsOn, Links, Places
<1>5. PICK v : v = ChangeChild(t, n, c, p)
  OBVIOUS
<1>6. ChildChanged(t, v, n, c, p)
  BY <1>1, <1>3, <1>4, <1>5, ChangeChildFacts
<1>7. IsTree(v)
  BY <1>6 DEF ChildChanged
<1>8. ParentColourSet(v, w, c, p, t.colour[n])
  BY <1>3, <1>5, <1>7, SetParentColourFacts
<1>9. IsTree(w)
  BY <1>8 DEF ParentColourSet
<1>10. ASSUME NEW u, Renewed(w, u, n, NULL) PROVE TakenOut(t, u, n, c, p)
  BY <1>3, <1>6, <1>8, <1>10 DEF TakenOut, Renewed, ChildChanged, ParentColourSet
<1> QED
  BY <1>9, <1>10

\* The tree in which n and s have changed places, but not colours and heights.
Swap(n, s) == [a \in Places |-> IF a = n THEN s ELSE IF a = s THEN n ELSE a]

Swapped(tr, n, s) ==
    LET pi == Swap(n, s)
    IN  [root |-> pi[tr.root], leftmost |-> tr.leftmost,
         child |-> [m \in Nodes |-> [x \in Sides |-> pi[tr.child[pi[m]][x]]]],
         parent |-> [m \in Nodes |-> pi[tr.parent[pi[m]]]],
         colour |-> [m \in Nodes |-> tr.colour[pi[m]]]]

\* pi renames the nodes of tr to those of v.
Renaming(tr, v, pi) ==
    /\ pi \in [Places -> Places] /\ \A a \in Places : pi[pi[a]] = a /\ (pi[a] = NULL <=> a = NULL)
    /\ IsTree(v) /\ v.root = pi[tr.root]
    /\ \A m \in Nodes, x \in Sides : v.child[m][x] = pi[tr.child[pi[m]][x]]
    /\ \A m \in Nodes : v.parent[m] = pi[tr.parent[pi[m]]] /\ v.colour[m] = tr.colour[pi[m]]

\* Changing places is a renaming of the nodes.
LEMMA SwappedRenames ==
    ASSUME NEW tr, IsTree(tr), NEW n \in Nodes, NEW s \in Nodes
    PROVE  Renaming(tr, Swapped(tr, n, s), Swap(n, s))
<1>1. PICK pi : pi = Swap(n, s)
  OBVIOUS
<1>2. PICK v : v = Swapped(tr, n, s)
  OBVIOUS
<1>3. NULL \notin Nodes
  BY RbTreeAssumption
<1>4. /\ pi \in [Places -> Places] /\ \A a \in Places : pi[pi[a]] = a /\ (pi[a] = NULL <=> a = NULL)
      /\ \A m \in Nodes : pi[m] \in Nodes
  BY <1>1, <1>3 DEF Swap, Places
<1> DEFINE ch == [m \in Nodes |-> [x \in Sides |-> pi[tr.child[pi[m]][x]]]]
           pa == [m \in Nodes |-> pi[tr.parent[pi[m]]]]
           co == [m \in Nodes |-> tr.colour[pi[m]]]
<1>5. v = [root |-> pi[tr.root], leftmost |-> tr.leftmost, child |-> ch, parent |-> pa, colour |-> co]
  BY <1>1, <1>2 DEF Swapped
<1>6. /\ ch \in [Nodes -> [Sides -> Places]] /\ pa \in [Nodes -> Places]
      /\ co \in [Nodes -> {Red, Black}] /\ pi[tr.root] \in Places
  BY <1>4 DEF IsTree
<1>7. /\ \A m \in Nodes, x \in Sides : ch[m][x] = pi[tr.child[pi[m]][x]]
      /\ \A m \in Nodes : pa[m] = pi[tr.parent[pi[m]]] /\ co[m] = tr.colour[pi[m]]
  OBVIOUS
<1> HIDE DEF ch, pa, co
<1>8. IsTree(v)
  BY <1>5, <1>6 DEF IsTree
<1>9. v.root = pi[tr.root] /\ v.child = ch /\ v.parent = pa /\ v.colour = co
  BY <1>5
<1>10. Renaming(tr, v, pi)
  BY <1>4, <1>7, <1>8, <1>9 DEF Renaming
<1> QED
  BY <1>1, <1>2, <1>10

\* A renamed tree is in order as well.
LEMMA RenamedShape ==
    ASSUME NEW tr, NEW v, NEW pi, NEW h, Shape(tr, h, NULL, NULL, "left"), Renaming(tr, v, pi)
    PROVE  /\ \E f : Shape(v, f, NULL, NULL, "left")
           /\ IsRed(v, v.root) <=> IsRed(tr, tr.root)
           /\ \A m \in Nodes : Linked(tr, pi[m]) => Linked(v, m)
<1>1. /\ pi \in [Places -> Places] /\ \A a \in Places : pi[pi[a]] = a /\ (pi[a] = NULL <=> a = NULL)
      /\ IsTree(v) /\ v.root = pi[tr.root]
      /\ \A m \in Nodes, x \in Sides : v.child[m][x] = pi[tr.child[pi[m]][x]]
      /\ \A m \in Nodes : v.parent[m] = pi[tr.parent[pi[m]]] /\ v.colour[m] = tr.colour[pi[m]]
  BY DEF Renaming
<1>2. /\ IsTree(tr) /\ Links(tr) /\ Heights(h) /\ h \in [Nodes -> Nat] /\ NULL \notin Nodes
      /\ tr.root \in Places
      /\ \A m \in Nodes, x \in Sides : tr.child[m][x] \in Places
      /\ \A m \in Nodes : tr.parent[m] \in Places
  BY RbTreeAssumption DEF Shape, Heights, IsTree
<1>3. /\ \A m \in Nodes : pi[m] \in Nodes /\ m \in Places
      /\ \A a \in Places : a # NULL => a \in Nodes
  BY <1>1, <1>2 DEF Places
<1>4. ASSUME NEW m \in Nodes, NEW x \in Sides, v.child[m][x] # NULL
      PROVE  v.parent[v.child[m][x]] = m /\ v.child[m][Opp(x)] # v.child[m][x]
  <2>1. PICK k, a, b : k = pi[m] /\ a = tr.child[k][x] /\ b = tr.child[k][Opp(x)]
    OBVIOUS
  <2>2. k \in Nodes /\ a \in Places /\ b \in Places /\ Opp(x) \in Sides
    BY <1>2, <1>3, <2>1, OppFacts
  <2>3. v.child[m][x] = pi[a] /\ v.child[m][Opp(x)] = pi[b] /\ a # NULL
    BY <1>1, <1>4, <2>1, <2>2
  <2>4. tr.parent[a] = k /\ a # b
    BY <1>2, <2>1, <2>2, <2>3 DEF Links
  <2>5. pi[a] \in Nodes /\ pi[pi[a]] = a /\ pi[pi[b]] = b /\ pi[k] = m
    BY <1>1, <1>3, <2>1, <2>2, <2>3
  <2> QED
    BY <1>1, <2>3, <2>4, <2>5
<1>5. \A m \in Nodes : Linked(tr, pi[m]) => Linked(v, m)
  <2> SUFFICES ASSUME NEW m \in Nodes, Linked(tr, pi[m]) PROVE Linked(v, m)
    OBVIOUS
  <2>1. pi[pi[m]] = m /\ v.parent[m] = pi[tr.parent[pi[m]]] /\ tr.parent[pi[m]] \in Places
    BY <1>1, <1>2, <1>3
  <2> QED
    BY <1>1, <2>1 DEF Linked
<1>6. ASSUME NEW m \in Nodes, v.parent[m] # NULL
      PROVE  (\E x \in Sides : v.child[v.parent[m]][x] = m) /\ Linked(v, v.parent[m])
  <2>1. PICK k, a : k = pi[m] /\ a = tr.parent[k]
    OBVIOUS
  <2>2. k \in Nodes /\ a \in Places /\ v.parent[m] = pi[a] /\ pi[k] = m
    BY <1>1, <1>2, <1>3, <2>1
  <2>3. a \in Nodes /\ a # NULL /\ pi[a] \in Nodes /\ pi[pi[a]] = a
    BY <1>1, <1>3, <1>6, <2>2
  <2>4. PICK x \in Sides : tr.child[a][x] = k
    BY <1>2, <2>1, <2>2, <2>3 DEF Links
  <2>5. Linked(tr, a)
    BY <1>2, <2>1, <2>2, <2>3 DEF Links
  <2>6. v.child[pi[a]][x] = m
    BY <1>1, <2>2, <2>3, <2>4
  <2> QED
    BY <1>5, <2>2, <2>3, <2>5, <2>6
<1>7. v.root # NULL => v.parent[v.root] = NULL
  <2> SUFFICES ASSUME v.root # NULL PROVE v.parent[v.root] = NULL
    OBVIOUS
  <2>1. tr.root # NULL /\ tr.root \in Nodes /\ v.root \in Nodes /\ pi[v.root] = tr.root
    BY <1>1, <1>2, <1>3
  <2>2. tr.parent[tr.root] = NULL /\ NULL \in Places
    BY <1>2, <2>1 DEF Links, Places
  <2> QED
    BY <1>1, <2>1, <2>2
<1>8. Links(v)
  BY <1>4, <1>6, <1>7 DEF Links
<1> DEFINE f == [m \in Nodes |-> h[pi[m]]]
<1>9. Heights(f)
  <2>1. PICK b \in Nat : \A m \in Nodes : h[m] <= b
    BY <1>2 DEF Heights
  <2>2. f \in [Nodes -> Nat] /\ \A m \in Nodes : f[m] <= b
    BY <1>2, <1>3, <2>1
  <2> HIDE DEF f
  <2> QED
    BY <2>2 DEF Heights
<1>10. \A m \in Nodes : f[m] = h[pi[m]]
  OBVIOUS
<1> HIDE DEF f
<1>11. \A a \in Places : Tall(f, pi[a]) = Tall(h, a) /\ (IsRed(v, pi[a]) <=> IsRed(tr, a))
  BY <1>1, <1>3, <1>10 DEF Tall, IsRed
<1>12. ASSUME NEW m \in Nodes, NEW x \in Sides PROVE Fine(v, f, NULL, NULL, "left", m, x)
  <2>1. PICK k, a : k = pi[m] /\ a = tr.child[k][x]
    OBVIOUS
  <2>2. k \in Nodes /\ a \in Places /\ v.child[m][x] = pi[a] /\ f[m] = h[k] /\ pi[k] = m
        /\ m # NULL /\ k # NULL
    BY <1>1, <1>2, <1>3, <1>10, <2>1
  <2>3. Fine(tr, h, NULL, NULL, "left", k, x)
    BY <2>2 DEF Shape
  <2>4. h[k] = (Bl(tr, k) + Tall(h, a)) + 0 /\ (IsRed(tr, k) => ~IsRed(tr, a))
    BY <2>1, <2>2, <2>3 DEF Fine, IsRed
  <2>5. Bl(v, m) = Bl(tr, k) /\ (IsRed(v, m) <=> IsRed(tr, k)) /\ Tall(f, pi[a]) = Tall(h, a)
        /\ (IsRed(v, pi[a]) <=> IsRed(tr, a))
    BY <1>1, <1>11, <2>1, <2>2 DEF Bl, IsRed
  <2> QED
    BY <2>2, <2>4, <2>5 DEF Fine
<1>13. Shape(v, f, NULL, NULL, "left")
  BY <1>1, <1>8, <1>9, <1>12 DEF Shape
<1>14. IsRed(v, v.root) <=> IsRed(tr, tr.root)
  BY <1>1, <1>2, <1>11
<1> QED
  BY <1>5, <1>13, <1>14

\* e is the last node on side s from c.
LastFrom(c, s, e, rank) ==
    /\ e \in Nodes /\ t.child[e][s] = NULL /\ rank[e] <= rank[c]
    /\ e = c \/ /\ t.parent[e] \in Nodes /\ t.child[t.parent[e]][s] = e
                /\ rank[t.parent[e]] <= rank[c]

\* The walk to one side ends at a node without a child there.
LEMMA OutmostFacts ==
    ASSUME NEW rank, IsTree(t), Links(t), Ranked(t, rank), NEW s \in Sides
    PROVE  \A c \in Nodes : LastFrom(c, s, Outmost(t, c, s), rank)
<1> DEFINE Step(f) == [m \in Nodes |-> IF t.child[m][s] = NULL THEN m ELSE f[t.child[m][s]]]
           d == CHOOSE f : f = Step(f)
           next == [m \in Nodes |-> t.child[m][s]]
<1>1. NULL \notin Nodes
  BY RbTreeAssumption
<1>2. \A n \in Nodes : Outmost(t, n, s) = d[n]
  BY <1>1 DEF Outmost
<1>3. PICK b \in Nat : \A m \in Nodes : rank[m] < b
  BY DEF Ranked
<1>4. next \in [Nodes -> Nodes \cup {NULL}] /\ rank \in [Nodes -> Nat]
  BY DEF IsTree, Places, Ranked
<1>5. \A m \in Nodes : next[m] \in Nodes => t.parent[next[m]] = m /\ rank[next[m]] < rank[m]
  BY <1>1 DEF Ranked, Links
<1>6. \E f : f = Step(f)
  <2> DEFINE base == [m \in Nodes |-> m]
             step == [m \in Nodes |-> [v \in Nodes |-> v]]
  <2>1. base \in [Nodes -> Nodes] /\ step \in [Nodes -> [Nodes -> Nodes]]
    OBVIOUS
  <2>2. \A m \in Nodes : next[m] = t.child[m][s]
    OBVIOUS
  <2> HIDE DEF base, step, next
  <2>3. Computable(Nodes, Nodes, next, base, step)
    BY <1>3, <1>4, <1>5, <2>1, Recursion
  <2>4. PICK f : Computes(f, Nodes, Nodes, next, base, step)
    BY <2>3 DEF Computable
  <2>5. f \in [Nodes -> Nodes]
    BY <2>4 DEF Computes
  <2>6. ASSUME NEW m \in Nodes PROVE f[m] = Step(f)[m]
    <3>1. f[m] = IF next[m] \in Nodes THEN step[m][f[next[m]]] ELSE base[m]
      BY <2>4 DEF Computes
    <3>2. CASE next[m] = NULL
      BY <1>1, <2>2, <3>1, <3>2 DEF base
    <3>3. CASE next[m] \in Nodes
      <4>1. f[next[m]] \in Nodes
        BY <2>5, <3>3
      <4> QED
        BY <1>1, <2>2, <3>1, <3>3, <4>1 DEF step
    <3> QED
      BY <1>4, <3>2, <3>3
  <2>7. f = Step(f)
    BY <2>5, <2>6
  <2> QED
    BY <2>7
<1>7. d = Step(d)
  BY <1>6
<1> HIDE DEF d
<1>8. \A m \in Nodes : d[m] = IF next[m] = NULL THEN m ELSE d[next[m]]
  BY <1>7
<1> DEFINE T == {m \in Nodes : LastFrom(m, s, d[m], rank)}
<1>9. Inductive(Nodes, rank, T)
  <2> SUFFICES ASSUME NEW m \in Nodes, \A k \in Nodes : rank[k] < rank[m] => k \in T
               PROVE  LastFrom(m, s, d[m], rank)
    BY DEF Inductive
  <2>1. CASE next[m] = NULL
    BY <1>4, <1>8, <2>1 DEF LastFrom
  <2>2. CASE next[m] # NULL
    <3>1. PICK k : k = next[m]
      OBVIOUS
    <3>2. k \in Nodes /\ rank[k] < rank[m] /\ t.parent[k] = m /\ t.child[m][s] = k
      BY <1>4, <1>5, <2>2, <3>1
    <3>3. LastFrom(k, s, d[k], rank) /\ d[m] = d[k]
      BY <1>8, <2>2, <3>1, <3>2
    <3>4. PICK e : e = d[k]
      OBVIOUS
    <3>5. LastFrom(k, s, e, rank)
      BY <3>3, <3>4
    <3>6. e \in Nodes /\ rank[e] \in Nat /\ rank[k] \in Nat /\ rank[m] \in Nat
      BY <1>4, <3>2, <3>5 DEF LastFrom
    <3>7. CASE e = k
      <4>1. t.child[e][s] = NULL /\ rank[e] <= rank[m] /\ t.parent[e] = m /\ rank[m] <= rank[m]
        BY <3>2, <3>5, <3>6, <3>7 DEF LastFrom
      <4>2. LastFrom(m, s, e, rank)
        BY <3>2, <3>6, <3>7, <4>1 DEF LastFrom
      <4> QED
        BY <3>3, <3>4, <4>2
    <3>8. CASE e # k
      <4>1. t.parent[e] \in Nodes /\ t.child[t.parent[e]][s] = e /\ rank[t.parent[e]] <= rank[k]
            /\ t.child[e][s] = NULL /\ rank[e] <= rank[k]
        BY <3>5, <3>8 DEF LastFrom
      <4>2. rank[t.parent[e]] \in Nat
        BY <1>4, <4>1
      <4>3. rank[t.parent[e]] <= rank[m] /\ rank[e] <= rank[m]
        BY <3>2, <3>6, <4>1, <4>2
      <4>4. LastFrom(m, s, e, rank)
        BY <3>6, <4>1, <4>3 DEF LastFrom
      <4> QED
        BY <3>3, <3>4, <4>4
    <3> QED
      BY <3>7, <3>8
  <2> QED
    BY <2>1, <2>2
<1>10. Nodes \subseteq T
  <2> HIDE DEF T
  <2> QED
    BY <1>4, <1>9, RankInduction
<1> QED
  BY <1>2, <1>10

\* The successor s of n, which has two children, and the places around them: l and c
\* are n's children, q is its parent, d the parent of s and e its child.
Successor(n, s, l, c, q, d, e) ==
    /\ n \in Nodes /\ s \in Nodes /\ l \in Nodes /\ c \in Nodes /\ d \in Nodes
    /\ q \in Places /\ e \in Places /\ NULL \notin Nodes
    /\ t.child[n]["left"] = l /\ t.child[n]["right"] = c /\ t.parent[n] = q
    /\ t.child[s]["left"] = NULL /\ t.child[s]["right"] = e /\ t.parent[s] = d
    /\ t.parent[l] = n /\ t.parent[c] = n /\ l # c /\ (e # NULL => t.parent[e] = s)
    /\ (s = c <=> d = n) /\ (s # c => t.child[d]["left"] = s)
    /\ n # s /\ n # l /\ n # c /\ n # q /\ n # e /\ s # l /\ s # q /\ s # e /\ s # d
    /\ l # q /\ l # e /\ c # q /\ c # e /\ d # e /\ d # q
    /\ e # NULL => e # q
    /\ (q = NULL <=> t.root = n) /\ t.root # s /\ Linked(t, n)

\* The leftmost node of the right subtree, and the places around it and around n.
LEMMA SuccessorFacts ==
    ASSUME IsTree(t), Links(t), Acyclic(t), NEW n \in Nodes, Linked(t, n),
           t.child[n]["left"] # NULL, t.child[n]["right"] # NULL,
           NEW s, s = Outmost(t, t.child[n]["right"], "left")
    PROVE  Successor(n, s, t.child[n]["left"], t.child[n]["right"], t.parent[n], t.parent[s],
                     t.child[s]["right"])
<1>1. PICK l, c, q : l = t.child[n]["left"] /\ c = t.child[n]["right"] /\ q = t.parent[n]
  OBVIOUS
<1>2. /\ "left" \in Sides /\ "right" \in Sides /\ Opp("left") = "right" /\ Opp("right") = "left"
      /\ NULL \notin Nodes
  BY RbTreeAssumption DEF Sides, Opp
<1>3. l \in Nodes /\ c \in Nodes /\ q \in Places
  BY <1>1, <1>2 DEF IsTree, Places
<1>4. t.parent[l] = n /\ t.parent[c] = n /\ l # c
  BY <1>1, <1>2 DEF Links
<1>5. PICK rank : Ranked(t, rank)
  BY DEF Acyclic
<1>6. LastFrom(c, "left", s, rank)
  BY <1>1, <1>2, <1>3, <1>5, OutmostFacts
<1>7. PICK d, e : d = t.parent[s] /\ e = t.child[s]["right"]
  OBVIOUS
<1>8. /\ s \in Nodes /\ t.child[s]["left"] = NULL /\ rank[s] <= rank[c]
      /\ s = c \/ (d \in Nodes /\ t.child[d]["left"] = s /\ rank[d] <= rank[c])
  BY <1>6, <1>7 DEF LastFrom
<1>9. d \in Nodes /\ e \in Places /\ (e # NULL => e \in Nodes /\ t.parent[e] = s)
  <2>1. d \in Nodes
    BY <1>4, <1>7, <1>8
  <2>2. e \in Places
    BY <1>2, <1>7, <1>8 DEF IsTree
  <2>3. e # NULL => t.parent[e] = s
    BY <1>2, <1>7, <1>8 DEF Links
  <2> QED
    BY <2>1, <2>2, <2>3 DEF Places
<1>10. /\ rank[n] \in Nat /\ rank[c] \in Nat /\ rank[l] \in Nat /\ rank[s] \in Nat /\ rank[d] \in Nat
       /\ rank[c] < rank[n] /\ rank[l] < rank[n] /\ rank[s] < rank[d]
       /\ (q # NULL => rank[n] < rank[q] /\ rank[q] \in Nat)
       /\ (e # NULL => rank[e] < rank[s] /\ rank[e] \in Nat)
  BY <1>1, <1>2, <1>3, <1>4, <1>5, <1>7, <1>8, <1>9 DEF Ranked, Places
<1>11. s = c <=> d = n
  BY <1>4, <1>7, <1>8, <1>10
<1>12. s # l
  BY <1>4, <1>7, <1>11
<1>13. n # s /\ n # l /\ n # c /\ n # q /\ n # e /\ s # e /\ s # d /\ l # q /\ c # q /\ c # e /\ d # e
  BY <1>2, <1>3, <1>8, <1>9, <1>10
<1>14. s # q /\ d # q /\ (e # NULL => e # q)
  <2>1. rank[d] <= rank[n]
    BY <1>8, <1>10, <1>11
  <2> QED
    BY <1>2, <1>8, <1>9, <1>10, <2>1
<1>15. l # e
  BY <1>2, <1>3, <1>4, <1>9, <1>13
<1>17. (q = NULL <=> t.root = n) /\ t.root # s
  BY <1>1, <1>2, <1>3, <1>7, <1>8, <1>9 DEF Linked, Links
<1>18. Successor(n, s, l, c, q, d, e)
  BY <1>1, <1>2, <1>3, <1>4, <1>7, <1>8, <1>9, <1>11, <1>12, <1>13, <1>14, <1>15, <1>17
  DEF Successor
<1> QED
  BY <1>1, <1>7, <1>18

\* Two children: what UnlinkInner assigns.
InnerCut(n, s, l, c, q, d, e, t1, w) ==
    /\ t1 = IF s = c THEN t
            ELSE SetParent(SetChild(SetChild(t, d, "left", e), s, "right", c), c, s)
    /\ w = SetParentColour(
              SetParentColour(ChangeChild(SetParent(SetChild(t1, s, "left", l), l, s), n, s, q),
                              e, IF s = c THEN s ELSE d, Black),
              s, q, t.colour[n])

\* What that makes of the tree.
SuccessorMoved(w, n, s, l, c, q, d, e) ==
    /\ IsTree(w) /\ w.root = (IF q = NULL THEN s ELSE t.root)
    /\ \A m \in Nodes, x \in Sides :
          w.child[m][x] = IF m = s THEN IF x = "left" THEN l ELSE IF s = c THEN e ELSE c
                          ELSE IF m = d /\ x = "left" /\ s # c THEN e
                          ELSE IF m = q /\ t.child[m][x] = n THEN s ELSE t.child[m][x]
    /\ \A m \in Nodes :
          w.parent[m] = IF m = s THEN q ELSE IF m = e THEN IF s = c THEN s ELSE d
                        ELSE IF m = l \/ m = c THEN s ELSE t.parent[m]
    /\ \A m \in Nodes :
          w.colour[m] = IF m = s THEN t.colour[n] ELSE IF m = e THEN Black ELSE t.colour[m]

\* The assignments of UnlinkInner put the successor in the place of n.
LEMMA InnerCutFacts ==
    ASSUME NEW n, NEW s, NEW l, NEW c, NEW q, NEW d, NEW e, NEW t1, NEW w,
           IsTree(t), Links(t), Successor(n, s, l, c, q, d, e),
           InnerCut(n, s, l, c, q, d, e, t1, w)
    PROVE  SuccessorMoved(w, n, s, l, c, q, d, e)
<1>1. /\ n \in Nodes /\ s \in Nodes /\ l \in Nodes /\ c \in Nodes /\ d \in Nodes
      /\ q \in Places /\ e \in Places /\ NULL \notin Nodes
      /\ s \in Places /\ l \in Places /\ c \in Places /\ d \in Places
      /\ t.child[n]["left"] = l /\ t.child[n]["right"] = c /\ t.parent[n] = q
      /\ t.child[s]["left"] = NULL /\ t.child[s]["right"] = e
      /\ "left" \in Sides /\ "right" \in Sides
      /\ \A x \in Sides : x = "left" \/ x = "right"
      /\ t.colour[n] \in {Red, Black} /\ Black \in {Red, Black}
  BY DEF Successor, Places, Sides, IsTree
<1>2. /\ n # s /\ n # l /\ n # c /\ n # q /\ n # e /\ s # l /\ s # q /\ s # e /\ s # d
      /\ l # q /\ l # e /\ c # q /\ c # e /\ d # e /\ d # q /\ l # c
  BY DEF Successor
<1>3. /\ IsTree(t1) /\ t1.root = t.root /\ t1.colour = t.colour
      /\ \A m \in Nodes, x \in Sides :
            t1.child[m][x] = IF m = s /\ x = "right" /\ s # c THEN c
                             ELSE IF m = d /\ x = "left" /\ s # c THEN e ELSE t.child[m][x]
      /\ \A m \in Nodes : t1.parent[m] = IF m = c /\ s # c THEN s ELSE t.parent[m]
  <2>1. CASE s = c
    BY <2>1 DEF InnerCut
  <2>2. CASE s # c
    <3>1. PICK a : a = SetChild(t, d, "left", e)
      OBVIOUS
    <3>2. PICK b : b = SetChild(a, s, "right", c)
      OBVIOUS
    <3>3. ChildSet(t, a, d, "left", e)
      BY <1>1, <3>1, SetChildFacts
    <3>4. IsTree(a)
      BY <3>3 DEF ChildSet
    <3>5. ChildSet(a, b, s, "right", c)
      BY <1>1, <3>2, <3>4, SetChildFacts
    <3>6. IsTree(b)
      BY <3>5 DEF ChildSet
    <3>7. ParentSet(b, t1, c, s)
      BY <1>1, <2>2, <3>1, <3>2, <3>6, SetParentFacts DEF InnerCut
    <3> QED
      BY <1>1, <1>2, <2>2, <3>3, <3>5, <3>7 DEF ChildSet, ParentSet
  <2> QED
    BY <2>1, <2>2
<1>4. PICK a : a = SetChild(t1, s, "left", l)
  OBVIOUS
<1>5. PICK t2 : t2 = SetParent(a, l, s)
  OBVIOUS
<1>6. PICK t3 : t3 = ChangeChild(t2, n, s, q)
  OBVIOUS
<1>7. PICK p : p = IF s = c THEN s ELSE d
  OBVIOUS
<1>8. PICK t4 : t4 = SetParentColour(t3, e, p, Black)
  OBVIOUS
<1>9. ChildSet(t1, a, s, "left", l)
  BY <1>1, <1>3, <1>4, SetChildFacts
<1>10. IsTree(a)
  BY <1>9 DEF ChildSet
<1>11. ParentSet(a, t2, l, s)
  BY <1>1, <1>5, <1>10, SetParentFacts
<1>12. /\ IsTree(t2) /\ t2.root = t.root /\ t2.colour = t.colour
       /\ \A m \in Nodes, x \in Sides :
             t2.child[m][x] = IF m = s THEN IF x = "left" THEN l ELSE IF s = c THEN e ELSE c
                              ELSE IF m = d /\ x = "left" /\ s # c THEN e ELSE t.child[m][x]
       /\ \A m \in Nodes : t2.parent[m] = IF m = l THEN s ELSE IF m = c /\ s # c THEN s
                                          ELSE t.parent[m]
  <2>1. /\ IsTree(t2) /\ t2.root = t.root /\ t2.colour = t.colour
        /\ \A m \in Nodes : t2.parent[m] = IF m = l THEN s ELSE IF m = c /\ s # c THEN s
                                           ELSE t.parent[m]
    BY <1>3, <1>9, <1>11 DEF ChildSet, ParentSet
  <2>2. ASSUME NEW m \in Nodes, NEW x \in Sides
        PROVE  t2.child[m][x] = IF m = s THEN IF x = "left" THEN l ELSE IF s = c THEN e ELSE c
                                ELSE IF m = d /\ x = "left" /\ s # c THEN e ELSE t.child[m][x]
    <3>1. x = "left" \/ x = "right"
      BY <1>1
    <3>2. t2.child[m][x] = IF m = s /\ x = "left" THEN l ELSE t1.child[m][x]
      BY <1>9, <1>11 DEF ChildSet, ParentSet
    <3> QED
      BY <1>1, <1>2, <1>3, <3>1, <3>2
  <2> QED
    BY <2>1, <2>2
<1>13. HangsOn(t2, n, q)
  <2> SUFFICES ASSUME q # NULL
               PROVE  \E x \in Sides : t2.child[q][x] = n /\ t2.child[q][Opp(x)] # n
    BY DEF HangsOn
  <2>1. q \in Nodes
    BY <1>1 DEF Places
  <2>2. PICK x \in Sides : t.child[q][x] = n
    BY <1>1 DEF Links
  <2>3. t.child[q][Opp(x)] # n /\ Opp(x) \in Sides
    BY <1>1, <2>1, <2>2, OppFacts DEF Links
  <2> QED
    BY <1>2, <1>12, <2>1, <2>2, <2>3
<1>14. ChildChanged(t2, t3, n, s, q)
  BY <1>1, <1>6, <1>12, <1>13, ChangeChildFacts
<1>15. IsTree(t3) /\ p \in Places
  BY <1>1, <1>7, <1>14 DEF ChildChanged
<1>16. ParentColourSet(t3, t4, e, p, Black)
  BY <1>1, <1>8, <1>15, SetParentColourFacts
<1>17. IsTree(t4) /\ w = SetParentColour(t4, s, q, t.colour[n])
  BY <1>4, <1>5, <1>6, <1>7, <1>8, <1>16 DEF ParentColourSet, InnerCut
<1>18. ParentColourSet(t4, w, s, q, t.colour[n])
  BY <1>1, <1>17, SetParentColourFacts
<1>19. /\ IsTree(w) /\ w.root = (IF q = NULL THEN s ELSE t.root)
       /\ \A m \in Nodes : w.parent[m] = IF m = s THEN q ELSE IF m = e THEN p ELSE t2.parent[m]
       /\ \A m \in Nodes :
             w.colour[m] = IF m = s THEN t.colour[n] ELSE IF m = e THEN Black ELSE t.colour[m]
       /\ \A m \in Nodes, x \in Sides :
             w.child[m][x] = IF m = q /\ t2.child[m][x] = n THEN s ELSE t2.child[m][x]
  BY <1>12, <1>14, <1>16, <1>18 DEF ChildChanged, ParentColourSet
<1>20. \A m \in Nodes :
          w.parent[m] = IF m = s THEN q ELSE IF m = e THEN IF s = c THEN s ELSE d
                        ELSE IF m = l \/ m = c THEN s ELSE t.parent[m]
  BY <1>7, <1>12, <1>19
<1>21. \A m \in Nodes, x \in Sides :
          w.child[m][x] = IF m = s THEN IF x = "left" THEN l ELSE IF s = c THEN e ELSE c
                          ELSE IF m = d /\ x = "left" /\ s # c THEN e
                          ELSE IF m = q /\ t.child[m][x] = n THEN s ELSE t.child[m][x]
  BY <1>2, <1>12, <1>19
<1> QED
  BY <1>19, <1>20, <1>21 DEF SuccessorMoved

\* The successor in the place of n: as if they had changed places and n were taken out.
LEMMA UnlinkInnerFacts ==
    ASSUME NEW n, NEW s, NEW l, NEW c, NEW q, NEW d, NEW e, NEW w, NEW u, NEW p, NEW h,
           Shape(t, h, NULL, NULL, "left"), Successor(n, s, l, c, q, d, e),
           SuccessorMoved(w, n, s, l, c, q, d, e), Renewed(w, u, n, NULL),
           p = IF s = c THEN s ELSE d
    PROVE  /\ LoneChild(Swapped(t, n, s), n, e, p)
           /\ TakenOut(Swapped(t, n, s), u, n, e, p)
<1>1. /\ n \in Nodes /\ s \in Nodes /\ l \in Nodes /\ c \in Nodes /\ d \in Nodes
      /\ q \in Places /\ e \in Places /\ NULL \notin Nodes /\ NULL \in Places
      /\ t.child[n]["left"] = l /\ t.child[n]["right"] = c /\ t.parent[n] = q
      /\ t.child[s]["left"] = NULL /\ t.child[s]["right"] = e /\ t.parent[s] = d
      /\ "left" \in Sides /\ "right" \in Sides
      /\ \A x \in Sides : x = "left" \/ x = "right"
      /\ IsTree(t) /\ Links(t)
  BY DEF Successor, Places, Sides, Shape
<1>2. /\ n # s /\ n # l /\ n # c /\ n # q /\ n # e /\ s # l /\ s # q /\ s # e /\ s # d
      /\ l # q /\ l # e /\ c # q /\ c # e /\ d # e /\ d # q /\ l # c
      /\ (s = c <=> d = n) /\ (s # c => t.child[d]["left"] = s)
      /\ (q = NULL <=> t.root = n) /\ t.root # s
      /\ t.parent[l] = n /\ t.parent[c] = n /\ (e # NULL => t.parent[e] = s)
  BY DEF Successor
<1>3. PICK v, pi : v = Swapped(t, n, s) /\ pi = Swap(n, s)
  OBVIOUS
<1>4. Renaming(t, v, pi)
  BY <1>1, <1>3, SwappedRenames
<1>5. \A a \in Places : pi[a] = IF a = n THEN s ELSE IF a = s THEN n ELSE a
  BY <1>3 DEF Swap
<1>6. /\ IsTree(v) /\ v.root = pi[t.root]
      /\ \A m \in Nodes, x \in Sides : v.child[m][x] = pi[t.child[pi[m]][x]]
      /\ \A m \in Nodes : v.parent[m] = pi[t.parent[pi[m]]] /\ v.colour[m] = t.colour[pi[m]]
  BY <1>4 DEF Renaming
<1>7. /\ t.root \in Places /\ n \in Places /\ s \in Places /\ d \in Places /\ l \in Places /\ c \in Places
      /\ \A m \in Nodes : m \in Places /\ t.parent[m] \in Places
      /\ \A m \in Nodes, x \in Sides : t.child[m][x] \in Places
  BY <1>1 DEF IsTree, Places
<1>8. /\ pi[n] = s /\ pi[s] = n /\ pi[e] = e /\ pi[l] = l /\ pi[q] = q /\ pi[NULL] = NULL
      /\ pi[d] = p /\ pi[c] = IF s = c THEN n ELSE c
  BY <1>1, <1>2, <1>5, <1>7
<1>9. LoneChild(v, n, e, p)
  <2>1. v.parent[n] = p /\ v.child[n]["right"] = e /\ v.child[n]["left"] = NULL
    BY <1>1, <1>6, <1>8
  <2>2. Linked(v, n)
    <3>1. Linked(t, s)
      BY <1>1 DEF Linked
    <3> QED
      BY <1>1, <1>4, <1>8, <3>1, RenamedShape
  <2>3. Opp("right") = "left"
    BY DEF Opp
  <2> QED
    BY <1>1, <2>1, <2>2, <2>3 DEF LoneChild
<1>10. LoneChild(t, s, e, d)
  <2>1. Opp("right") = "left" /\ Linked(t, s)
    BY <1>1 DEF Opp, Linked
  <2> QED
    BY <1>1, <2>1 DEF LoneChild
<1>11. e # NULL => t.colour[s] = Black
  <2>1. LoneHeights(t, h, s, e)
    BY <1>10, LoneHeightsFacts
  <2> QED
    BY <2>1 DEF LoneHeights
<1>12. /\ IsTree(u) /\ u.root = (IF q = NULL THEN s ELSE t.root)
       /\ \A m \in Nodes, x \in Sides :
             u.child[m][x] = IF m = n THEN NULL
                             ELSE IF m = s THEN IF x = "left" THEN l ELSE IF s = c THEN e ELSE c
                             ELSE IF m = d /\ x = "left" /\ s # c THEN e
                             ELSE IF m = q /\ t.child[m][x] = n THEN s ELSE t.child[m][x]
       /\ \A m \in Nodes :
             u.parent[m] = IF m = n THEN NULL
                           ELSE IF m = s THEN q ELSE IF m = e THEN p
                           ELSE IF m = l \/ m = c THEN s ELSE t.parent[m]
       /\ \A m \in Nodes :
             u.colour[m] = IF m = n THEN Red ELSE IF m = s THEN t.colour[n]
                           ELSE IF m = e THEN Black ELSE t.colour[m]
  BY <1>1 DEF Renewed, SuccessorMoved
<1>13. ASSUME NEW m \in Nodes, NEW x \in Sides
       PROVE  u.child[m][x] = IF m = n THEN NULL
                              ELSE IF m = p /\ v.child[m][x] = n THEN e ELSE v.child[m][x]
  <2>1. x = "left" \/ x = "right"
    BY <1>1
  <2>2. u.child[m][x] = IF m = n THEN NULL
                        ELSE IF m = s THEN IF x = "left" THEN l ELSE IF s = c THEN e ELSE c
                        ELSE IF m = d /\ x = "left" /\ s # c THEN e
                        ELSE IF m = q /\ t.child[m][x] = n THEN s ELSE t.child[m][x]
    BY <1>12
  <2>3. CASE m = n
    BY <2>2, <2>3
  <2>4. CASE m = s
    <3>1. v.child[m][x] = pi[t.child[n][x]]
      BY <1>1, <1>6, <1>8, <2>4
    <3>2. CASE x = "left"
      BY <1>1, <1>2, <1>8, <2>2, <2>4, <3>1, <3>2
    <3>3. CASE x = "right"
      BY <1>1, <1>2, <1>8, <2>2, <2>4, <3>1, <3>3
    <3> QED
      BY <2>1, <3>2, <3>3
  <2>5. CASE m # n /\ m # s
    <3>1. PICK z : z = t.child[m][x]
      OBVIOUS
    <3>2. v.child[m][x] = pi[z] /\ z \in Places
      BY <1>5, <1>6, <1>7, <2>5, <3>1
    <3>3. pi[z] = IF z = n THEN s ELSE IF z = s THEN n ELSE z
      BY <1>5, <3>2
    <3>4. (z = n => m = q) /\ (z = s => m = d)
      BY <1>1, <3>1 DEF Links
    <3>5. m = d => s # c /\ p = d
      BY <1>2, <2>5
    <3>6. m = d /\ z = s => x = "left"
      <4>1. m = d => t.child[d]["left"] = s /\ Opp("left") = "right"
        BY <1>2, <3>5 DEF Opp
      <4>2. m = d => t.child[d]["right"] # s
        BY <1>1, <4>1 DEF Links
      <4> QED
        BY <2>1, <3>1, <4>2
    <3>7. m = d /\ x = "left" => z = s
      BY <1>2, <3>1, <3>5
    <3> QED
      BY <1>1, <1>2, <2>2, <2>5, <3>1, <3>2, <3>3, <3>4, <3>5, <3>6, <3>7
  <2> QED
    BY <2>3, <2>4, <2>5
<1>14. ASSUME NEW m \in Nodes
       PROVE  u.parent[m] = IF m = n THEN NULL ELSE IF m = e THEN p ELSE v.parent[m]
  <2>1. u.parent[m] = IF m = n THEN NULL
                      ELSE IF m = s THEN q ELSE IF m = e THEN p
                      ELSE IF m = l \/ m = c THEN s ELSE t.parent[m]
    BY <1>12
  <2>2. CASE m = n
    BY <2>1, <2>2
  <2>3. CASE m = s
    BY <1>1, <1>2, <1>6, <1>8, <2>1, <2>3
  <2>4. CASE m # n /\ m # s
    <3>1. PICK r : r = t.parent[m]
      OBVIOUS
    <3>2. v.parent[m] = pi[r] /\ r \in Places
      BY <1>5, <1>6, <1>7, <2>4, <3>1
    <3>3. pi[r] = IF r = n THEN s ELSE IF r = s THEN n ELSE r
      BY <1>5, <3>2
    <3>4. r = n => m = l \/ m = c
      <4> SUFFICES ASSUME r = n PROVE m = l \/ m = c
        OBVIOUS
      <4>1. PICK x \in Sides : t.child[n][x] = m
        BY <1>1, <3>1 DEF Links
      <4> QED
        BY <1>1, <4>1
    <3>5. r = s => m = e
      <4> SUFFICES ASSUME r = s PROVE m = e
        OBVIOUS
      <4>1. PICK x \in Sides : t.child[s][x] = m
        BY <1>1, <3>1 DEF Links
      <4> QED
        BY <1>1, <4>1
    <3> QED
      BY <1>1, <1>2, <2>1, <2>4, <3>1, <3>2, <3>3, <3>4, <3>5
  <2> QED
    BY <2>2, <2>3, <2>4
<1>15. \A m \in Nodes : u.colour[m] = IF m = n THEN Red ELSE IF m = e THEN v.colour[n]
                                      ELSE v.colour[m]
  BY <1>1, <1>2, <1>5, <1>6, <1>7, <1>11, <1>12
<1>16. u.root = IF p = NULL THEN e ELSE v.root
  BY <1>1, <1>2, <1>5, <1>6, <1>7, <1>12
<1>17. TakenOut(v, u, n, e, p)
  BY <1>12, <1>13, <1>14, <1>15, <1>16 DEF TakenOut
<1> QED
  BY <1>3, <1>9, <1>17

\* n is forgotten, and the first node is l.
Cleared(w, n, l) ==
    [w EXCEPT !.child[n] = [s \in Sides |-> NULL], !.parent[n] = NULL, !.colour[n] = Red,
              !.leftmost = l]

\* Erasing n leads to tree u, r being where a black node is missing.
Erased(n, u, r) ==
    \E cut, l : /\ cut = IF NULL \in {t.child[n][s] : s \in Sides} THEN UnlinkLeaf(n)
                         ELSE UnlinkInner(n)
                /\ r = cut.rebalance /\ u = Cleared(cut.tree, n, l)

\* Erasing a node with at most one child.
LEMMA EraseLeafStep ==
    ASSUME NEW h, Shape(t, h, NULL, NULL, "left"), ~IsRed(t, t.root), NEW n \in Nodes,
           Linked(t, n), NULL \in {t.child[n][s] : s \in Sides}, NEW u, NEW r, Erased(n, u, r)
    PROVE  AfterUnlink(u, r)
<1>1. PICK c : c = IF t.child[n]["left"] = NULL THEN t.child[n]["right"] ELSE t.child[n]["left"]
  OBVIOUS
<1>2. PICK p : p = t.parent[n]
  OBVIOUS
<1>3. LoneChild(t, n, c, p)
  <2>1. CASE t.child[n]["left"] = NULL
    BY <1>1, <1>2, <2>1 DEF LoneChild, Sides, Opp
  <2>2. CASE t.child[n]["left"] # NULL
    <3>1. t.child[n]["right"] = NULL
      BY <2>2 DEF Sides
    <3> QED
      BY <1>1, <1>2, <2>2, <3>1 DEF LoneChild, Sides, Opp
  <2> QED
    BY <2>1, <2>2
<1>4. PICK w : w = SetParentColour(ChangeChild(t, n, c, p), c, p, t.colour[n])
  OBVIOUS
<1>5. IsTree(w) /\ \A v : Renewed(w, v, n, NULL) => TakenOut(t, v, n, c, p)
  BY <1>3, <1>4, UnlinkLeafFacts
<1>6. UnlinkLeaf(n) = [tree |-> w, rebalance |-> Rebalance(c, n, p)]
  BY <1>1, <1>2, <1>4 DEF UnlinkLeaf
<1>7. PICK l : r = Rebalance(c, n, p) /\ u = Cleared(w, n, l)
  BY <1>6 DEF Erased
<1>8. Renewed(w, u, n, NULL)
  BY <1>5, <1>7, RenewFacts DEF Cleared, Places
<1>9. TakenOut(t, u, n, c, p)
  BY <1>5, <1>8
<1>10. r = IF c = NULL /\ t.colour[n] = Black THEN p ELSE NULL
  BY <1>7 DEF Rebalance
<1> QED
  BY <1>3, <1>9, <1>10, TakenOutStep

\* Erasing a node with two children.
LEMMA EraseInnerStep ==
    ASSUME NEW h, Shape(t, h, NULL, NULL, "left"), ~IsRed(t, t.root), NEW n \in Nodes,
           Linked(t, n), NULL \notin {t.child[n][s] : s \in Sides}, NEW u, NEW r, Erased(n, u, r)
    PROVE  AfterUnlink(u, r)
<1>1. IsTree(t) /\ Links(t) /\ Acyclic(t) /\ NULL \notin Nodes
  BY ShapeAcyclic, RbTreeAssumption DEF Shape
<1>2. t.child[n]["left"] # NULL /\ t.child[n]["right"] # NULL
  BY DEF Sides
<1>3. PICK l, c, q : t.child[n]["left"] = l /\ t.child[n]["right"] = c /\ t.parent[n] = q
  OBVIOUS
<1>4. PICK s : s = Outmost(t, c, "left")
  OBVIOUS
<1>5. PICK d, e : t.parent[s] = d /\ t.child[s]["right"] = e
  OBVIOUS
<1>6. Successor(n, s, l, c, q, d, e)
  BY <1>1, <1>2, <1>3, <1>4, <1>5, SuccessorFacts
<1>7. PICK p : p = IF s = c THEN s ELSE d
  OBVIOUS
<1>8. PICK t1 : t1 = IF s = c THEN t
                     ELSE SetParent(SetChild(SetChild(t, d, "left", e), s, "right", c), c, s)
  OBVIOUS
<1>9. PICK w : w = SetParentColour(
                      SetParentColour(ChangeChild(SetParent(SetChild(t1, s, "left", l), l, s), n, s, q),
                                      e, IF s = c THEN s ELSE d, Black),
                      s, q, t.colour[n])
  OBVIOUS
<1>10. InnerCut(n, s, l, c, q, d, e, t1, w)
  BY <1>8, <1>9 DEF InnerCut
<1>11. SuccessorMoved(w, n, s, l, c, q, d, e)
  BY <1>1, <1>6, <1>10, InnerCutFacts
<1>12. UnlinkInner(n) = [tree |-> w, rebalance |-> Rebalance(e, s, p)]
  <2>1. CASE s = c
    <3>1. t1 = t /\ p = s
      BY <1>7, <1>8, <2>1
    <3> QED
      BY <1>3, <1>4, <1>5, <1>9, <2>1, <3>1 DEF UnlinkInner
  <2>2. CASE s # c
    <3>1. p = d
      BY <1>7, <2>2
    <3> QED
      BY <1>3, <1>4, <1>5, <1>8, <1>9, <2>2, <3>1 DEF UnlinkInner
  <2> QED
    BY <2>1, <2>2
<1>13. PICK f : r = Rebalance(e, s, p) /\ u = Cleared(w, n, f)
  BY <1>12 DEF Erased
<1>14. Renewed(w, u, n, NULL)
  BY <1>11, <1>13, RenewFacts DEF Cleared, Places, SuccessorMoved
<1>15. PICK v : v = Swapped(t, n, s)
  OBVIOUS
<1>16. LoneChild(v, n, e, p) /\ TakenOut(v, u, n, e, p)
  BY <1>6, <1>7, <1>11, <1>14, <1>15, UnlinkInnerFacts
<1>17. Renaming(t, v, Swap(n, s))
  BY <1>1, <1>6, <1>15, SwappedRenames DEF Successor
<1>18. PICK g : Shape(v, g, NULL, NULL, "left")
  BY <1>17, RenamedShape
<1>19. ~IsRed(v, v.root)
  BY <1>17, RenamedShape
<1>20. v.colour[n] = t.colour[s]
  BY <1>17 DEF Renaming, Swap, Places
<1>21. r = IF e = NULL /\ v.colour[n] = Black THEN p ELSE NULL
  BY <1>13, <1>20 DEF Rebalance
<1> QED
  BY <1>16, <1>18, <1>19, <1>21, TakenOutStep

\* The start of an erasure keeps the invariant.
LEMMA EraseStep ==
    ASSUME NEW n \in Nodes, TreeInv, Erase(n)
    PROVE  TreeInv'
<1>1. PICK h : Shape(t, h, NULL, NULL, "left") /\ ~IsRed(t, t.root)
  BY DEF TreeInv, Idle, Erase
<1>2. Linked(t, n)
  BY DEF Erase, Members
<1>3. PICK u, r : u = t' /\ r = parent'
  OBVIOUS
<1>4. Erased(n, u, r) /\ op' = (IF r = NULL THEN "idle" ELSE "erase") /\ node' = NULL
  BY <1>3 DEF Erase, Erased, Cleared
<1>5. AfterUnlink(u, r)
  BY <1>1, <1>2, <1>4, EraseLeafStep, EraseInnerStep
<1>6. CASE r = NULL
  BY <1>3, <1>4, <1>5, <1>6 DEF AfterUnlink, TreeInv, Idle
<1>7. CASE r # NULL
  <2>1. r \in Nodes /\ node' \in Places /\ ~IsRed(u, node') /\ ~IsRed(u, u.root)
    BY <1>4, <1>5, <1>7 DEF AfterUnlink, IsRed, Places
  <2>2. \E y \in Sides : u.child[r][y] = node' /\ \E f : Shape(u, f, NULL, r, y)
    BY <1>4, <1>5, <1>7 DEF AfterUnlink
  <2>3. Erasing'
    BY <1>3, <2>1, <2>2 DEF Erasing
  <2> QED
    BY <1>4, <1>7, <2>3 DEF TreeInv
<1> QED
  BY <1>6, <1>7

-----------------------------------------------------------------------------
(* Linking a node in: hev_rbtree_node_link. *)

\* A free place below a node of the tree.
Free(at) ==
    /\ at.parent \in Nodes /\ at.side \in Sides /\ Linked(t, at.parent)
    /\ t.child[at.parent][at.side] = NULL

\* The way down from the root ends at a free place.
LEMMA PlaceFacts ==
    ASSUME NEW rank, IsTree(t), Links(t), Ranked(t, rank), NEW n \in Nodes, t.root # NULL
    PROVE  Free(Place(t, n))
<1> DEFINE Step(f) ==
               [m \in Nodes |->
                  IF t.child[m][SideOf(n, m)] = NULL
                  THEN [parent |-> m, side |-> SideOf(n, m), first |-> SideOf(n, m) = "left"]
                  ELSE [f[t.child[m][SideOf(n, m)]] EXCEPT !.first = @ /\ SideOf(n, m) = "left"]]
           d == CHOOSE f : f = Step(f)
           next == [m \in Nodes |-> t.child[m][SideOf(n, m)]]
           V == [parent : Nodes, side : Sides, first : BOOLEAN]
<1>1. NULL \notin Nodes /\ \A m \in Nodes : SideOf(n, m) \in Sides
  BY RbTreeAssumption DEF SideOf, Sides
<1>2. Place(t, n) = d[t.root]
  BY DEF Place
<1>3. PICK b \in Nat : \A m \in Nodes : rank[m] < b
  BY DEF Ranked
<1>4. next \in [Nodes -> Nodes \cup {NULL}] /\ rank \in [Nodes -> Nat]
  BY <1>1 DEF IsTree, Places, Ranked
<1>5. \A m \in Nodes : next[m] \in Nodes => t.parent[next[m]] = m /\ rank[next[m]] < rank[m]
  BY <1>1 DEF Ranked, Links
<1>6. \E f : f \in [Nodes -> V] /\ f = Step(f)
  <2> DEFINE base == [m \in Nodes |-> [parent |-> m, side |-> SideOf(n, m),
                                       first |-> SideOf(n, m) = "left"]]
             step == [m \in Nodes |-> [v \in V |-> [v EXCEPT !.first = @ /\ SideOf(n, m) = "left"]]]
  <2>1. base \in [Nodes -> V] /\ step \in [Nodes -> [V -> V]]
    BY <1>1
  <2>2. \A m \in Nodes : next[m] = t.child[m][SideOf(n, m)]
    OBVIOUS
  <2>3. \A m \in Nodes : base[m] = [parent |-> m, side |-> SideOf(n, m),
                                    first |-> SideOf(n, m) = "left"]
    OBVIOUS
  <2>4. \A m \in Nodes, v \in V : step[m][v] = [v EXCEPT !.first = @ /\ SideOf(n, m) = "left"]
    OBVIOUS
  <2> HIDE DEF base, step, next, V
  <2>5. Computable(Nodes, V, next, base, step)
    BY <1>3, <1>4, <1>5, <2>1, Recursion
  <2>6. PICK f : Computes(f, Nodes, V, next, base, step)
    BY <2>5 DEF Computable
  <2>7. f \in [Nodes -> V]
    BY <2>6 DEF Computes
  <2>8. ASSUME NEW m \in Nodes PROVE f[m] = Step(f)[m]
    <3>1. f[m] = IF next[m] \in Nodes THEN step[m][f[next[m]]] ELSE base[m]
      BY <2>6 DEF Computes
    <3>2. CASE next[m] = NULL
      BY <1>1, <2>2, <2>3, <3>1, <3>2
    <3>3. CASE next[m] \in Nodes
      <4>1. f[next[m]] \in V
        BY <2>7, <3>3
      <4>2. f[m] = [f[next[m]] EXCEPT !.first = @ /\ SideOf(n, m) = "left"]
        BY <2>4, <3>1, <3>3, <4>1
      <4> QED
        BY <1>1, <2>2, <3>3, <4>2
    <3> QED
      BY <1>4, <3>2, <3>3
  <2>9. f = Step(f)
    BY <2>7, <2>8
  <2> QED
    BY <2>7, <2>9
<1>7. d = Step(d)
  BY <1>6
<1> HIDE DEF d
<1>8. \A m \in Nodes : d[m] = IF next[m] = NULL
                             THEN [parent |-> m, side |-> SideOf(n, m),
                                   first |-> SideOf(n, m) = "left"]
                             ELSE [d[next[m]] EXCEPT !.first = @ /\ SideOf(n, m) = "left"]
  BY <1>7
<1>9. \A m \in Nodes : next[m] = t.child[m][SideOf(n, m)]
  OBVIOUS
<1> HIDE DEF next
<1> DEFINE Found(a) == a \in V /\ Free(a)
           T == {m \in Nodes : Linked(t, m) => Found(d[m])}
<1>10. Inductive(Nodes, rank, T)
  <2> SUFFICES ASSUME NEW m \in Nodes, \A k \in Nodes : rank[k] < rank[m] => k \in T, Linked(t, m)
               PROVE  Found(d[m])
    BY DEF Inductive
  <2>1. CASE next[m] = NULL
    <3>1. d[m] = [parent |-> m, side |-> SideOf(n, m), first |-> SideOf(n, m) = "left"]
      BY <1>8, <2>1
    <3>2. d[m] \in V /\ d[m].parent = m /\ d[m].side = SideOf(n, m)
      BY <1>1, <3>1
    <3> QED
      BY <1>1, <1>9, <2>1, <3>2 DEF Free
  <2>2. CASE next[m] # NULL
    <3>1. PICK k : k = next[m]
      OBVIOUS
    <3>2. k \in Nodes /\ rank[k] < rank[m] /\ t.parent[k] = m
      BY <1>4, <1>5, <2>2, <3>1
    <3>3. Found(d[k])
      BY <1>1, <3>2 DEF Linked
    <3>4. d[m] = [d[k] EXCEPT !.first = @ /\ SideOf(n, m) = "left"]
      BY <1>8, <2>2, <3>1
    <3>5. PICK e : e = d[k]
      OBVIOUS
    <3>6. PICK a : a = [e EXCEPT !.first = @ /\ SideOf(n, m) = "left"]
      OBVIOUS
    <3>7. e \in V /\ a \in V /\ a.parent = e.parent /\ a.side = e.side
      BY <3>3, <3>5, <3>6
    <3>8. Found(a)
      BY <3>3, <3>5, <3>7 DEF Free
    <3> QED
      BY <3>4, <3>5, <3>6, <3>8
  <2> QED
    BY <2>1, <2>2
<1>11. Nodes \subseteq T
  <2> HIDE DEF T
  <2> QED
    BY <1>4, <1>10, RankInduction
<1>12. t.root \in Nodes /\ Linked(t, t.root)
  BY DEF IsTree, Places, Linked
<1> QED
  BY <1>2, <1>11, <1>12

\* n is not in the tree, and p has no child on side s or the tree is empty.
Vacant(n, p, s) ==
    /\ n \in Nodes /\ ~Linked(t, n) /\ p \in Places /\ s \in Sides /\ NULL \notin Nodes
    /\ p = NULL => t.root = NULL
    /\ p # NULL => p \in Nodes /\ Linked(t, p) /\ t.child[p][s] = NULL /\ t.root # NULL

\* n hangs there, red and without children.
Hung(u, n, p, s) ==
    /\ IsTree(u) /\ u.root = (IF p = NULL THEN n ELSE t.root)
    /\ \A m \in Nodes, x \in Sides :
          u.child[m][x] = IF m = n THEN NULL ELSE IF m = p /\ x = s THEN n ELSE t.child[m][x]
    /\ \A m \in Nodes : /\ u.parent[m] = IF m = n THEN p ELSE t.parent[m]
                        /\ u.colour[m] = IF m = n THEN Red ELSE t.colour[m]

\* A node that is not in the tree is nobody's child or parent.
Apart(n) ==
    /\ \A x \in Sides : t.child[n][x] = NULL
    /\ \A m \in Nodes, x \in Sides : t.child[m][x] # n
    /\ t.parent[n] = NULL /\ t.root # n

\* What is not in the tree is not pointed to.
LEMMA UnlinkedApart ==
    ASSUME IsTree(t), Links(t), NEW n \in Nodes, ~Linked(t, n)
    PROVE  Apart(n)
<1>1. NULL \notin Nodes
  BY RbTreeAssumption
<1>2. t.parent[n] = NULL /\ t.root # n
  BY DEF Linked
<1>3. ASSUME NEW m \in Nodes, NEW x \in Sides PROVE t.child[m][x] # n
  BY <1>1, <1>2 DEF Links
<1>4. ASSUME NEW x \in Sides, t.child[n][x] # NULL PROVE FALSE
  <2>1. t.child[n][x] \in Nodes /\ t.parent[t.child[n][x]] = n
    BY <1>4 DEF Links, IsTree, Places
  <2> QED
    BY <1>1, <2>1 DEF Links
<1> QED
  BY <1>2, <1>3, <1>4 DEF Apart

\* The new leaf agrees with its parent.
LEMMA HungLinks ==
    ASSUME NEW u, NEW n, NEW p, NEW s, IsTree(t), Links(t), Vacant(n, p, s), Apart(n),
           Hung(u, n, p, s)
    PROVE  Links(u) /\ Linked(u, n) /\ p # n
<1>1. n \in Nodes /\ NULL \notin Nodes /\ p # n /\ s \in Sides
  BY DEF Vacant
<1>2. \A m \in Nodes : Linked(t, m) => Linked(u, m)
  BY <1>1 DEF Linked, Hung, Vacant, Apart
<1>3. Linked(u, n)
  BY <1>1 DEF Linked, Hung
<1>4. ASSUME NEW m \in Nodes, NEW x \in Sides, u.child[m][x] # NULL
      PROVE  u.parent[u.child[m][x]] = m /\ u.child[m][Opp(x)] # u.child[m][x]
  <2>1. Opp(x) \in Sides /\ Opp(x) # x
    BY OppFacts
  <2>2. m # n
    BY <1>4 DEF Hung
  <2>3. CASE m = p /\ x = s
    <3>1. u.child[m][x] = n /\ u.parent[n] = m /\ u.child[m][Opp(x)] = t.child[m][Opp(x)]
      BY <1>1, <2>1, <2>2, <2>3 DEF Hung
    <3> QED
      BY <2>1, <3>1 DEF Apart
  <2>4. CASE ~(m = p /\ x = s)
    <3>1. PICK z : z = t.child[m][x]
      OBVIOUS
    <3>2. u.child[m][x] = z /\ z # NULL /\ z \in Nodes /\ z # n
      BY <1>4, <2>2, <2>4, <3>1 DEF Hung, IsTree, Places, Apart
    <3>3. t.parent[z] = m /\ t.child[m][Opp(x)] # z
      BY <3>1, <3>2 DEF Links
    <3>4. u.parent[z] = m /\ u.child[m][Opp(x)] # z
      BY <2>1, <2>2, <3>2, <3>3 DEF Hung
    <3> QED
      BY <3>2, <3>4
  <2> QED
    BY <2>3, <2>4
<1>5. ASSUME NEW m \in Nodes, u.parent[m] # NULL
      PROVE  (\E x \in Sides : u.child[u.parent[m]][x] = m) /\ Linked(u, u.parent[m])
  <2>1. CASE m = n
    <3>1. u.parent[m] = p /\ p \in Nodes /\ Linked(t, p)
      BY <1>5, <2>1 DEF Hung, Vacant
    <3>2. u.child[p][s] = n
      BY <1>1, <3>1 DEF Hung
    <3> QED
      BY <1>1, <1>2, <2>1, <3>1, <3>2
  <2>2. CASE m # n
    <3>1. PICK a : a = t.parent[m]
      OBVIOUS
    <3>2. u.parent[m] = a /\ a \in Nodes
      BY <1>5, <2>2, <3>1 DEF Hung, IsTree, Places
    <3>3. PICK x \in Sides : t.child[a][x] = m
      BY <1>1, <3>1, <3>2 DEF Links
    <3>4. Linked(t, a)
      BY <1>1, <3>1, <3>2 DEF Links
    <3>5. a # n /\ ~(a = p /\ x = s)
      BY <1>1, <3>2, <3>3 DEF Apart, Vacant
    <3>6. u.child[a][x] = m
      BY <3>2, <3>3, <3>5 DEF Hung
    <3> QED
      BY <1>2, <3>2, <3>4, <3>6
  <2> QED
    BY <2>1, <2>2
<1>6. u.root # NULL => u.parent[u.root] = NULL
  <2>1. CASE p = NULL
    BY <1>1, <2>1 DEF Hung
  <2>2. CASE p # NULL
    <3>1. t.root \in Nodes /\ t.root # n /\ u.root = t.root
      BY <2>2 DEF Hung, Vacant, IsTree, Places, Apart
    <3> QED
      BY <1>1, <3>1 DEF Hung, Links
  <2> QED
    BY <2>1, <2>2
<1> QED
  BY <1>1, <1>3, <1>4, <1>5, <1>6 DEF Links

\* A red leaf changes no height.
LEMMA HungShape ==
    ASSUME NEW h, NEW u, NEW n, NEW p, NEW s, Shape(t, h, NULL, NULL, "left"),
           Vacant(n, p, s), Hung(u, n, p, s)
    PROVE  /\ \E f : Shape(u, f, n, NULL, "left")
           /\ Linked(u, n) /\ IsRed(u, n) /\ u.parent[n] = p
<1>1. /\ IsTree(t) /\ Links(t) /\ n \in Nodes /\ ~Linked(t, n) /\ NULL \notin Nodes
      /\ Heights(h) /\ h \in [Nodes -> Nat]
  BY DEF Shape, Vacant, Heights
<1>2. Apart(n)
  BY <1>1, UnlinkedApart
<1>3. Links(u) /\ Linked(u, n) /\ p # n
  BY <1>1, <1>2, HungLinks
<1>4. IsRed(u, n) /\ u.parent[n] = p /\ IsTree(u) /\ u.parent[n] # n
  BY <1>1, <1>3 DEF Hung, IsRed
<1> DEFINE f == [h EXCEPT ![n] = 0, ![n] = 0]
<1>5. Heights(f)
  BY <1>1, NewHeights
<1>6. \A m \in Nodes : f[m] = IF m = n THEN 0 ELSE h[m]
  BY <1>1
<1> HIDE DEF f
<1>7. ASSUME NEW m \in Nodes, NEW x \in Sides PROVE Fine(u, f, n, NULL, "left", m, x)
  <2>1. Fine(t, h, NULL, NULL, "left", m, x) /\ m # NULL
    BY <1>1 DEF Shape
  <2>2. PICK z : z = t.child[m][x]
    OBVIOUS
  <2>3. z \in Places /\ z # n
    BY <1>2, <2>2 DEF Apart, Shape, IsTree
  <2>4. h[m] = (Bl(t, m) + Tall(h, z)) + 0 /\ (IsRed(t, m) => ~IsRed(t, z))
    BY <2>1, <2>2 DEF Fine, IsRed
  <2>5. CASE m = n
    <3>1. u.child[m][x] = NULL /\ f[m] = 0 /\ Bl(u, m) = 0
      BY <1>6, <2>5, OppFacts DEF Hung, Bl
    <3>2. f[m] = (Bl(u, m) + Tall(f, NULL)) + 0 /\ ~IsRed(u, NULL)
      BY <3>1 DEF Tall, IsRed
    <3> QED
      BY <2>1, <3>1, <3>2 DEF Fine
  <2>6. CASE m # n
    <3>1. f[m] = h[m] /\ Bl(u, m) = Bl(t, m) /\ (IsRed(u, m) <=> IsRed(t, m))
      BY <1>6, <2>6 DEF Hung, Bl, IsRed
    <3>2. CASE m = p /\ x = s
      <4>1. z = NULL /\ u.child[m][x] = n
        BY <2>1, <2>2, <2>6, <3>2 DEF Vacant, Hung
      <4>2. Tall(h, z) = 0 /\ Tall(f, n) = 0
        BY <1>1, <1>6, <4>1 DEF Tall
      <4>3. f[m] = (Bl(u, m) + Tall(f, n)) + 0
        BY <2>4, <3>1, <4>2
      <4> QED
        BY <2>1, <4>1, <4>3 DEF Fine
    <3>3. CASE ~(m = p /\ x = s)
      <4>1. u.child[m][x] = z
        BY <2>2, <2>6, <3>3 DEF Hung
      <4>2. Tall(f, z) = Tall(h, z) /\ (IsRed(u, z) <=> IsRed(t, z))
        BY <1>6, <2>3 DEF Tall, IsRed, Places, Hung
      <4>3. f[m] = (Bl(u, m) + Tall(f, z)) + 0 /\ (IsRed(u, m) => ~IsRed(u, z))
        BY <2>4, <3>1, <4>2
      <4> QED
        BY <2>1, <4>1, <4>3 DEF Fine
    <3> QED
      BY <3>2, <3>3
  <2> QED
    BY <2>5, <2>6
<1>8. Shape(u, f, n, NULL, "left")
  BY <1>3, <1>4, <1>5, <1>7 DEF Shape
<1> QED
  BY <1>3, <1>4, <1>8

\* A renewed n as the root or as a child of p.
LEMMA LinkFacts ==
    ASSUME NEW v, NEW u, NEW n, NEW p, NEW s, IsTree(t), Links(t), Vacant(n, p, s),
           Renewed(t, v, n, p),
           u = IF p = NULL THEN [v EXCEPT !.root = n] ELSE SetChild(v, p, s, n)
    PROVE  Hung(u, n, p, s)
<1>1. n \in Nodes /\ n \in Places /\ s \in Sides /\ NULL \notin Nodes /\ IsTree(v) /\ p # n
  BY DEF Vacant, Renewed, Places
<1>2. CASE p = NULL
  <2>1. u.child = v.child /\ u.parent = v.parent /\ u.colour = v.colour /\ u.root = n /\ IsTree(u)
    BY <1>1, <1>2 DEF IsTree
  <2> QED
    BY <1>1, <1>2, <2>1 DEF Hung, Renewed
<1>3. CASE p # NULL
  <2>1. p \in Nodes
    BY <1>3 DEF Vacant
  <2>2. ChildSet(v, u, p, s, n)
    BY <1>1, <1>3, <2>1, SetChildFacts
  <2> QED
    BY <1>1, <1>3, <2>1, <2>2 DEF Hung, Renewed, ChildSet
<1> QED
  BY <1>2, <1>3

\* The start of an insertion keeps the invariant.
LEMMA InsertStep ==
    ASSUME NEW n \in Nodes, TreeInv, Insert(n)
    PROVE  TreeInv'
<1>1. PICK h : Shape(t, h, NULL, NULL, "left") /\ ~IsRed(t, t.root)
  BY DEF TreeInv, Idle, Insert
<1>2. IsTree(t) /\ Links(t) /\ Acyclic(t) /\ ~Linked(t, n) /\ NULL \notin Nodes
  BY <1>1, ShapeAcyclic, RbTreeAssumption DEF Shape, Insert, Members
<1>3. PICK at : at = Place(t, n)
  OBVIOUS
<1>4. PICK p, s : p = at.parent /\ s = at.side
  OBVIOUS
<1>5. Vacant(n, p, s)
  <2>1. CASE t.root = NULL
    <3>1. p = NULL /\ s = "left"
      BY <1>3, <1>4, <2>1 DEF Place
    <3> QED
      BY <1>2, <2>1, <3>1 DEF Vacant, Places, Sides
  <2>2. CASE t.root # NULL
    <3>1. PICK rank : Ranked(t, rank)
      BY <1>2 DEF Acyclic
    <3>2. Free(at)
      BY <1>2, <1>3, <2>2, <3>1, PlaceFacts
    <3> QED
      BY <1>2, <1>4, <2>2, <3>2 DEF Vacant, Free, Places
  <2> QED
    BY <2>1, <2>2
<1>6. PICK l : l = IF at.first THEN n ELSE t.leftmost
  OBVIOUS
<1>7. PICK v : v = [t EXCEPT !.child[n] = [x \in Sides |-> NULL], !.parent[n] = p,
                             !.colour[n] = Red, !.leftmost = l]
  OBVIOUS
<1>8. Renewed(t, v, n, p)
  BY <1>2, <1>5, <1>7, RenewFacts DEF Vacant
<1>9. PICK u : u = t'
  OBVIOUS
<1>10. u = IF p = NULL THEN [v EXCEPT !.root = n] ELSE SetChild(v, p, s, n)
  BY <1>3, <1>4, <1>6, <1>7, <1>9 DEF Insert
<1>11. node' = n /\ op' = "insert" /\ parent' = p
  BY <1>3, <1>4 DEF Insert
<1>12. Hung(u, n, p, s)
  BY <1>2, <1>5, <1>8, <1>10, LinkFacts
<1>13. (\E f : Shape(u, f, n, NULL, "left")) /\ Linked(u, n) /\ IsRed(u, n) /\ u.parent[n] = p
  BY <1>1, <1>5, <1>12, HungShape
<1>14. u.root = n \/ ~IsRed(u, u.root)
  BY <1>1, <1>2, <1>12 DEF Hung, IsRed, IsTree, Places
<1>15. Inserting'
  BY <1>9, <1>11, <1>13, <1>14 DEF Inserting
<1> QED
  BY <1>11, <1>15 DEF TreeInv

-----------------------------------------------------------------------------
\* The empty tree is in order.
LEMMA InitTreeInv == TreeInit => TreeInv
<1> SUFFICES ASSUME TreeInit PROVE TreeInv
  OBVIOUS
<1>1. NULL \notin Nodes
  BY RbTreeAssumption
<1>2. /\ t.root = NULL /\ \A m \in Nodes, x \in Sides : t.child[m][x] = NULL
      /\ \A m \in Nodes : t.parent[m] = NULL /\ t.colour[m] = Red
  BY DEF TreeInit
<1>3. IsTree(t)
  BY DEF TreeInit, IsTree, Places
<1>4. Links(t)
  BY <1>2 DEF Links
<1> DEFINE h == [m \in Nodes |-> 0]
<1>5. Heights(h)
  BY DEF Heights
<1>6. ASSUME NEW m \in Nodes, NEW x \in Sides PROVE Fine(t, h, NULL, NULL, "left", m, x)
  <2>1. h[m] = 0 /\ Bl(t, m) = 0 /\ Tall(h, t.child[m][x]) = 0 /\ m # NULL
    BY <1>1, <1>2, OppFacts DEF Bl, Tall
  <2>2. ~IsRed(t, t.child[m][x])
    BY <1>2 DEF IsRed
  <2> HIDE DEF h
  <2> QED
    BY <2>1, <2>2 DEF Fine
<1> HIDE DEF h
<1>7. Shape(t, h, NULL, NULL, "left") /\ ~IsRed(t, t.root)
  BY <1>2, <1>3, <1>4, <1>5, <1>6 DEF Shape, IsRed
<1>8. op = "idle" /\ Idle
  BY <1>7 DEF TreeInit, Idle
<1> QED
  BY <1>8 DEF TreeInv

\* Every step keeps the invariant.
LEMMA NextTreeInv == TreeInv /\ [TreeNext]_treeVars => TreeInv'
<1> SUFFICES ASSUME TreeInv, [TreeNext]_treeVars PROVE TreeInv'
  OBVIOUS
<1>1. CASE \E n \in Nodes : Insert(n)
  BY <1>1, InsertStep
<1>2. CASE \E n \in Nodes : Erase(n)
  BY <1>2, EraseStep
<1>3. CASE InsertDone
  BY <1>3, InsertDoneStep
<1>4. CASE InsertFlip
  BY <1>4, InsertFlipStep
<1>5. CASE InsertRotate
  BY <1>5, InsertRotateStep
<1>6. CASE EraseFlip
  BY <1>6, EraseFlipStep
<1>7. CASE EraseRotate
  BY <1>7, EraseRotateStep
<1>8. CASE UNCHANGED treeVars
  BY <1>8 DEF treeVars, TreeInv, Idle, Inserting, Erasing
<1> QED
  BY <1>1, <1>2, <1>3, <1>4, <1>5, <1>6, <1>7, <1>8 DEF TreeNext

(****************************************************************************)
(* Whatever is inserted into the tree and erased from it, and for any number *)
(* of nodes and any keys, the tree is a red-black tree whenever an operation *)
(* has ended, and in every round of the loops of _hev_rbtree_insert and      *)
(* _hev_rbtree_erase_color the invariants their comments state hold.         *)
(****************************************************************************)
THEOREM TreeIsRedBlack == TreeSpec => []RedBlack
<1>1. TreeInit => TreeInv
  BY InitTreeInv
<1>2. TreeInv /\ [TreeNext]_treeVars => TreeInv'
  BY NextTreeInv
<1>3. TreeInv => RedBlack
  BY InvRedBlack
<1> QED
  BY <1>1, <1>2, <1>3, PTL DEF TreeSpec

=============================================================================
