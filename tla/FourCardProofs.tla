--------------------------- MODULE FourCardProofs ---------------------------
(***************************************************************************)
(* Proofs about FourCard, for any ranks, streams and programs: that its    *)
(* variables have their types, that no operation on a reported cycle of    *)
(* event dependencies has completed (CyclesAreDeadlocks), and that streams *)
(* that block each other are reported (DeadlocksAreReported).              *)
(*                                                                         *)
(* The search for cycles is treated on its own, for every finite graph:    *)
(* with its invariant SearchInv and a set that every turn makes smaller,   *)
(* it is shown to end, to report closed walks only, and to report one if   *)
(* there is a set of nodes each of which has a successor in the set.       *)
(*                                                                         *)
(* JobInv relates the logs, from which the graph is built, to the queues   *)
(* and to what the devices have completed.  Its main part, NoneHeld, says  *)
(* that among the completed operations none is a set each member of which  *)
(* had to come after another one: the operation that completes last would  *)
(* have come before one that it waits for.                                 *)
(***************************************************************************)
EXTENDS FourCard, FiniteSetTheorems, SequenceTheorems, WellFoundedInduction, TLAPS

USE DEF jobVars, harness, watch

-----------------------------------------------------------------------------
(* The search for cycles, for every finite graph.                          *)

\* The edges of a node lead to nodes.
Graph(edges) ==
    /\ IsFiniteSet(DOMAIN edges)
    /\ edges \in [DOMAIN edges -> SUBSET DOMAIN edges]

\* Every node of the set has a successor in the set.
Closed(edges, set) == \A node \in set : \E dest \in set : dest \in edges[node]

SearchTypes(edges, s) ==
    s \in [stack : Seq(DOMAIN edges), left : [DOMAIN edges -> SUBSET DOMAIN edges],
           visited : SUBSET DOMAIN edges, cycles : SUBSET Seq(DOMAIN edges)]

\* The stack is a path of nodes that have not been visited; the edges of a node
\* are looked at from when it is on the stack.
IsPath(edges, s) ==
    /\ \A i, j \in DOMAIN s.stack : s.stack[i] = s.stack[j] => i = j
    /\ \A i \in DOMAIN s.stack : s.stack[i] \notin s.visited
    /\ \A i \in 1..(Len(s.stack) - 1) : s.stack[i + 1] \in edges[s.stack[i]]
    /\ \A node \in DOMAIN edges : s.left[node] \subseteq edges[node]
    /\ \A node \in DOMAIN edges :
          node \in s.visited \cup Range(s.stack) \/ s.left[node] = edges[node]

CyclesClosed(edges, s) == \A c \in s.cycles : Closed(edges, Range(c))

\* As long as no cycle is found, the visited nodes lead to visited nodes only
\* and have no cycle, and what is looked at of a node of the stack leads to
\* visited nodes and to the next of the stack.
NothingMissed(edges, s) ==
    s.cycles = {} =>
       /\ \A node \in s.visited : edges[node] \subseteq s.visited
       /\ \A i \in DOMAIN s.stack : \A dest \in edges[s.stack[i]] \ s.left[s.stack[i]] :
             dest \in s.visited \/ (i < Len(s.stack) /\ dest = s.stack[i + 1])
       /\ \A set \in SUBSET s.visited : Closed(edges, set) => set = {}

SearchInv(edges, s) ==
    /\ SearchTypes(edges, s) /\ IsPath(edges, s)
    /\ CyclesClosed(edges, s) /\ NothingMissed(edges, s)

\* The facts about a nonempty stack that the cases of Turn need.
LEMMA TopOf ==
  ASSUME NEW edges, NEW s, SearchInv(edges, s), s.stack # << >>
  PROVE  /\ Len(s.stack) \in Nat \ {0} /\ Len(s.stack) \in DOMAIN s.stack
         /\ DOMAIN s.stack = 1..Len(s.stack)
         /\ \A i \in DOMAIN s.stack : s.stack[i] \in DOMAIN edges
         /\ Top(s.stack) = s.stack[Len(s.stack)]
         /\ Top(s.stack) \in DOMAIN edges /\ Top(s.stack) \notin s.visited
<1>1. s.stack \in Seq(DOMAIN edges)
  BY DEF SearchInv, SearchTypes
<1>2. Len(s.stack) \in Nat \ {0} /\ DOMAIN s.stack = 1..Len(s.stack)
  BY <1>1
<1>3. \A i \in DOMAIN s.stack : s.stack[i] \in DOMAIN edges
  BY <1>1
<1>4. Top(s.stack) \notin s.visited
  BY <1>2 DEF Top, SearchInv, IsPath
<1> QED BY <1>2, <1>3, <1>4 DEF Top

LEMMA ReturnKeeps ==
  ASSUME NEW edges, Graph(edges), NEW s, SearchInv(edges, s),
         s.stack # << >>, s.left[Top(s.stack)] = {}
  PROVE  SearchInv(edges, Return(s))
<1> DEFINE n == Len(s.stack)
<1> DEFINE top == Top(s.stack)
<1> DEFINE t == Return(s)
<1>1. /\ n \in Nat \ {0} /\ n \in DOMAIN s.stack /\ DOMAIN s.stack = 1..n
      /\ \A i \in DOMAIN s.stack : s.stack[i] \in DOMAIN edges
      /\ top = s.stack[n] /\ top \in DOMAIN edges /\ top \notin s.visited
  BY TopOf
<1>2. SearchTypes(edges, s) /\ IsPath(edges, s) /\ CyclesClosed(edges, s) /\ NothingMissed(edges, s)
  BY DEF SearchInv
<1>3. /\ Front(s.stack) \in Seq(DOMAIN edges) /\ Len(Front(s.stack)) = n - 1
      /\ DOMAIN Front(s.stack) = 1..(n - 1)
      /\ \A i \in 1..(n - 1) : Front(s.stack)[i] = s.stack[i]
  <2>1. s.stack \in Seq(DOMAIN edges)
    BY <1>2 DEF SearchTypes
  <2> QED BY <1>1, <2>1 DEF Front
<1>4. /\ t.stack = Front(s.stack) /\ t.left = s.left
      /\ t.visited = s.visited \cup {top} /\ t.cycles = s.cycles
  BY <1>2 DEF Return, SearchTypes
<1>typed. SearchTypes(edges, t)
  <2>1. t = [s EXCEPT !.stack = Front(s.stack), !.visited = s.visited \cup {top}]
    BY DEF Return
  <2>2. s.visited \cup {top} \in SUBSET DOMAIN edges
    BY <1>1, <1>2 DEF SearchTypes
  <2> HIDE DEF t, top, n
  <2> QED BY <1>2, <1>3, <2>1, <2>2 DEF SearchTypes
<1>shorter. /\ DOMAIN t.stack = 1..(n - 1) /\ Len(t.stack) = n - 1
      /\ \A i \in 1..(n - 1) : t.stack[i] = s.stack[i] /\ i \in DOMAIN s.stack
  BY <1>1, <1>3, <1>4
<1> HIDE DEF n, top, t
<1>5. Range(s.stack) = Range(t.stack) \cup {top}
  <2>1. \A i \in DOMAIN s.stack : i = n \/ i \in DOMAIN t.stack
    BY <1>1, <1>shorter
  <2>2. \A i \in DOMAIN t.stack : i \in DOMAIN s.stack /\ t.stack[i] = s.stack[i]
    BY <1>shorter
  <2> QED BY <1>1, <2>1, <2>2 DEF Range
<1>6. IsPath(edges, t)
  <2>1. \A i, j \in DOMAIN t.stack : t.stack[i] = t.stack[j] => i = j
    BY <1>2, <1>shorter DEF IsPath
  <2>2. \A i \in DOMAIN t.stack : t.stack[i] \notin t.visited
    <3> SUFFICES ASSUME NEW i \in 1..(n - 1) PROVE s.stack[i] \notin s.visited /\ s.stack[i] # top
      BY <1>4, <1>shorter
    <3>1. i \in DOMAIN s.stack /\ i # n
      BY <1>1, <1>shorter
    <3> QED BY <1>1, <1>2, <3>1 DEF IsPath
  <2>3. \A i \in 1..(Len(t.stack) - 1) : t.stack[i + 1] \in edges[t.stack[i]]
    <3> SUFFICES ASSUME NEW i \in 1..(n - 2) PROVE t.stack[i + 1] \in edges[t.stack[i]]
      BY <1>1, <1>3, <1>4
    <3>1. i \in 1..(n - 1) /\ i + 1 \in 1..(n - 1)
      BY <1>1
    <3>2. t.stack[i] = s.stack[i] /\ t.stack[i + 1] = s.stack[i + 1]
      BY <1>3, <1>4, <3>1
    <3> QED BY <1>2, <3>1, <3>2 DEF IsPath, n
  <2>4. \A node \in DOMAIN edges : t.left[node] \subseteq edges[node]
    BY <1>2, <1>4 DEF IsPath
  <2>5. \A node \in DOMAIN edges :
           node \in t.visited \cup Range(t.stack) \/ t.left[node] = edges[node]
    BY <1>2, <1>4, <1>5 DEF IsPath
  <2> QED BY <2>1, <2>2, <2>3, <2>4, <2>5 DEF IsPath
<1>7. CyclesClosed(edges, t)
  BY <1>2, <1>4 DEF CyclesClosed
<1>8. NothingMissed(edges, t)
  <2> SUFFICES ASSUME s.cycles = {}
               PROVE  /\ \A node \in t.visited : edges[node] \subseteq t.visited
                      /\ \A i \in DOMAIN t.stack :
                            \A dest \in edges[t.stack[i]] \ t.left[t.stack[i]] :
                               dest \in t.visited \/ (i < Len(t.stack) /\ dest = t.stack[i + 1])
                      /\ \A set \in SUBSET t.visited : Closed(edges, set) => set = {}
    BY <1>4 DEF NothingMissed
  <2>1. /\ \A node \in s.visited : edges[node] \subseteq s.visited
        /\ \A i \in DOMAIN s.stack : \A dest \in edges[s.stack[i]] \ s.left[s.stack[i]] :
              dest \in s.visited \/ (i < n /\ dest = s.stack[i + 1])
        /\ \A set \in SUBSET s.visited : Closed(edges, set) => set = {}
    BY <1>2 DEF NothingMissed, n
  <2>2. edges[top] \subseteq s.visited
    <3> SUFFICES ASSUME NEW dest \in edges[top] PROVE dest \in s.visited
      OBVIOUS
    <3>1. dest \in edges[s.stack[n]] \ s.left[s.stack[n]]
      BY <1>1 DEF top
    <3> QED BY <1>1, <2>1, <3>1
  <2>3. \A node \in t.visited : edges[node] \subseteq t.visited
    BY <1>4, <2>1, <2>2
  <2>4. ASSUME NEW i \in DOMAIN t.stack, NEW dest \in edges[t.stack[i]] \ t.left[t.stack[i]]
        PROVE  dest \in t.visited \/ (i < Len(t.stack) /\ dest = t.stack[i + 1])
    <3>1. i \in DOMAIN s.stack /\ i \in 1..(n - 1) /\ t.stack[i] = s.stack[i] /\ Len(t.stack) = n - 1
      BY <1>1, <1>3, <1>4
    <3>2. dest \in s.visited \/ dest = s.stack[i + 1]
      BY <2>1, <3>1, <1>4
    <3>3. CASE i = n - 1
      <4>1. s.stack[i + 1] = top
        BY <3>3, <1>1
      <4> QED BY <3>2, <4>1, <1>4
    <3>4. CASE i < n - 1
      <4>1. t.stack[i + 1] = s.stack[i + 1]
        BY <3>1, <3>4, <1>1, <1>3, <1>4
      <4> QED BY <3>1, <3>2, <3>4, <4>1, <1>4
    <3> QED BY <3>1, <3>3, <3>4, <1>1
  <2>5. ASSUME NEW set \in SUBSET t.visited, Closed(edges, set) PROVE set = {}
    <3>1. Closed(edges, set \ {top})
      <4> SUFFICES ASSUME NEW node \in set \ {top}
                   PROVE  \E dest \in set \ {top} : dest \in edges[node]
        BY DEF Closed
      <4>1. PICK dest \in set : dest \in edges[node]
        BY <2>5 DEF Closed
      <4>2. edges[node] \subseteq s.visited
        BY <1>4, <2>1
      <4> QED BY <4>1, <4>2, <1>1
    <3>2. set \ {top} = {}
      BY <2>1, <3>1, <1>4
    <3>3. top \notin set
      <4> SUFFICES ASSUME top \in set PROVE FALSE
        OBVIOUS
      <4>1. PICK dest \in set : dest \in edges[top]
        BY <2>5 DEF Closed
      <4> QED BY <4>1, <3>2, <2>2, <1>1
    <3> QED BY <3>2, <3>3
  <2> QED BY <2>3, <2>4, <2>5
<1> QED BY <1>typed, <1>6, <1>7, <1>8 DEF SearchInv, t

\* What following an edge leaves of the loop of the top of the stack.
Looked(s, dest) == [s EXCEPT !.left[Top(s.stack)] = @ \ {dest}]

LEMMA LookedAt ==
  ASSUME NEW edges, Graph(edges), NEW s, SearchInv(edges, s), s.stack # << >>,
         NEW dest \in s.left[Top(s.stack)]
  PROVE  /\ dest \in DOMAIN edges /\ dest \in edges[Top(s.stack)]
         /\ Looked(s, dest).stack = s.stack /\ Looked(s, dest).visited = s.visited
         /\ Looked(s, dest).cycles = s.cycles
         /\ Looked(s, dest).left =
               [s.left EXCEPT ![Top(s.stack)] = s.left[Top(s.stack)] \ {dest}]
         /\ SearchTypes(edges, Looked(s, dest))
<1> DEFINE t == Looked(s, dest)
<1> DEFINE top == Top(s.stack)
<1>1. top \in DOMAIN edges
  BY TopOf
<1>2. s.left \in [DOMAIN edges -> SUBSET DOMAIN edges] /\ s.left[top] \subseteq edges[top]
  BY <1>1 DEF SearchInv, SearchTypes, IsPath
<1>3. t.stack = s.stack /\ t.visited = s.visited /\ t.cycles = s.cycles
  BY DEF SearchInv, SearchTypes, Looked
<1>4. t.left = [s.left EXCEPT ![top] = s.left[top] \ {dest}]
  BY DEF SearchInv, SearchTypes, Looked
<1>5. [s.left EXCEPT ![top] = s.left[top] \ {dest}] \in [DOMAIN edges -> SUBSET DOMAIN edges]
  BY <1>1, <1>2
<1>6. t = [s EXCEPT !.left = [s.left EXCEPT ![top] = s.left[top] \ {dest}]]
  BY DEF Looked
<1> HIDE DEF t
<1>7. t \in [stack : Seq(DOMAIN edges), left : [DOMAIN edges -> SUBSET DOMAIN edges],
             visited : SUBSET DOMAIN edges, cycles : SUBSET Seq(DOMAIN edges)]
  BY <1>5, <1>6 DEF SearchInv, SearchTypes
<1>8. dest \in DOMAIN edges /\ dest \in edges[top]
  BY <1>1, <1>2
<1> QED BY <1>3, <1>4, <1>7, <1>8 DEF t, SearchTypes

\* A loop is closed by the edge that was followed.
LEMMA LoopCloses ==
  ASSUME NEW edges, Graph(edges), NEW s, SearchInv(edges, s), s.stack # << >>,
         NEW dest \in edges[Top(s.stack)], dest \in Range(s.stack)
  PROVE  /\ Loop(s.stack, dest) \in Seq(DOMAIN edges)
         /\ Closed(edges, Range(Loop(s.stack, dest)))
<1> DEFINE n == Len(s.stack)
<1> DEFINE k == CHOOSE i \in DOMAIN s.stack : s.stack[i] = dest
<1> DEFINE c == Loop(s.stack, dest)
<1>1. /\ n \in Nat \ {0} /\ n \in DOMAIN s.stack /\ DOMAIN s.stack = 1..n
      /\ \A i \in DOMAIN s.stack : s.stack[i] \in DOMAIN edges
      /\ Top(s.stack) = s.stack[n]
  BY TopOf
<1>2. k \in DOMAIN s.stack /\ s.stack[k] = dest
  BY DEF Range
<1>3. s.stack \in Seq(DOMAIN edges)
  BY DEF SearchInv, SearchTypes
<1>4. c = SubSeq(s.stack, k, n)
  BY DEF Loop
<1> HIDE DEF k, c
<1>5. k \in 1..n /\ n - k + 1 \in Nat \ {0}
  BY <1>1, <1>2
<1>6. /\ c \in Seq(DOMAIN edges) /\ Len(c) = n - k + 1 /\ DOMAIN c = 1..(n - k + 1)
      /\ \A i \in 1..(n - k + 1) : c[i] = s.stack[k + i - 1]
  BY <1>1, <1>3, <1>4, <1>5
<1> HIDE DEF n
<1>7. ASSUME NEW i \in DOMAIN c PROVE \E j \in DOMAIN c : c[j] \in edges[c[i]]
  <2>1. CASE i = n - k + 1
    <3>1. c[i] = s.stack[n] /\ 1 \in DOMAIN c /\ c[1] = dest
      <4>1. k + i - 1 = n /\ k + 1 - 1 = k /\ 1 \in 1..(n - k + 1) /\ i \in 1..(n - k + 1)
        BY <2>1, <1>1, <1>5
      <4> QED BY <4>1, <1>2, <1>6
    <3> QED BY <3>1, <1>1
  <2>2. CASE i # n - k + 1
    <3>1. i \in 1..(n - k + 1) /\ i + 1 \in DOMAIN c /\ k + i - 1 \in 1..(n - 1)
      <4>1. i \in 1..(n - k + 1)
        BY <1>6
      <4>2. i + 1 \in 1..(n - k + 1) /\ k + i - 1 \in 1..(n - 1)
        <5>1. n \in Int /\ k \in Int /\ i \in Int /\ 1 <= k /\ k <= n /\ 1 <= i /\ i < n - k + 1
          BY <2>2, <4>1, <1>1, <1>5
        <5> QED BY <5>1
      <4> QED BY <4>1, <4>2, <1>6
    <3>2. c[i] = s.stack[k + i - 1] /\ c[i + 1] = s.stack[(k + i - 1) + 1]
      <4>1. k + (i + 1) - 1 = (k + i - 1) + 1
        BY <3>1, <1>5
      <4> QED BY <3>1, <4>1, <1>6
    <3>3. s.stack[(k + i - 1) + 1] \in edges[s.stack[k + i - 1]]
      BY <3>1 DEF SearchInv, IsPath, n
    <3> QED BY <3>1, <3>2, <3>3
  <2> QED BY <2>1, <2>2
<1>8. Closed(edges, Range(c))
  BY <1>7 DEF Closed, Range
<1> QED BY <1>6, <1>8 DEF c

\* What every case of Follow keeps of the path, and what it does of the rest.
LEMMA LookedKeeps ==
  ASSUME NEW edges, Graph(edges), NEW s, SearchInv(edges, s), s.stack # << >>,
         NEW dest \in s.left[Top(s.stack)]
  PROVE  LET t == Looked(s, dest) IN
         /\ SearchTypes(edges, t) /\ IsPath(edges, t) /\ CyclesClosed(edges, t)
         /\ s.cycles = {} =>
              /\ \A node \in t.visited : edges[node] \subseteq t.visited
              /\ \A i \in DOMAIN t.stack : \A d \in edges[t.stack[i]] \ t.left[t.stack[i]] :
                    \/ d \in t.visited
                    \/ i < Len(t.stack) /\ d = t.stack[i + 1]
                    \/ i = Len(t.stack) /\ d = dest
              /\ \A set \in SUBSET t.visited : Closed(edges, set) => set = {}
<1> DEFINE t == Looked(s, dest)
<1> DEFINE top == Top(s.stack)
<1> DEFINE n == Len(s.stack)
<1>1. /\ n \in Nat \ {0} /\ n \in DOMAIN s.stack /\ DOMAIN s.stack = 1..n
      /\ \A i \in DOMAIN s.stack : s.stack[i] \in DOMAIN edges
      /\ top = s.stack[n] /\ top \in DOMAIN edges
  BY TopOf
<1>2. /\ dest \in DOMAIN edges /\ dest \in edges[top]
      /\ t.stack = s.stack /\ t.visited = s.visited /\ t.cycles = s.cycles
      /\ t.left = [s.left EXCEPT ![top] = s.left[top] \ {dest}]
      /\ SearchTypes(edges, t)
  BY LookedAt
<1>3. IsPath(edges, s) /\ CyclesClosed(edges, s) /\ NothingMissed(edges, s)
      /\ s.left \in [DOMAIN edges -> SUBSET DOMAIN edges]
  BY DEF SearchInv, SearchTypes
<1> HIDE DEF t, top, n
<1>4. \A node \in DOMAIN edges :
         t.left[node] = IF node = top THEN s.left[top] \ {dest} ELSE s.left[node]
  BY <1>2, <1>3
<1>5. top \in Range(s.stack)
  BY <1>1 DEF Range
<1>6. IsPath(edges, t)
  BY <1>2, <1>3, <1>4, <1>5 DEF IsPath
<1>7. CyclesClosed(edges, t)
  BY <1>2, <1>3 DEF CyclesClosed
<1>8. ASSUME s.cycles = {}
      PROVE  /\ \A node \in s.visited : edges[node] \subseteq s.visited
             /\ \A set \in SUBSET s.visited : Closed(edges, set) => set = {}
  BY <1>3, <1>8 DEF NothingMissed
<1>9. ASSUME s.cycles = {},
             NEW i \in DOMAIN t.stack, NEW d \in edges[t.stack[i]] \ t.left[t.stack[i]]
      PROVE  \/ d \in t.visited
             \/ i < Len(t.stack) /\ d = t.stack[i + 1]
             \/ i = Len(t.stack) /\ d = dest
  <2>1. \A j \in DOMAIN s.stack : \A e \in edges[s.stack[j]] \ s.left[s.stack[j]] :
           e \in s.visited \/ (j < n /\ e = s.stack[j + 1])
    BY <1>3, <1>9 DEF NothingMissed, n
  <2>2. i \in 1..n /\ i \in DOMAIN s.stack /\ t.stack[i] = s.stack[i]
    BY <1>1, <1>2
  <2>3. CASE d \notin s.left[s.stack[i]]
    <3>1. d \in edges[s.stack[i]] \ s.left[s.stack[i]]
      BY <2>2, <2>3
    <3> QED BY <2>1, <2>2, <3>1, <1>2 DEF n
  <2>4. CASE d \in s.left[s.stack[i]]
    <3>1. s.stack[i] = top /\ d = dest
      BY <2>2, <2>4, <1>1, <1>4
    <3>2. i = n
      BY <3>1, <2>2, <1>1, <1>3 DEF IsPath
    <3> QED BY <3>1, <3>2, <1>2 DEF n
  <2> QED BY <2>3, <2>4
<1>missed. s.cycles = {} =>
        /\ \A node \in t.visited : edges[node] \subseteq t.visited
        /\ \A i \in DOMAIN t.stack : \A d \in edges[t.stack[i]] \ t.left[t.stack[i]] :
              \/ d \in t.visited
              \/ i < Len(t.stack) /\ d = t.stack[i + 1]
              \/ i = Len(t.stack) /\ d = dest
        /\ \A set \in SUBSET t.visited : Closed(edges, set) => set = {}
  BY <1>2, <1>8, <1>9
<1> QED BY <1>2, <1>6, <1>7, <1>missed DEF t

LEMMA FollowKeeps ==
  ASSUME NEW edges, Graph(edges), NEW s, SearchInv(edges, s), s.stack # << >>,
         NEW dest \in s.left[Top(s.stack)]
  PROVE  SearchInv(edges, Follow(s, dest))
<1> DEFINE n == Len(s.stack)
<1>1. /\ n \in Nat \ {0} /\ n \in DOMAIN s.stack /\ DOMAIN s.stack = 1..n
      /\ \A i \in DOMAIN s.stack : s.stack[i] \in DOMAIN edges
      /\ Top(s.stack) = s.stack[n]
  BY TopOf
<1>2. /\ dest \in DOMAIN edges /\ dest \in edges[Top(s.stack)]
      /\ Looked(s, dest).stack = s.stack /\ Looked(s, dest).visited = s.visited
      /\ Looked(s, dest).cycles = s.cycles
      /\ Looked(s, dest).left =
            [s.left EXCEPT ![Top(s.stack)] = s.left[Top(s.stack)] \ {dest}]
      /\ SearchTypes(edges, Looked(s, dest))
  BY LookedAt
<1> DEFINE t == Looked(s, dest)
<1>node. /\ dest \in DOMAIN edges /\ dest \in edges[s.stack[n]]
      /\ t.stack = s.stack /\ t.visited = s.visited /\ t.cycles = s.cycles
  BY <1>1, <1>2
<1>3. /\ SearchTypes(edges, t) /\ IsPath(edges, t) /\ CyclesClosed(edges, t)
      /\ s.cycles = {} =>
           /\ \A node \in t.visited : edges[node] \subseteq t.visited
           /\ \A i \in DOMAIN t.stack : \A d \in edges[t.stack[i]] \ t.left[t.stack[i]] :
                 \/ d \in t.visited
                 \/ i < Len(t.stack) /\ d = t.stack[i + 1]
                 \/ i = Len(t.stack) /\ d = dest
           /\ \A set \in SUBSET t.visited : Closed(edges, set) => set = {}
  BY LookedKeeps
<1> DEFINE u == Follow(s, dest)
<1>4. CASE dest \in Range(s.stack)
  <2> DEFINE c == Loop(s.stack, dest)
  <2>1. u = [t EXCEPT !.cycles = @ \cup {c}]
    BY <1>4 DEF Follow, Looked
  <2>2. c \in Seq(DOMAIN edges) /\ Closed(edges, Range(c))
    BY LoopCloses, <1>1, <1>node, <1>4
  <2> HIDE DEF t, u, c
  <2>3. /\ u.stack = t.stack /\ u.left = t.left /\ u.visited = t.visited
        /\ u.cycles = t.cycles \cup {c}
    BY <2>1, <1>3 DEF SearchTypes
  <2>4. SearchTypes(edges, u)
    BY <2>1, <2>2, <1>3 DEF SearchTypes
  <2>5. IsPath(edges, u)
    BY <2>3, <1>3 DEF IsPath
  <2>6. CyclesClosed(edges, u)
    BY <2>2, <2>3, <1>3 DEF CyclesClosed
  <2>7. NothingMissed(edges, u)
    BY <2>3 DEF NothingMissed
  <2> QED BY <2>4, <2>5, <2>6, <2>7 DEF SearchInv, u
<1>5. CASE dest \notin Range(s.stack) /\ dest \in s.visited
  <2>1. u = t
    BY <1>5 DEF Follow, Looked
  <2> HIDE DEF t, u
  <2>2. NothingMissed(edges, t)
    BY <1>node, <1>3, <1>5 DEF NothingMissed
  <2> QED BY <2>1, <2>2, <1>3 DEF SearchInv, u
<1>6. CASE dest \notin Range(s.stack) /\ dest \notin s.visited
  <2>1. u = [t EXCEPT !.stack = Append(@, dest)]
    BY <1>6 DEF Follow, Looked
  <2> HIDE DEF t, u
  <2>2. /\ u.stack = Append(s.stack, dest) /\ u.left = t.left /\ u.visited = t.visited
        /\ u.cycles = t.cycles
    BY <2>1, <1>node, <1>3 DEF SearchTypes
  <2>3. s.stack \in Seq(DOMAIN edges)
    BY <1>node, <1>3 DEF SearchTypes
  <2>4. /\ Len(u.stack) = n + 1 /\ DOMAIN u.stack = 1..(n + 1)
        /\ u.stack[n + 1] = dest /\ \A i \in 1..n : u.stack[i] = s.stack[i]
        /\ u.stack \in Seq(DOMAIN edges)
    BY <2>2, <2>3, <1>1, <1>node
  <2>5. SearchTypes(edges, u)
    BY <2>1, <2>2, <2>4, <1>3 DEF SearchTypes
  <2> HIDE DEF n
  <2>6. Range(u.stack) = Range(s.stack) \cup {dest}
    <3>1. \A i \in DOMAIN u.stack : i = n + 1 \/ i \in DOMAIN s.stack
      BY <2>4, <1>1
    <3>2. n + 1 \in DOMAIN u.stack /\ \A i \in DOMAIN s.stack : i \in DOMAIN u.stack
      BY <2>4, <1>1
    <3> QED BY <3>1, <3>2, <2>4, <1>1 DEF Range
  <2>7. \A i \in 1..n : s.stack[i] # dest
    BY <1>1, <1>6 DEF Range
  <2>8. IsPath(edges, u)
    <3>1. \A i, j \in DOMAIN u.stack : u.stack[i] = u.stack[j] => i = j
      <4> SUFFICES ASSUME NEW i \in 1..(n + 1), NEW j \in 1..(n + 1), u.stack[i] = u.stack[j]
                   PROVE  i = j
        BY <2>4
      <4>1. CASE i \in 1..n /\ j \in 1..n
        BY <4>1, <2>4, <1>1, <1>node, <1>3 DEF IsPath
      <4>2. CASE i = n + 1 /\ j \in 1..n
        BY <4>2, <2>4, <2>7
      <4>3. CASE j = n + 1 /\ i \in 1..n
        BY <4>3, <2>4, <2>7
      <4> QED BY <4>1, <4>2, <4>3, <1>1
    <3>2. \A i \in DOMAIN u.stack : u.stack[i] \notin u.visited
      <4> SUFFICES ASSUME NEW i \in 1..(n + 1) PROVE u.stack[i] \notin s.visited
        BY <2>2, <2>4, <1>node
      <4>1. CASE i \in 1..n
        BY <4>1, <2>4, <1>1, <1>node, <1>3 DEF IsPath
      <4>2. CASE i = n + 1
        BY <4>2, <2>4, <1>6
      <4> QED BY <4>1, <4>2, <1>1
    <3>3. \A i \in 1..(Len(u.stack) - 1) : u.stack[i + 1] \in edges[u.stack[i]]
      <4> SUFFICES ASSUME NEW i \in 1..n PROVE u.stack[i + 1] \in edges[s.stack[i]]
        BY <2>4, <1>1
      <4>1. CASE i = n
        BY <4>1, <2>4, <1>node
      <4>2. CASE i # n
        <5>1. i \in 1..(n - 1) /\ i + 1 \in 1..n
          BY <4>2, <1>1
        <5>2. s.stack[i + 1] \in edges[s.stack[i]]
          BY <5>1, <1>node, <1>3 DEF IsPath, n
        <5> QED BY <5>1, <5>2, <2>4
      <4> QED BY <4>1, <4>2
    <3>4. /\ \A node \in DOMAIN edges : u.left[node] \subseteq edges[node]
          /\ \A node \in DOMAIN edges :
                node \in u.visited \cup Range(u.stack) \/ u.left[node] = edges[node]
      BY <2>2, <2>6, <1>node, <1>3 DEF IsPath
    <3> QED BY <3>1, <3>2, <3>3, <3>4 DEF IsPath
  <2>9. CyclesClosed(edges, u)
    BY <2>2, <1>3 DEF CyclesClosed
  <2>10. ASSUME u.cycles = {},
                NEW i \in DOMAIN u.stack, NEW d \in edges[u.stack[i]] \ u.left[u.stack[i]]
         PROVE  d \in u.visited \/ (i < Len(u.stack) /\ d = u.stack[i + 1])
    <3>1. i \in 1..(n + 1) /\ s.cycles = {}
      BY <2>2, <2>4, <2>10, <1>node
    <3>2. CASE i = n + 1
      <4>1. u.stack[i] = dest /\ dest \notin t.visited \cup Range(t.stack)
        BY <3>2, <2>4, <1>node, <1>6
      <4>2. t.left[dest] = edges[dest]
        BY <4>1, <1>node, <1>3 DEF IsPath
      <4> QED BY <4>1, <4>2, <2>2
    <3>3. CASE i # n + 1
      <4>1. i \in 1..n /\ i \in DOMAIN t.stack /\ u.stack[i] = t.stack[i] /\ Len(t.stack) = n
        BY <3>1, <3>3, <2>4, <1>1, <1>node DEF n
      <4>2. \/ d \in t.visited
            \/ i < n /\ d = s.stack[i + 1]
            \/ i = n /\ d = dest
        BY <3>1, <4>1, <2>2, <1>node, <1>3
      <4>3. CASE d \in t.visited
        BY <4>3, <2>2
      <4>4. CASE i < n /\ d = s.stack[i + 1]
        <5>1. i + 1 \in 1..n /\ i < n + 1
          BY <4>1, <4>4, <1>1
        <5> QED BY <5>1, <4>4, <2>4
      <4>5. CASE i = n /\ d = dest
        <5>1. i < n + 1
          BY <4>5, <1>1
        <5> QED BY <5>1, <4>5, <2>4
      <4> QED BY <4>2, <4>3, <4>4, <4>5
    <3> QED BY <3>2, <3>3
  <2>11. NothingMissed(edges, u)
    BY <2>2, <2>10, <1>node, <1>3 DEF NothingMissed
  <2> QED BY <2>5, <2>8, <2>9, <2>11 DEF SearchInv, u
<1> QED BY <1>4, <1>5, <1>6

LEMMA BeginKeeps ==
  ASSUME NEW edges, Graph(edges), NEW s, SearchInv(edges, s), s.stack = << >>,
         NEW node \in DOMAIN edges \ s.visited
  PROVE  SearchInv(edges, [s EXCEPT !.stack = <<node>>])
<1> DEFINE t == [s EXCEPT !.stack = <<node>>]
<1>1. /\ t.stack = <<node>> /\ t.left = s.left /\ t.visited = s.visited /\ t.cycles = s.cycles
      /\ SearchTypes(edges, t)
  <2>1. <<node>> \in Seq(DOMAIN edges)
    OBVIOUS
  <2>2. SearchTypes(edges, s)
    BY DEF SearchInv
  <2> QED BY <2>1, <2>2 DEF SearchTypes
<1> HIDE DEF t
<1>2. DOMAIN t.stack = {1} /\ t.stack[1] = node /\ Len(t.stack) = 1
  BY <1>1
<1>3. Range(s.stack) = {}
  BY DEF Range
<1>4. s.left[node] = edges[node]
  BY <1>3 DEF SearchInv, IsPath
<1>5. IsPath(edges, t)
  BY <1>1, <1>2, <1>3 DEF SearchInv, IsPath
<1>6. NothingMissed(edges, t)
  BY <1>1, <1>2, <1>4 DEF SearchInv, NothingMissed
<1>7. CyclesClosed(edges, t)
  BY <1>1 DEF SearchInv, CyclesClosed
<1> QED BY <1>1, <1>5, <1>6, <1>7 DEF SearchInv, t

LEMMA SearchStarts ==
  ASSUME NEW edges, Graph(edges) PROVE SearchInv(edges, Searching(edges))
<1> DEFINE s == Searching(edges)
<1>1. s.stack = << >> /\ s.left = edges /\ s.visited = {} /\ s.cycles = {}
  BY DEF Searching
<1>2. SearchTypes(edges, s)
  BY DEF Searching, SearchTypes, Graph
<1> HIDE DEF s
<1>3. IsPath(edges, s)
  BY <1>1 DEF IsPath
<1>4. CyclesClosed(edges, s) /\ NothingMissed(edges, s)
  BY <1>1 DEF CyclesClosed, NothingMissed
<1> QED BY <1>2, <1>3, <1>4 DEF SearchInv, s

Finished(edges, s) == s.stack = << >> /\ DOMAIN edges \subseteq s.visited

\* A turn looks at an edge, enters a node or leaves one.
Unlooked(edges, s) == {a \in (DOMAIN edges) \X (DOMAIN edges) : a[2] \in s.left[a[1]]}
Unreturned(edges, s) == DOMAIN edges \ s.visited
Unentered(edges, s) == DOMAIN edges \ (s.visited \cup Range(s.stack))
Remaining(edges, s) ==
    Cardinality(Unlooked(edges, s)) + Cardinality(Unreturned(edges, s))
      + Cardinality(Unentered(edges, s))

LEMMA RemainingFinite ==
  ASSUME NEW edges, Graph(edges), NEW s
  PROVE  /\ IsFiniteSet(Unlooked(edges, s)) /\ IsFiniteSet(Unreturned(edges, s))
         /\ IsFiniteSet(Unentered(edges, s))
         /\ Cardinality(Unlooked(edges, s)) \in Nat
         /\ Cardinality(Unreturned(edges, s)) \in Nat
         /\ Cardinality(Unentered(edges, s)) \in Nat
         /\ Remaining(edges, s) \in Nat
<1>1. IsFiniteSet(DOMAIN edges) /\ IsFiniteSet((DOMAIN edges) \X (DOMAIN edges))
  <2>1. IsFiniteSet(DOMAIN edges)
    BY DEF Graph
  <2>2. \A S, T : IsFiniteSet(S) /\ IsFiniteSet(T) => IsFiniteSet(S \X T)
    BY FS_Product, Zenon
  <2> QED BY <2>1, <2>2, Zenon
<1>2. IsFiniteSet(Unlooked(edges, s))
  BY <1>1, FS_Subset, Unlooked(edges, s) \in SUBSET ((DOMAIN edges) \X (DOMAIN edges)) DEF Unlooked
<1>3. IsFiniteSet(Unreturned(edges, s)) /\ IsFiniteSet(Unentered(edges, s))
  BY <1>1, FS_Subset, Unreturned(edges, s) \in SUBSET DOMAIN edges,
     Unentered(edges, s) \in SUBSET DOMAIN edges DEF Unreturned, Unentered
<1>4. /\ Cardinality(Unlooked(edges, s)) \in Nat
      /\ Cardinality(Unreturned(edges, s)) \in Nat
      /\ Cardinality(Unentered(edges, s)) \in Nat
  BY <1>2, <1>3, FS_CardinalityType
<1> QED BY <1>2, <1>3, <1>4 DEF Remaining

\* One set loses an element and the others lose none.
LEMMA OneLess ==
  ASSUME NEW S, NEW T, NEW x, IsFiniteSet(S), T \subseteq S, x \in S, x \notin T
  PROVE  IsFiniteSet(T) /\ Cardinality(T) < Cardinality(S)
<1>1. IsFiniteSet(S \ {x}) /\ Cardinality(S \ {x}) = Cardinality(S) - 1
  BY FS_RemoveElement
<1>2. T \in SUBSET (S \ {x})
  OBVIOUS
<1>3. IsFiniteSet(T) /\ Cardinality(T) <= Cardinality(S \ {x})
  BY <1>1, <1>2, FS_Subset
<1>4. Cardinality(S) \in Nat /\ Cardinality(T) \in Nat
  BY <1>3, FS_CardinalityType
<1> QED BY <1>1, <1>3, <1>4

LEMMA RemainingFalls ==
  ASSUME NEW edges, Graph(edges), NEW s, NEW t,
         Unlooked(edges, t) \subseteq Unlooked(edges, s),
         Unreturned(edges, t) \subseteq Unreturned(edges, s),
         Unentered(edges, t) \subseteq Unentered(edges, s),
         \/ \E a \in Unlooked(edges, s) : a \notin Unlooked(edges, t)
         \/ \E a \in Unreturned(edges, s) : a \notin Unreturned(edges, t)
         \/ \E a \in Unentered(edges, s) : a \notin Unentered(edges, t)
  PROVE  Remaining(edges, t) < Remaining(edges, s)
<1>1. /\ IsFiniteSet(Unlooked(edges, s)) /\ IsFiniteSet(Unreturned(edges, s))
      /\ IsFiniteSet(Unentered(edges, s))
      /\ Cardinality(Unlooked(edges, s)) \in Nat
      /\ Cardinality(Unreturned(edges, s)) \in Nat
      /\ Cardinality(Unentered(edges, s)) \in Nat
  BY RemainingFinite
<1>2. /\ Cardinality(Unlooked(edges, t)) \in Nat
      /\ Cardinality(Unreturned(edges, t)) \in Nat
      /\ Cardinality(Unentered(edges, t)) \in Nat
  BY RemainingFinite
<1>3. /\ Cardinality(Unlooked(edges, t)) <= Cardinality(Unlooked(edges, s))
      /\ Cardinality(Unreturned(edges, t)) <= Cardinality(Unreturned(edges, s))
      /\ Cardinality(Unentered(edges, t)) <= Cardinality(Unentered(edges, s))
  BY <1>1, FS_Subset
<1>4. \/ Cardinality(Unlooked(edges, t)) < Cardinality(Unlooked(edges, s))
      \/ Cardinality(Unreturned(edges, t)) < Cardinality(Unreturned(edges, s))
      \/ Cardinality(Unentered(edges, t)) < Cardinality(Unentered(edges, s))
  BY <1>1, OneLess
<1> QED BY <1>1, <1>2, <1>3, <1>4 DEF Remaining

LEMMA TurnKeeps ==
  ASSUME NEW edges, Graph(edges), NEW s, SearchInv(edges, s)
  PROVE  /\ SearchInv(edges, Turn(edges, s))
         /\ Finished(edges, s) => Turn(edges, s) = s
         /\ ~Finished(edges, s) => Remaining(edges, Turn(edges, s)) < Remaining(edges, s)
<1> DEFINE t == Turn(edges, s)
<1>1. CASE s.stack # << >> /\ s.left[Top(s.stack)] = {}
  <2>1. t = Return(s)
    BY <1>1 DEF Turn
  <2>2. SearchInv(edges, t)
    BY <1>1, <2>1, ReturnKeeps
  <2>3. Remaining(edges, t) < Remaining(edges, s)
    <3> DEFINE n == Len(s.stack)
    <3> DEFINE top == Top(s.stack)
    <3>1. /\ n \in Nat \ {0} /\ DOMAIN s.stack = 1..n
          /\ top = s.stack[n] /\ top \in DOMAIN edges /\ top \notin s.visited
      BY <1>1, TopOf
    <3>2. s.stack \in Seq(DOMAIN edges)
      BY DEF SearchInv, SearchTypes
    <3>3. t.left = s.left /\ t.visited = s.visited \cup {top} /\ t.stack = Front(s.stack)
      BY <2>1 DEF Return, SearchInv, SearchTypes
    <3>4. /\ DOMAIN Front(s.stack) = 1..(n - 1)
          /\ \A i \in 1..(n - 1) : Front(s.stack)[i] = s.stack[i]
      BY <3>1, <3>2 DEF Front
    <3> HIDE DEF n, top, t
    <3>5. \A i \in DOMAIN s.stack : i = n \/ i \in 1..(n - 1)
      BY <3>1
    <3>6. Range(s.stack) \subseteq Range(t.stack) \cup {top}
      BY <3>1, <3>3, <3>4, <3>5 DEF Range
    <3>7. /\ Unlooked(edges, t) = Unlooked(edges, s)
          /\ Unreturned(edges, t) \subseteq Unreturned(edges, s)
          /\ Unentered(edges, t) \subseteq Unentered(edges, s)
      BY <3>3, <3>6 DEF Unlooked, Unreturned, Unentered
    <3>8. top \in Unreturned(edges, s) /\ top \notin Unreturned(edges, t)
      BY <3>1, <3>3 DEF Unreturned
    <3> QED BY <3>7, <3>8, RemainingFalls
  <2> QED BY <1>1, <2>2, <2>3 DEF Finished
<1>2. CASE s.stack # << >> /\ s.left[Top(s.stack)] # {}
  <2> DEFINE dest == CHOOSE d \in s.left[Top(s.stack)] : TRUE
  <2> DEFINE u == Looked(s, dest)
  <2> DEFINE top == Top(s.stack)
  <2>1. t = Follow(s, dest) /\ dest \in s.left[Top(s.stack)]
    BY <1>2 DEF Turn
  <2> HIDE DEF dest
  <2>2. SearchInv(edges, t)
    BY <1>2, <2>1, FollowKeeps
  <2>3. Remaining(edges, t) < Remaining(edges, s)
    <3>1. top \in DOMAIN edges
      BY <1>2, TopOf
    <3>2. /\ dest \in DOMAIN edges /\ dest \in edges[Top(s.stack)]
          /\ Looked(s, dest).stack = s.stack /\ Looked(s, dest).visited = s.visited
          /\ Looked(s, dest).cycles = s.cycles
          /\ Looked(s, dest).left =
                [s.left EXCEPT ![Top(s.stack)] = s.left[Top(s.stack)] \ {dest}]
          /\ SearchTypes(edges, Looked(s, dest))
      BY <1>2, <2>1, LookedAt
    <3>3. \/ t = [u EXCEPT !.cycles = @ \cup {Loop(s.stack, dest)}]
          \/ t = u
          \/ t = [u EXCEPT !.stack = Append(s.stack, dest)]
      BY <2>1, <3>2 DEF Follow, Looked
    <3> HIDE DEF u, t
    <3>4. t.left = u.left /\ t.visited = u.visited /\ t.stack \in {u.stack, Append(s.stack, dest)}
      BY <3>2, <3>3 DEF SearchTypes, u
    <3>5. s.stack \in Seq(DOMAIN edges) /\ s.left \in [DOMAIN edges -> SUBSET DOMAIN edges]
      BY DEF SearchInv, SearchTypes
    <3>6. Range(s.stack) \subseteq Range(Append(s.stack, dest))
      BY <3>2, <3>5 DEF Range
    <3>7. Range(s.stack) \subseteq Range(t.stack)
      BY <3>2, <3>4, <3>6 DEF u
    <3>8. t.left = [s.left EXCEPT ![top] = s.left[top] \ {dest}] /\ t.visited = s.visited
      BY <3>2, <3>4 DEF u
    <3> HIDE DEF top
    <3>9. <<top, dest>> \in Unlooked(edges, s) /\ <<top, dest>> \notin Unlooked(edges, t)
      <4> DEFINE a == <<top, dest>>
      <4>1. a \in (DOMAIN edges) \X (DOMAIN edges) /\ a[1] = top /\ a[2] = dest
        BY <3>1, <3>2, Zenon
      <4>2. dest \in s.left[top] /\ dest \notin t.left[top]
        BY <2>1, <3>1, <3>5, <3>8 DEF top
      <4> QED BY <4>1, <4>2 DEF Unlooked
    <3>10. Unlooked(edges, t) \subseteq Unlooked(edges, s)
      BY <3>1, <3>5, <3>8 DEF Unlooked
    <3>11. /\ Unreturned(edges, t) = Unreturned(edges, s)
           /\ Unentered(edges, t) \subseteq Unentered(edges, s)
      BY <3>7, <3>8 DEF Unreturned, Unentered
    <3> QED BY <3>9, <3>10, <3>11, RemainingFalls
  <2> QED BY <1>2, <2>2, <2>3 DEF Finished
<1>3. CASE s.stack = << >> /\ DOMAIN edges \subseteq s.visited
  BY <1>3 DEF Turn, Finished
<1>4. CASE s.stack = << >> /\ ~(DOMAIN edges \subseteq s.visited)
  <2> DEFINE node == CHOOSE d \in DOMAIN edges \ s.visited : TRUE
  <2>1. t = [s EXCEPT !.stack = <<node>>] /\ node \in DOMAIN edges \ s.visited
    BY <1>4 DEF Turn
  <2> HIDE DEF node
  <2>2. SearchInv(edges, t)
    BY <1>4, <2>1, BeginKeeps
  <2>3. Remaining(edges, t) < Remaining(edges, s)
    <3>1. t.stack = <<node>> /\ t.left = s.left /\ t.visited = s.visited
      BY <2>1 DEF SearchInv, SearchTypes
    <3> HIDE DEF t
    <3>2. Range(s.stack) = {} /\ node \in Range(t.stack)
      BY <1>4, <3>1 DEF Range
    <3>3. /\ Unlooked(edges, t) = Unlooked(edges, s)
          /\ Unreturned(edges, t) = Unreturned(edges, s)
          /\ Unentered(edges, t) \subseteq Unentered(edges, s)
      BY <3>1, <3>2 DEF Unlooked, Unreturned, Unentered
    <3>4. node \in Unentered(edges, s) /\ node \notin Unentered(edges, t)
      BY <2>1, <3>1, <3>2 DEF Unentered
    <3> QED BY <3>3, <3>4, RemainingFalls
  <2> QED BY <1>4, <2>2, <2>3 DEF Finished
<1> QED BY <1>1, <1>2, <1>3, <1>4

LEMMA Smaller ==
  /\ IsWellFoundedOn(OpToRel(<, Nat), Nat)
  /\ \A i, j \in Nat : <<i, j>> \in OpToRel(<, Nat) <=> i < j
<1>1. \A i, j \in Nat : <<i, j>> \in OpToRel(<, Nat) <=> i < j
  BY SMT DEF OpToRel
<1> QED BY <1>1, NatLessThanWellFounded

LEMMA Induction ==
  ASSUME NEW S, 0 \in S, \A n \in Nat : n \in S => n + 1 \in S
  PROVE  \A n \in Nat : n \in S
<1> DEFINE Less == OpToRel(<, Nat)
<1> DEFINE Rest == Nat \ S
<1>0. IsWellFoundedOn(Less, Nat)
  BY Smaller
<1>1. \A i, j \in Nat : <<i, j>> \in Less <=> i < j
  BY Smaller
<1> HIDE DEF Less
<1> SUFFICES ASSUME Rest # {} PROVE FALSE
  OBVIOUS
<1>2. PICK n \in Rest : \A m \in Rest : ~(<<m, n>> \in Less)
  <2>1. Rest \subseteq Nat
    OBVIOUS
  <2> HIDE DEF Rest
  <2> QED BY <1>0, <2>1, WFMin
<1>3. n # 0
  OBVIOUS
<1>4. n - 1 \in Nat /\ n - 1 + 1 = n /\ n - 1 < n
  BY <1>3, SMT
<1>5. n - 1 \in S
  BY <1>1, <1>2, <1>4
<1> QED BY <1>4, <1>5, <1>2

\* f is the function that FindCycles defines, up to m turns.
Searches(f, edges, m) ==
    f = [n \in 0..m |-> IF n = 0 THEN Searching(edges) ELSE Turn(edges, f[n - 1])]

LEMMA SearchExists ==
  ASSUME NEW edges PROVE \A m \in Nat : \E f : Searches(f, edges, m)
<1> DEFINE S == {m \in Nat : \E f : Searches(f, edges, m)}
<1>1. 0 \in S
  <2> DEFINE f == [n \in 0..0 |-> Searching(edges)]
  <2>1. Searches(f, edges, 0)
    BY SMT DEF Searches
  <2> HIDE DEF f
  <2> QED BY <2>1
<1>2. ASSUME NEW m \in Nat, m \in S PROVE m + 1 \in S
  <2>1. PICK f : Searches(f, edges, m)
    BY <1>2
  <2> DEFINE g == [n \in 0..(m + 1) |-> IF n <= m THEN f[n] ELSE Turn(edges, f[n - 1])]
  <2>2. \A n \in 0..m : g[n] = f[n]
    BY SMT
  <2>3. \A n \in 0..m : f[n] = IF n = 0 THEN Searching(edges) ELSE Turn(edges, f[n - 1])
    BY <2>1 DEF Searches
  <2>4. ASSUME NEW n \in 0..(m + 1)
        PROVE  g[n] = IF n = 0 THEN Searching(edges) ELSE Turn(edges, g[n - 1])
    <3>1. CASE n = 0
      BY <3>1, <2>2, <2>3
    <3>2. CASE n # 0
      <4>1. n - 1 \in 0..m /\ (n \in 0..m \/ n = m + 1)
        BY <3>2
      <4>2. g[n] = Turn(edges, f[n - 1])
        BY <3>2, <4>1, <2>2, <2>3
      <4> QED BY <3>2, <4>1, <4>2, <2>2
    <3> QED BY <3>1, <3>2
  <2>5. Searches(g, edges, m + 1)
    BY <2>4, Zenon DEF Searches
  <2> HIDE DEF g
  <2> QED BY <2>5
<1>3. \A m \in Nat : m \in S
  <2> HIDE DEF S
  <2> QED BY <1>1, <1>2, Induction
<1> QED BY <1>3

LEMMA ArcsAre ==
  ASSUME NEW edges, Graph(edges)
  PROVE  Arcs(edges) = Unlooked(edges, Searching(edges))
<1>1. \A node \in DOMAIN edges : edges[node] \subseteq DOMAIN edges
  BY DEF Graph
<1>2. ASSUME NEW a \in Arcs(edges) PROVE a \in Unlooked(edges, Searching(edges))
  <2>1. PICK node \in DOMAIN edges : a \in {node} \X edges[node]
    BY DEF Arcs
  <2>2. a = <<node, a[2]>> /\ a[1] = node /\ a[2] \in edges[node]
    BY <2>1
  <2> QED BY <2>2, <1>1 DEF Unlooked, Searching
<1>3. ASSUME NEW a \in Unlooked(edges, Searching(edges)) PROVE a \in Arcs(edges)
  <2>1. a \in (DOMAIN edges) \X (DOMAIN edges) /\ a[2] \in edges[a[1]]
    BY DEF Unlooked, Searching
  <2>2. a[1] \in DOMAIN edges /\ a \in {a[1]} \X edges[a[1]]
    BY <2>1
  <2> QED BY <2>2 DEF Arcs
<1> QED BY <1>2, <1>3

\* The number of turns is as large as what remains at the start.
LEMMA TurnsSuffice ==
  ASSUME NEW edges, Graph(edges)
  PROVE  Turns(edges) \in Nat /\ Turns(edges) = Remaining(edges, Searching(edges))
<1> DEFINE s == Searching(edges)
<1>1. s.visited = {} /\ Range(s.stack) = {}
  BY DEF Searching, Range
<1>2. Unreturned(edges, s) = DOMAIN edges /\ Unentered(edges, s) = DOMAIN edges
  BY <1>1 DEF Unreturned, Unentered
<1>3. /\ Cardinality(Unlooked(edges, s)) \in Nat
      /\ Cardinality(DOMAIN edges) \in Nat
  BY <1>2, RemainingFinite
<1> QED BY <1>2, <1>3, ArcsAre DEF Turns, Remaining

LEMMA AllTurnsKeep ==
  ASSUME NEW edges, Graph(edges), NEW m \in Nat, NEW f, Searches(f, edges, m)
  PROVE  \A n \in 0..m :
            /\ SearchInv(edges, f[n])
            /\ Finished(edges, f[n]) \/ Remaining(edges, f[n]) + n <= Turns(edges)
<1> DEFINE Good(n) ==
              /\ SearchInv(edges, f[n])
              /\ Finished(edges, f[n]) \/ Remaining(edges, f[n]) + n <= Turns(edges)
<1> DEFINE S == {n \in Nat : n <= m => Good(n)}
<1>1. \A n \in 0..m : f[n] = IF n = 0 THEN Searching(edges) ELSE Turn(edges, f[n - 1])
  BY DEF Searches
<1>2. Turns(edges) \in Nat /\ Turns(edges) = Remaining(edges, Searching(edges))
  BY TurnsSuffice
<1>3. 0 \in S
  <2>1. f[0] = Searching(edges)
    BY <1>1
  <2>2. Good(0)
    BY <2>1, <1>2, SearchStarts
  <2> HIDE DEF Good
  <2> QED BY <2>2
<1>4. ASSUME NEW n \in Nat, n \in S PROVE n + 1 \in S
  <2> SUFFICES ASSUME n + 1 <= m PROVE Good(n + 1)
    OBVIOUS
  <2>1. Good(n)
    BY <1>4
  <2>2. f[n + 1] = Turn(edges, f[n])
    BY <1>1
  <2>3. /\ SearchInv(edges, f[n + 1])
        /\ Finished(edges, f[n]) => f[n + 1] = f[n]
        /\ ~Finished(edges, f[n]) => Remaining(edges, f[n + 1]) < Remaining(edges, f[n])
    BY <2>1, <2>2, TurnKeeps
  <2>4. Remaining(edges, f[n]) \in Nat /\ Remaining(edges, f[n + 1]) \in Nat
    BY RemainingFinite
  <2>5. CASE Finished(edges, f[n])
    BY <2>3, <2>5
  <2>6. CASE ~Finished(edges, f[n])
    BY <2>1, <2>3, <2>4, <2>6, <1>2
  <2> QED BY <2>5, <2>6
<1>5. \A n \in Nat : n \in S
  <2> HIDE DEF S
  <2> QED BY <1>3, <1>4, Induction
<1> QED BY <1>5

\* What FindCycles returns is what a finished search has found.
LEMMA SearchEnds ==
  ASSUME NEW edges, Graph(edges)
  PROVE  \E s : /\ SearchInv(edges, s) /\ Finished(edges, s)
                /\ FindCycles(edges) = s.cycles
<1> DEFINE m == Turns(edges)
<1> DEFINE Of(f) == [n \in 0..m |-> IF n = 0 THEN Searching(edges) ELSE Turn(edges, f[n - 1])]
<1> DEFINE f == CHOOSE g : g = Of(g)
<1>1. m \in Nat
  BY TurnsSuffice
<1>2. FindCycles(edges) = f[m].cycles
  BY Zenon DEF FindCycles
<1>3. \E g : g = Of(g)
  BY <1>1, SearchExists, Zenon DEF Searches
<1>4. f = Of(f)
  BY <1>3, Zenon
<1> HIDE DEF f
<1>5. Searches(f, edges, m)
  BY <1>4, Zenon DEF Searches
<1> HIDE DEF m
<1>6. /\ SearchInv(edges, f[m])
      /\ Finished(edges, f[m]) \/ Remaining(edges, f[m]) + m <= Turns(edges)
  BY <1>1, <1>5, AllTurnsKeep
<1>7. Finished(edges, f[m])
  <2> SUFFICES ASSUME ~Finished(edges, f[m]) PROVE FALSE
    OBVIOUS
  <2>1. /\ Cardinality(Unlooked(edges, f[m])) \in Nat
        /\ Cardinality(Unreturned(edges, f[m])) \in Nat
        /\ Cardinality(Unentered(edges, f[m])) \in Nat
        /\ Remaining(edges, f[m]) \in Nat
        /\ IsFiniteSet(Unreturned(edges, f[m]))
    BY RemainingFinite
  <2>2. Remaining(edges, f[m]) = 0
    BY <2>1, <1>1, <1>6 DEF m
  <2>3. Cardinality(Unreturned(edges, f[m])) = 0
    BY <2>1, <2>2 DEF Remaining
  <2>4. Unreturned(edges, f[m]) = {}
    BY <2>1, <2>3, FS_EmptySet
  <2>5. DOMAIN edges \subseteq f[m].visited
    BY <2>4 DEF Unreturned
  <2>6. f[m].stack = << >>
    BY <2>5, <1>6, TopOf
  <2> QED BY <2>5, <2>6 DEF Finished
<1> QED BY <1>2, <1>6, <1>7

\* What find_cycles reports is closed: each of its nodes has an edge to one
\* of its nodes.  (find_cycles, analyzer.py:21-36.)
THEOREM SearchIsSound ==
  ASSUME NEW edges, Graph(edges), NEW c \in FindCycles(edges)
  PROVE  c \in Seq(DOMAIN edges) /\ Closed(edges, Range(c))
<1>1. PICK s : /\ SearchInv(edges, s) /\ Finished(edges, s)
               /\ FindCycles(edges) = s.cycles
  BY SearchEnds
<1> QED BY <1>1 DEF SearchInv, SearchTypes, CyclesClosed

\* If the edges of a set of nodes lead from each of them into the set again,
\* find_cycles reports a cycle; it looks at every node and visits it once.
\* (find_cycles, analyzer.py:21-36.)
THEOREM SearchIsComplete ==
  ASSUME NEW edges, Graph(edges), NEW set \in SUBSET DOMAIN edges,
         set # {}, Closed(edges, set)
  PROVE  FindCycles(edges) # {}
<1>1. PICK s : /\ SearchInv(edges, s) /\ Finished(edges, s)
               /\ FindCycles(edges) = s.cycles
  BY SearchEnds
<1>2. set \in SUBSET s.visited
  BY <1>1 DEF Finished
<1> QED BY <1>1, <1>2 DEF SearchInv, NothingMissed

-----------------------------------------------------------------------------
(* The types.                                                              *)

\* The two event calls.
LEMMA LoggedAsIs ==
    /\ DOMAIN LoggedAs = {"record", "wait"}
    /\ LoggedAs["record"] = "EVENT_RECORD" /\ LoggedAs["wait"] = "EVENT_WAIT"
BY DEF LoggedAs

LEMMA Programs ==
  ASSUME job \in Jobs, NEW r \in Ranks
  PROVE  /\ job[r] \in Seq(Steps) /\ IsProgram(job[r])
         /\ Len(job[r]) \in Nat
         /\ \A i \in 1..Len(job[r]) : job[r][i] \in Steps
         /\ \A i \in 1..Len(job[r]) : job[r][i].do = "submit" => job[r][i].stream \in Streams
<1>1. IsProgram(job[r])
  BY JobsAssumption
<1>2. job[r] \in Seq(Steps)
  BY JobsAssumption
<1>3. Len(job[r]) \in Nat /\ \A i \in 1..Len(job[r]) : job[r][i] \in Steps
  BY <1>2
<1> QED BY <1>1, <1>2, <1>3 DEF IsProgram

Snaps == [reason : {"none", "stalled", "exit"}, todo : SUBSET Ranks, stalled : BOOLEAN]

\* The programs do not change; there is room for the stalled snapshot that is
\* being written.
Typed == TypeOK /\ job \in Jobs /\ (snap.reason = "stalled" => dumps < MaxDumps)

LEMMA InitTypes == Init => Typed
<1> SUFFICES ASSUME Init PROVE Typed
  OBVIOUS
<1>1. job \in Jobs /\ job \in [Ranks -> Seq(Steps)] /\ JobInit
  BY JobsAssumption DEF Init, JobInit
<1>2. \A r \in Ranks : Len(job[r]) \in Nat
  BY <1>1, Programs
<1>3. /\ pc \in [Ranks -> Nat] /\ \A r \in Ranks : pc[r] \in 1..(Len(job[r]) + 1)
      /\ log \in [Ranks -> Seq(Steps)]
      /\ queue \in [Ranks -> [Streams -> Seq(Steps)]]
      /\ done \in [Ranks -> [Streams -> Nat]]
      /\ \A r \in Ranks, s \in Streams : done[r][s] <= Len(queue[r][s])
  BY <1>1, <1>2 DEF JobInit
<1>4. h \in {"absent", "starting"} /\ files = {} /\ dumps = 0 /\ quiet = FALSE
      /\ snap = NoSnap
  BY DEF Init
<1>5. /\ h \in {"absent", "starting", "waiting", "dumping", "reaping", "judging"} \cup Outcomes
      /\ quiet \in BOOLEAN
  BY <1>4, Zenon
<1>8. snap \in Snaps
  BY <1>4 DEF NoSnap, Snaps
<1>6. dumps \in 0..MaxDumps
  BY <1>4, DumpsAssumption, SMT
<1>7. files \subseteq [rank : Ranks, events : Nat]
  BY <1>4
<1>9. snap.reason # "stalled"
  BY <1>4 DEF NoSnap
<1> QED BY <1>1, <1>3, <1>5, <1>6, <1>7, <1>8, <1>9 DEF Typed, TypeOK, Snaps

\* What a step of the watchdog does to the snapshot, with types.
LEMMA SnapTypes ==
  ASSUME Typed, WatchdogStep
  PROVE  /\ snap' \in Snaps /\ files' \subseteq [rank : Ranks, events : Nat]
         /\ dumps' \in 0..MaxDumps /\ quiet' \in BOOLEAN
         /\ snap'.reason = "stalled" => dumps' < MaxDumps
<1>1. /\ snap \in Snaps /\ files \subseteq [rank : Ranks, events : Nat]
      /\ dumps \in 0..MaxDumps /\ quiet \in BOOLEAN
      /\ snap.reason = "stalled" => dumps < MaxDumps
  BY DEF Typed, TypeOK, Snaps
<1>2. CASE BeginStalled
  <2>1. Stalled \in BOOLEAN
    BY DEF Stalled
  <2>2. [reason |-> "stalled", todo |-> Ranks, stalled |-> Stalled] \in Snaps
    BY <2>1 DEF Snaps
  <2> QED BY <1>1, <1>2, <2>2 DEF BeginStalled
<1>3. CASE BeginExit
  <2>1. [reason |-> "exit", todo |-> Ranks, stalled |-> FALSE] \in Snaps
    BY DEF Snaps
  <2> QED BY <1>1, <1>3, <2>1 DEF BeginExit
<1>4. CASE Publish
  <2>1. dumps' \in 0..MaxDumps
    BY <1>1, <1>4, DumpsAssumption DEF Publish
  <2>2. snap' \in Snaps /\ snap'.reason # "stalled"
    BY <1>4 DEF Publish, NoSnap, Snaps
  <2>3. quiet' \in BOOLEAN
    BY <1>4 DEF Publish
  <2> QED BY <1>1, <1>4, <2>1, <2>2, <2>3 DEF Publish
<1>5. ASSUME NEW r \in Ranks, Copy(r)
      PROVE  /\ snap' \in Snaps /\ files' \subseteq [rank : Ranks, events : Nat]
             /\ snap'.reason = snap.reason
  <2>1. [rank |-> r, events |-> Len(log[r])] \in [rank : Ranks, events : Nat]
    BY DEF Typed, TypeOK
  <2>2. files' \subseteq files \cup {[rank |-> r, events |-> Len(log[r])]}
    BY <1>5 DEF Copy, Latest
  <2>3. snap' \in Snaps /\ snap'.reason = snap.reason
    BY <1>1, <1>5 DEF Copy, Snaps
  <2> QED BY <1>1, <2>1, <2>2, <2>3
<1>6. ASSUME NEW r \in Ranks, Skip(r)
      PROVE  snap' \in Snaps /\ snap'.reason = snap.reason
  BY <1>1, <1>6 DEF Skip, Snaps
<1> QED BY <1>1, <1>2, <1>3, <1>4, <1>5, <1>6 DEF WatchdogStep, Copy, Skip

\* The step that a host takes is one of its program.
LEMMA HostAt ==
  ASSUME Typed, NEW r \in Ranks, HostStep(r)
  PROVE  /\ pc[r] \in 1..Len(job[r]) /\ pc[r] \in Nat /\ Len(job[r]) \in Nat
         /\ job[r][pc[r]] \in Steps
         /\ job[r][pc[r]].do = "submit" => job[r][pc[r]].stream \in Streams
<1>1. pc[r] <= Len(job[r]) /\ pc[r] \in 1..(Len(job[r]) + 1) /\ job \in Jobs
  BY DEF Typed, TypeOK, HostStep, CanStep
<1>2. pc[r] \in 1..Len(job[r]) /\ pc[r] \in Nat
  BY <1>1, Programs
<1> QED BY <1>1, <1>2, Programs

LEMMA HostTypes ==
  ASSUME Typed, NEW r \in Ranks, HostStep(r), UNCHANGED harness
  PROVE  Typed'
<1> DEFINE x == job[r][pc[r]]
<1>1. /\ pc[r] \in 1..Len(job[r]) /\ x \in Steps
      /\ x.do = "submit" => x.stream \in Streams
      /\ Len(job[r]) \in Nat
  BY HostAt
<1>2. /\ pc' = [pc EXCEPT ![r] = pc[r] + 1]
      /\ log' = IF x.do = "record" THEN [log EXCEPT ![r] = Append(@, x)] ELSE log
      /\ queue' = IF x.do = "submit" THEN [queue EXCEPT ![r][x.stream] = Append(@, x)] ELSE queue
      /\ job' = job /\ done' = done
  BY DEF HostStep
<1> HIDE DEF x
<1>3. /\ pc' \in [Ranks -> Nat] /\ \A q \in Ranks : pc'[q] \in 1..(Len(job'[q]) + 1)
  <2>1. pc \in [Ranks -> Nat] /\ \A q \in Ranks : pc[q] \in 1..(Len(job[q]) + 1)
    BY DEF Typed, TypeOK
  <2>2. pc' \in [Ranks -> Nat]
    BY <1>2, <2>1
  <2>3. pc'[r] = pc[r] + 1 /\ pc'[r] \in 1..(Len(job[r]) + 1)
    BY <1>1, <1>2, <2>1
  <2>4. \A q \in Ranks \ {r} : pc'[q] = pc[q]
    BY <1>2, <2>1
  <2> QED BY <1>2, <2>1, <2>2, <2>3, <2>4
<1>4. log' \in [Ranks -> Seq(Steps)]
  BY <1>1, <1>2 DEF Typed, TypeOK
<1>5. queue' \in [Ranks -> [Streams -> Seq(Steps)]]
  <2>1. queue \in [Ranks -> [Streams -> Seq(Steps)]]
    BY DEF Typed, TypeOK
  <2>2. CASE x.do = "submit"
    <3>1. Append(queue[r][x.stream], x) \in Seq(Steps)
      BY <1>1, <2>1, <2>2
    <3> QED BY <1>2, <2>1, <2>2, <3>1
  <2>3. CASE x.do # "submit"
    BY <1>2, <2>1, <2>3
  <2> QED BY <2>2, <2>3
<1>6. \A q \in Ranks, s \in Streams : done'[q][s] <= Len(queue'[q][s])
  <2> SUFFICES ASSUME NEW q \in Ranks, NEW s \in Streams PROVE done[q][s] <= Len(queue'[q][s])
    BY <1>2
  <2>1. queue[q][s] \in Seq(Steps) /\ done[q][s] \in Nat /\ done[q][s] <= Len(queue[q][s])
    BY DEF Typed, TypeOK
  <2>2. queue'[q][s] = queue[q][s] \/ queue'[q][s] = Append(queue[q][s], x)
    BY <1>1, <1>2 DEF Typed, TypeOK
  <2> QED BY <2>1, <2>2, <1>1
<1> QED BY <1>2, <1>3, <1>4, <1>5, <1>6 DEF Typed, TypeOK

LEMMA RunTypes ==
  ASSUME Typed, NEW r \in Ranks, NEW s \in Streams, Run(r, s), UNCHANGED harness
  PROVE  Typed'
<1>1. /\ queue[r][s] \in Seq(Steps) /\ done[r][s] \in Nat
      /\ done' = [done EXCEPT ![r][s] = done[r][s] + 1]
  BY DEF Typed, TypeOK, Run
<1>2. done[r][s] + 1 \in DOMAIN queue[r][s]
  BY DEF Run, CanRun, Pending
<1>3. done[r][s] + 1 <= Len(queue[r][s])
  BY <1>1, <1>2
<1>4. done' \in [Ranks -> [Streams -> Nat]]
  BY <1>1 DEF Typed, TypeOK
<1>5. \A q \in Ranks, t \in Streams : done'[q][t] <= Len(queue[q][t])
  BY <1>1, <1>3 DEF Typed, TypeOK
<1>6. UNCHANGED <<job, pc, log, queue, harness>>
  BY DEF Run
<1> QED BY <1>4, <1>5, <1>6 DEF Typed, TypeOK

LEMMA NextTypes == Typed /\ [Next]_vars => Typed'
<1> SUFFICES ASSUME Typed, [Next]_vars PROVE Typed'
  OBVIOUS
<1>1. CASE \E r \in Ranks : HostStep(r) /\ UNCHANGED harness
  BY <1>1, HostTypes
<1>2. CASE DeviceStep /\ UNCHANGED harness
  BY <1>2, RunTypes DEF DeviceStep
<1>3. CASE Begin \/ SeeHang \/ SeeDump
  BY <1>3 DEF Typed, TypeOK, Begin, SeeHang, SeeDump
<1>4. CASE Judge
  BY <1>4 DEF Typed, TypeOK, Judge, Outcomes
<1>5. CASE TimesOut \/ Reaped
  <2>1. snap' = NoSnap
    BY <1>5 DEF TimesOut, Reaped
  <2>2. snap' \in Snaps /\ snap'.reason # "stalled"
    BY <2>1 DEF NoSnap, Snaps
  <2> QED BY <1>5, <2>2 DEF Typed, TypeOK, TimesOut, Reaped, Outcomes, Snaps
<1>6. CASE WatchdogStep
  <2>1. /\ snap' \in Snaps /\ files' \subseteq [rank : Ranks, events : Nat]
        /\ dumps' \in 0..MaxDumps /\ quiet' \in BOOLEAN
        /\ snap'.reason = "stalled" => dumps' < MaxDumps
    BY <1>6, SnapTypes
  <2>2. UNCHANGED <<jobVars, h>>
    BY <1>6 DEF WatchdogStep, BeginStalled, BeginExit, Publish, Copy, Skip
  <2> QED BY <2>1, <2>2 DEF Typed, TypeOK, Snaps
<1>7. CASE UNCHANGED vars
  BY <1>7 DEF Typed, TypeOK, vars
<1> QED BY <1>1, <1>2, <1>3, <1>4, <1>5, <1>6, <1>7 DEF Next

-----------------------------------------------------------------------------
(* What is submitted, what is logged of it and what has completed.         *)

\* A queue holds what the host has submitted to its stream.
Queued ==
    \A r \in Ranks, s \in Streams : \A i \in DOMAIN queue[r][s] :
       /\ queue[r][s][i].do = "submit" /\ queue[r][s][i].stream = s
       /\ \E k \in 1..(pc[r] - 1) : job[r][k] = queue[r][s][i]

\* The last step of the host, if it is a call, is the last of its queue.
LastQueued ==
    \A r \in Ranks : pc[r] > 1 /\ job[r][pc[r] - 1].do = "submit" =>
       LET x == job[r][pc[r] - 1] IN
       /\ Len(queue[r][x.stream]) > 0
       /\ queue[r][x.stream][Len(queue[r][x.stream])] = x

\* The host has called for an event on s and has yet to log it.
Unlogged(r, s) ==
    pc[r] > 1 /\ EventCall(job[r][pc[r] - 1]) /\ job[r][pc[r] - 1].stream = s

EventQueue(r, s) == \A i \in DOMAIN queue[r][s] : EventCall(queue[r][s][i])
EventsOn(ev, s) == {j \in DOMAIN ev : ev[j].type \in EventTypes /\ ev[j].stream = s}

\* As many events are logged as submitted, but for one that is not logged yet.
Counted ==
    \A r \in Ranks, s \in Streams : EventQueue(r, s) =>
       Len(queue[r][s]) = Cardinality(EventsOn(log[r], s)) + (IF Unlogged(r, s) THEN 1 ELSE 0)

\* The event of a log has been submitted at its position.
LoggedFor(e, x) == EventCall(x) /\ e.type = LoggedAs[x.type] /\ e.corr = x.corr
Placed ==
    \A r \in Ranks : \A q \in DOMAIN log[r] : log[r][q].type \in EventTypes =>
       LET e == log[r][q]  p == Position(log[r], q) IN
       /\ e.stream \in Streams /\ p \in DOMAIN queue[r][e.stream]
       /\ LoggedFor(e, queue[r][e.stream][p])

\* What has been submitted is logged, but for one that is not logged yet.
LoggedAt(r, s, i) == \E q \in EventsOn(log[r], s) : Position(log[r], q) = i
Found ==
    \A r \in Ranks, s \in Streams : \A i \in DOMAIN queue[r][s] : EventCall(queue[r][s][i]) =>
       LoggedAt(r, s, i) \/ (i = Len(queue[r][s]) /\ Unlogged(r, s))

\* A wait has completed only after a record of its event.
WaitsServed ==
    \A r \in Ranks, s \in Streams : \A i \in 1..done[r][s] :
       queue[r][s][i].type = "wait" => Completed(r, "record", queue[r][s][i].corr)

\* The operations that have completed, by stream and position, and what such an
\* operation has to come after: a wait, the record of its event; a record, the
\* waits before it on its stream.
DoneOps(r) == {z \in Streams \X Nat : z[2] \in 1..done[r][z[1]]}
At(r, z) == queue[r][z[1]][z[2]]
After(r, z, y) ==
    \/ At(r, z).type = "wait" /\ Is(At(r, y), "record", At(r, z).corr)
    \/ /\ At(r, z).type = "record" /\ At(r, y).type = "wait"
       /\ y[1] = z[1] /\ y[2] < z[2]
Held(r, set) == \A z \in set : \E y \in set : After(r, z, y)

\* No operations have completed each of which comes after another of them.
NoneHeld ==
    \A r \in Ranks : RecordedOnce(r) =>
       \A set \in SUBSET DoneOps(r) : Held(r, set) => set = {}

JobInv ==
    /\ Typed /\ Queued /\ LastQueued /\ Counted /\ Placed /\ Found
    /\ WaitsServed /\ NoneHeld

-----------------------------------------------------------------------------
(* The host of a rank.                                                     *)

\* What a step of the host leaves.
LEMMA HostFacts ==
  ASSUME Typed, NEW r \in Ranks, HostStep(r), NEW x, x = job[r][pc[r]]
  PROVE  /\ job' = job /\ done' = done /\ x \in Steps
         /\ pc[r] \in 1..Len(job[r]) /\ pc'[r] = pc[r] + 1 /\ pc'[r] - 1 = pc[r]
         /\ \A q \in Ranks \ {r} : pc'[q] = pc[q] /\ log'[q] = log[q] /\ queue'[q] = queue[q]
         /\ log'[r] = IF x.do = "record" THEN Append(log[r], x) ELSE log[r]
         /\ \A s \in Streams : queue'[r][s] = IF x.do = "submit" /\ x.stream = s
                                                THEN Append(queue[r][s], x) ELSE queue[r][s]
         /\ x.do = "submit" => x.stream \in Streams
<1>1. /\ pc[r] \in 1..Len(job[r]) /\ x \in Steps /\ pc[r] \in Nat
      /\ x.do = "submit" => x.stream \in Streams
  BY HostAt
<1>2. /\ pc' = [pc EXCEPT ![r] = pc[r] + 1] /\ job' = job /\ done' = done
      /\ log' = IF x.do = "record" THEN [log EXCEPT ![r] = Append(@, x)] ELSE log
      /\ queue' = IF x.do = "submit" THEN [queue EXCEPT ![r][x.stream] = Append(@, x)] ELSE queue
  BY DEF HostStep
<1>3. /\ pc'[r] = pc[r] + 1 /\ pc'[r] - 1 = pc[r]
      /\ \A q \in Ranks \ {r} : pc'[q] = pc[q]
  <2>1. pc \in [Ranks -> Nat]
    BY DEF Typed, TypeOK
  <2>2. pc'[r] = pc[r] + 1
    BY <1>2, <2>1
  <2>3. \A q \in Ranks \ {r} : pc'[q] = pc[q]
    BY <1>2, <2>1
  <2> QED BY <1>1, <2>2, <2>3
<1>4. /\ log'[r] = IF x.do = "record" THEN Append(log[r], x) ELSE log[r]
      /\ \A q \in Ranks \ {r} : log'[q] = log[q]
  BY <1>2 DEF Typed, TypeOK
<1>5. /\ \A q \in Ranks \ {r} : queue'[q] = queue[q]
      /\ \A s \in Streams : queue'[r][s] = IF x.do = "submit" /\ x.stream = s
                                             THEN Append(queue[r][s], x) ELSE queue[r][s]
  BY <1>1, <1>2 DEF Typed, TypeOK
<1>6. \A q \in Ranks \ {r} : pc'[q] = pc[q] /\ log'[q] = log[q] /\ queue'[q] = queue[q]
  BY <1>3, <1>4, <1>5
<1> QED BY <1>1, <1>2, <1>3, <1>4, <1>5, <1>6, Zenon

\* What the next step is after a call for an event, and before its log.
LEMMA StepAfterCall ==
  ASSUME job \in Jobs, NEW r \in Ranks, NEW i \in 2..Len(job[r])
  PROVE  LET y == job[r][i - 1]  x == job[r][i] IN
         /\ EventCall(y) => /\ x.do = "record" /\ x.type = LoggedAs[y.type]
                            /\ x.stream = y.stream /\ x.corr = y.corr
                            /\ x.type \in EventTypes
         /\ x.do = "record" /\ x.type \in EventTypes => EventCall(y)
<1> DEFINE y == job[r][i - 1]
<1> DEFINE x == job[r][i]
<1>1. IsProgram(job[r]) /\ Len(job[r]) \in Nat /\ DOMAIN job[r] = 1..Len(job[r])
  BY Programs
<1>2. i - 1 \in DOMAIN job[r] /\ i \in DOMAIN job[r] /\ i - 1 < Len(job[r]) /\ (i - 1) + 1 = i
  BY <1>1
<1>3. EventCall(y) => x = Record(LoggedAs[y.type], y.stream, y.corr)
  BY <1>1, <1>2 DEF IsProgram
<1>4. EventLog(x) => EventCall(y)
  BY <1>1, <1>2 DEF IsProgram
<1>5. EventCall(y) => LoggedAs[y.type] \in EventTypes
  BY DEF EventCall, LoggedAs, EventTypes
<1> HIDE DEF x, y
<1>6. EventCall(y) => /\ x.do = "record" /\ x.type = LoggedAs[y.type]
                      /\ x.stream = y.stream /\ x.corr = y.corr
  BY <1>3 DEF Record, Step
<1> QED BY <1>4, <1>5, <1>6 DEF EventLog, x, y

LEMMA FirstStepLogsNoEvent ==
  ASSUME job \in Jobs, NEW r \in Ranks, 1 \in 1..Len(job[r])
  PROVE  ~(job[r][1].do = "record" /\ job[r][1].type \in EventTypes)
<1>1. IsProgram(job[r]) /\ DOMAIN job[r] = 1..Len(job[r])
  BY Programs
<1> QED BY <1>1 DEF IsProgram, EventLog

LEMMA HostQueued ==
  ASSUME Typed, Queued, LastQueued, NEW r \in Ranks, HostStep(r)
  PROVE  Queued' /\ LastQueued'
<1> DEFINE x == job[r][pc[r]]
<1>1. /\ job' = job /\ done' = done /\ x \in Steps
      /\ pc[r] \in 1..Len(job[r]) /\ pc'[r] = pc[r] + 1 /\ pc'[r] - 1 = pc[r]
      /\ \A q \in Ranks \ {r} : pc'[q] = pc[q] /\ log'[q] = log[q] /\ queue'[q] = queue[q]
      /\ log'[r] = IF x.do = "record" THEN Append(log[r], x) ELSE log[r]
      /\ \A s \in Streams : queue'[r][s] = IF x.do = "submit" /\ x.stream = s
                                             THEN Append(queue[r][s], x) ELSE queue[r][s]
      /\ x.do = "submit" => x.stream \in Streams
  BY HostFacts
<1>2. \A q \in Ranks, s \in Streams : queue[q][s] \in Seq(Steps)
  BY DEF Typed, TypeOK
<1>3. x = job[r][pc[r]] /\ Len(job[r]) \in Nat
  BY Programs DEF Typed, TypeOK
<1> HIDE DEF x
<1>4. ASSUME NEW q \in Ranks, NEW s \in Streams, NEW i \in DOMAIN queue'[q][s]
      PROVE  /\ queue'[q][s][i].do = "submit" /\ queue'[q][s][i].stream = s
             /\ \E k \in 1..(pc'[q] - 1) : job'[q][k] = queue'[q][s][i]
  <2>1. CASE q # r
    BY <2>1, <1>1, <1>4 DEF Queued
  <2>2. CASE q = r /\ i \in DOMAIN queue[r][s] /\ queue'[r][s][i] = queue[r][s][i]
    <3>1. PICK k \in 1..(pc[r] - 1) : job[r][k] = queue[r][s][i]
      BY <2>2 DEF Queued
    <3>2. k \in 1..(pc'[r] - 1)
      BY <3>1, <1>1, <1>3
    <3>3. queue[r][s][i].do = "submit" /\ queue[r][s][i].stream = s
      BY <2>2 DEF Queued
    <3> QED BY <2>2, <3>1, <3>2, <3>3, <1>1
  <2>3. CASE q = r /\ x.do = "submit" /\ x.stream = s /\ queue'[r][s][i] = x
    <3>1. pc[r] \in 1..(pc'[r] - 1)
      BY <1>1, <1>3
    <3> QED BY <2>3, <3>1, <1>1, <1>3
  <2>4. q = r => \/ i \in DOMAIN queue[r][s] /\ queue'[r][s][i] = queue[r][s][i]
                 \/ x.do = "submit" /\ x.stream = s /\ queue'[r][s][i] = x
    <3>1. queue[r][s] \in Seq(Steps)
      BY <1>2
    <3>2. CASE x.do = "submit" /\ x.stream = s
      <4>1. queue'[r][s] = Append(queue[r][s], x)
        BY <3>2, <1>1
      <4> QED BY <3>1, <3>2, <4>1, <1>1, <1>4
    <3>3. CASE ~(x.do = "submit" /\ x.stream = s)
      BY <3>3, <1>1, <1>4
    <3> QED BY <3>2, <3>3
  <2> QED BY <2>1, <2>2, <2>3, <2>4
<1>5. ASSUME NEW q \in Ranks, pc'[q] > 1, job'[q][pc'[q] - 1].do = "submit",
             NEW y, y = job'[q][pc'[q] - 1]
      PROVE  /\ Len(queue'[q][y.stream]) > 0
             /\ queue'[q][y.stream][Len(queue'[q][y.stream])] = y
  <2>1. CASE q # r
    <3>1. pc'[q] = pc[q] /\ queue'[q] = queue[q] /\ job' = job
      BY <2>1, <1>1
    <3> QED BY <1>5, <3>1 DEF LastQueued
  <2>2. CASE q = r
    <3>1. y = x /\ x.do = "submit" /\ x.stream \in Streams
      BY <2>2, <1>1, <1>3, <1>5
    <3>2. queue'[r][x.stream] = Append(queue[r][x.stream], x) /\ queue[r][x.stream] \in Seq(Steps)
      BY <3>1, <1>1, <1>2
    <3> QED BY <2>2, <3>1, <3>2, <1>1
  <2> QED BY <2>1, <2>2
<1>6. Queued'
  BY <1>4 DEF Queued
<1>7. LastQueued'
  BY <1>5 DEF LastQueued
<1> QED BY <1>6, <1>7
-----------------------------------------------------------------------------
(* Positions in a log that grows.                                          *)

LEMMA PositionKept ==
  ASSUME NEW l \in Seq(Steps), NEW x \in Steps, NEW q \in DOMAIN l
  PROVE  /\ q \in DOMAIN Append(l, x) /\ Append(l, x)[q] = l[q]
         /\ Position(Append(l, x), q) = Position(l, q)
<1> DEFINE m == Append(l, x)
<1>1. \A j \in 1..Len(l) : j \in DOMAIN m /\ m[j] = l[j]
  OBVIOUS
<1>2. q \in 1..Len(l) /\ \A j \in 1..q : j \in 1..Len(l)
  OBVIOUS
<1> HIDE DEF m
<1>3. {j \in 1..q : m[j].type \in EventTypes /\ m[j].stream = m[q].stream}
        = {j \in 1..q : l[j].type \in EventTypes /\ l[j].stream = l[q].stream}
  BY <1>1, <1>2
<1> QED BY <1>1, <1>2, <1>3 DEF Position, m

LEMMA EventsFinite ==
  ASSUME NEW l \in Seq(Steps), NEW s
  PROVE  IsFiniteSet(EventsOn(l, s)) /\ Cardinality(EventsOn(l, s)) \in Nat
<1>1. Len(l) \in Nat /\ DOMAIN l = 1..Len(l)
  OBVIOUS
<1>2. IsFiniteSet(1..Len(l))
  BY <1>1, FS_Interval
<1>3. EventsOn(l, s) \in SUBSET (1..Len(l))
  BY <1>1 DEF EventsOn
<1> QED BY <1>2, <1>3, FS_Subset, FS_CardinalityType

\* An event that is logged is one more on its stream, and its position.
LEMMA EventsGrow ==
  ASSUME NEW l \in Seq(Steps), NEW x \in Steps, NEW s
  PROVE  /\ EventsOn(l, s) \subseteq EventsOn(Append(l, x), s)
         /\ x.type \in EventTypes /\ x.stream = s =>
              /\ Len(l) + 1 \in EventsOn(Append(l, x), s)
              /\ Cardinality(EventsOn(Append(l, x), s)) = Cardinality(EventsOn(l, s)) + 1
              /\ Position(Append(l, x), Len(l) + 1) = Cardinality(EventsOn(l, s)) + 1
         /\ ~(x.type \in EventTypes /\ x.stream = s) => EventsOn(Append(l, x), s) = EventsOn(l, s)
<1> DEFINE m == Append(l, x)
<1> DEFINE n == Len(l)
<1>1. /\ n \in Nat /\ DOMAIN l = 1..n /\ DOMAIN m = 1..(n + 1)
      /\ m[n + 1] = x /\ \A j \in 1..n : m[j] = l[j]
      /\ n + 1 \notin 1..n /\ 1..(n + 1) = (1..n) \cup {n + 1}
  OBVIOUS
<1>2. IsFiniteSet(EventsOn(l, s)) /\ Cardinality(EventsOn(l, s)) \in Nat
  BY EventsFinite
<1> HIDE DEF m, n
<1>3. EventsOn(l, s) \subseteq EventsOn(m, s)
  BY <1>1 DEF EventsOn
<1>4. ASSUME x.type \in EventTypes, x.stream = s
      PROVE  /\ n + 1 \in EventsOn(m, s)
             /\ Cardinality(EventsOn(m, s)) = Cardinality(EventsOn(l, s)) + 1
             /\ Position(m, n + 1) = Cardinality(EventsOn(l, s)) + 1
  <2>1. EventsOn(m, s) = EventsOn(l, s) \cup {n + 1} /\ n + 1 \notin EventsOn(l, s)
    BY <1>1, <1>4 DEF EventsOn
  <2>2. Cardinality(EventsOn(m, s)) = Cardinality(EventsOn(l, s)) + 1
    BY <1>2, <2>1, FS_AddElement
  <2>3. {j \in 1..(n + 1) : m[j].type \in EventTypes /\ m[j].stream = m[n + 1].stream}
          = EventsOn(m, s)
    BY <1>1, <1>4 DEF EventsOn
  <2> QED BY <2>1, <2>2, <2>3 DEF Position
<1>5. ~(x.type \in EventTypes /\ x.stream = s) => EventsOn(m, s) = EventsOn(l, s)
  BY <1>1 DEF EventsOn
<1> QED BY <1>3, <1>4, <1>5 DEF m, n

\* The step of a host that logs an event is the one after its call.
LEMMA HostUnlogged ==
  ASSUME Typed, NEW r \in Ranks, HostStep(r), NEW x, x = job[r][pc[r]], NEW s \in Streams
  PROVE  /\ Unlogged(r, s)' <=> EventCall(x) /\ x.stream = s
         /\ Unlogged(r, s) <=> x.do = "record" /\ x.type \in EventTypes /\ x.stream = s
         /\ Unlogged(r, s) => LET y == job[r][pc[r] - 1] IN
                              /\ EventCall(y) /\ y.stream = s /\ LoggedFor(x, y)
<1>1. /\ job' = job /\ done' = done /\ x \in Steps
      /\ pc[r] \in 1..Len(job[r]) /\ pc'[r] = pc[r] + 1 /\ pc'[r] - 1 = pc[r]
      /\ \A q \in Ranks \ {r} : pc'[q] = pc[q] /\ log'[q] = log[q] /\ queue'[q] = queue[q]
      /\ log'[r] = IF x.do = "record" THEN Append(log[r], x) ELSE log[r]
      /\ \A t \in Streams : queue'[r][t] = IF x.do = "submit" /\ x.stream = t
                                             THEN Append(queue[r][t], x) ELSE queue[r][t]
      /\ x.do = "submit" => x.stream \in Streams
  BY HostFacts
<1>2. job \in Jobs /\ Len(job[r]) \in Nat
  BY Programs DEF Typed, TypeOK
<1>3. Unlogged(r, s)' <=> EventCall(x) /\ x.stream = s
  BY <1>1, <1>2 DEF Unlogged
<1>4. CASE pc[r] = 1
  <2>1. ~(x.do = "record" /\ x.type \in EventTypes)
    BY <1>1, <1>2, <1>4, FirstStepLogsNoEvent
  <2>2. ~Unlogged(r, s)
    BY <1>4 DEF Unlogged
  <2> QED BY <1>3, <2>1, <2>2
<1>5. CASE pc[r] # 1
  <2> DEFINE y == job[r][pc[r] - 1]
  <2>1. pc[r] \in 2..Len(job[r]) /\ pc[r] > 1
    BY <1>1, <1>2, <1>5
  <2>2. /\ EventCall(y) => /\ x.do = "record" /\ x.type = LoggedAs[y.type]
                           /\ x.stream = y.stream /\ x.corr = y.corr
                           /\ x.type \in EventTypes
        /\ x.do = "record" /\ x.type \in EventTypes => EventCall(y)
    BY <1>2, <2>1, StepAfterCall
  <2>3. Unlogged(r, s) <=> EventCall(y) /\ y.stream = s
    BY <2>1 DEF Unlogged
  <2> HIDE DEF y
  <2>4. Unlogged(r, s) => EventCall(y) /\ y.stream = s /\ LoggedFor(x, y)
    BY <2>2, <2>3 DEF LoggedFor
  <2> QED BY <1>3, <2>2, <2>3, <2>4 DEF y
<1> QED BY <1>1, <1>4, <1>5

\* A stream that has an event to be logged has event calls only.
LEMMA UnloggedQueue ==
  ASSUME Typed, Queued, LastQueued, NEW r \in Ranks, NEW s \in Streams, Unlogged(r, s)
  PROVE  /\ EventQueue(r, s)
         /\ Len(queue[r][s]) \in DOMAIN queue[r][s]
         /\ queue[r][s][Len(queue[r][s])] = job[r][pc[r] - 1]
<1> DEFINE y == job[r][pc[r] - 1]
<1>1. pc[r] > 1 /\ EventCall(y) /\ y.stream = s
  BY DEF Unlogged
<1>2. /\ IsProgram(job[r]) /\ DOMAIN job[r] = 1..Len(job[r]) /\ Len(job[r]) \in Nat
      /\ pc[r] \in 1..(Len(job[r]) + 1)
  BY Programs DEF Typed, TypeOK
<1>3. pc[r] - 1 \in DOMAIN job[r] /\ \A k \in 1..(pc[r] - 1) : k \in DOMAIN job[r]
  BY <1>1, <1>2
<1>4. ASSUME NEW i \in DOMAIN queue[r][s] PROVE EventCall(queue[r][s][i])
  <2>1. /\ queue[r][s][i].do = "submit" /\ queue[r][s][i].stream = s
        /\ \E k \in 1..(pc[r] - 1) : job[r][k] = queue[r][s][i]
    BY <1>4 DEF Queued
  <2>2. PICK k \in DOMAIN job[r] : job[r][k] = queue[r][s][i]
    BY <2>1, <1>3
  <2>3. \A j, n \in DOMAIN job[r] :
           EventCall(job[r][j]) /\ job[r][n].do = "submit" /\ job[r][n].stream = job[r][j].stream
             => EventCall(job[r][n])
    BY <1>2 DEF IsProgram
  <2> QED BY <1>1, <1>3, <2>1, <2>2, <2>3
<1>5. y.do = "submit"
  BY <1>1 DEF EventCall
<1>6. Len(queue[r][s]) > 0 /\ queue[r][s][Len(queue[r][s])] = y
  BY <1>1, <1>5 DEF LastQueued
<1>7. queue[r][s] \in Seq(Steps)
  BY DEF Typed, TypeOK
<1> QED BY <1>4, <1>6, <1>7 DEF EventQueue

LEMMA HostCounted ==
  ASSUME Typed, Queued, LastQueued, Counted, NEW r \in Ranks, HostStep(r)
  PROVE  Counted'
<1> DEFINE x == job[r][pc[r]]
<1>1. /\ job' = job /\ done' = done /\ x \in Steps
      /\ pc[r] \in 1..Len(job[r]) /\ pc'[r] = pc[r] + 1 /\ pc'[r] - 1 = pc[r]
      /\ \A q \in Ranks \ {r} : pc'[q] = pc[q] /\ log'[q] = log[q] /\ queue'[q] = queue[q]
      /\ log'[r] = IF x.do = "record" THEN Append(log[r], x) ELSE log[r]
      /\ \A s \in Streams : queue'[r][s] = IF x.do = "submit" /\ x.stream = s
                                             THEN Append(queue[r][s], x) ELSE queue[r][s]
      /\ x.do = "submit" => x.stream \in Streams
  BY HostFacts
<1>2. \A s \in Streams :
         /\ Unlogged(r, s)' <=> EventCall(x) /\ x.stream = s
         /\ Unlogged(r, s) <=> x.do = "record" /\ x.type \in EventTypes /\ x.stream = s
  BY HostUnlogged
<1> HIDE DEF x
<1> SUFFICES ASSUME NEW q \in Ranks, NEW s \in Streams, EventQueue(q, s)'
             PROVE  Len(queue'[q][s]) = Cardinality(EventsOn(log'[q], s))
                                          + (IF Unlogged(q, s)' THEN 1 ELSE 0)
  BY DEF Counted
<1>3. CASE q # r
  <2>1. queue'[q] = queue[q] /\ log'[q] = log[q] /\ pc'[q] = pc[q] /\ job' = job
    BY <1>1, <1>3
  <2>2. EventQueue(q, s) /\ (Unlogged(q, s)' <=> Unlogged(q, s))
    BY <2>1 DEF EventQueue, Unlogged
  <2> QED BY <2>1, <2>2 DEF Counted
<1>4. CASE q = r
  <2>1. /\ queue[r][s] \in Seq(Steps) /\ Len(queue[r][s]) \in Nat /\ log[r] \in Seq(Steps)
        /\ Cardinality(EventsOn(log[r], s)) \in Nat
    BY EventsFinite DEF Typed, TypeOK
  <2>2. EventQueue(r, s)
    <3> SUFFICES ASSUME NEW i \in DOMAIN queue[r][s] PROVE EventCall(queue[r][s][i])
      BY DEF EventQueue
    <3>1. i \in DOMAIN queue'[r][s] /\ queue'[r][s][i] = queue[r][s][i]
      <4>1. queue'[r][s] = queue[r][s] \/ queue'[r][s] = Append(queue[r][s], x)
        BY <1>1
      <4> QED BY <1>1, <2>1, <4>1
    <3> QED BY <1>4, <3>1 DEF EventQueue
  <2>3. Len(queue[r][s]) = Cardinality(EventsOn(log[r], s)) + (IF Unlogged(r, s) THEN 1 ELSE 0)
    BY <2>2 DEF Counted
  <2>4. CASE x.do = "submit" /\ x.stream = s
    <3>1. queue'[r][s] = Append(queue[r][s], x) /\ log'[r] = log[r]
      BY <2>4, <1>1
    <3>2. Len(queue'[r][s]) = Len(queue[r][s]) + 1 /\ queue'[r][s][Len(queue[r][s]) + 1] = x
          /\ Len(queue[r][s]) + 1 \in DOMAIN queue'[r][s]
      BY <1>1, <2>1, <3>1
    <3>3. EventCall(x)
      BY <1>4, <3>2 DEF EventQueue
    <3>4. Unlogged(r, s)' /\ ~Unlogged(r, s)
      BY <2>4, <3>3, <1>2
    <3> QED BY <1>4, <2>1, <2>3, <3>1, <3>2, <3>4
  <2>5. CASE x.do = "record" /\ x.type \in EventTypes /\ x.stream = s
    <3>1. queue'[r][s] = queue[r][s] /\ log'[r] = Append(log[r], x)
      BY <2>5, <1>1
    <3>2. Cardinality(EventsOn(log'[r], s)) = Cardinality(EventsOn(log[r], s)) + 1
      BY <1>1, <2>1, <2>5, <3>1, EventsGrow
    <3>3. ~Unlogged(r, s)' /\ Unlogged(r, s)
      BY <2>5, <1>2 DEF EventCall
    <3> QED BY <1>4, <2>1, <2>3, <3>1, <3>2, <3>3
  <2>6. CASE /\ ~(x.do = "submit" /\ x.stream = s)
             /\ ~(x.do = "record" /\ x.type \in EventTypes /\ x.stream = s)
    <3>1. queue'[r][s] = queue[r][s]
      BY <2>6, <1>1
    <3>2. EventsOn(log'[r], s) = EventsOn(log[r], s)
      <4>1. CASE x.do = "record"
        BY <4>1, <1>1, <2>1, <2>6, EventsGrow
      <4>2. CASE x.do # "record"
        BY <4>2, <1>1
      <4> QED BY <4>1, <4>2
    <3>3. ~Unlogged(r, s)' /\ ~Unlogged(r, s)
      BY <2>6, <1>2 DEF EventCall
    <3> QED BY <1>4, <2>3, <3>1, <3>2, <3>3
  <2> QED BY <2>4, <2>5, <2>6
<1> QED BY <1>3, <1>4
LEMMA HostPlaced ==
  ASSUME Typed, Queued, LastQueued, Counted, Placed, NEW r \in Ranks, HostStep(r)
  PROVE  Placed'
<1> DEFINE x == job[r][pc[r]]
<1>1. /\ job' = job /\ done' = done /\ x \in Steps
      /\ pc[r] \in 1..Len(job[r]) /\ pc'[r] = pc[r] + 1 /\ pc'[r] - 1 = pc[r]
      /\ \A q \in Ranks \ {r} : pc'[q] = pc[q] /\ log'[q] = log[q] /\ queue'[q] = queue[q]
      /\ log'[r] = IF x.do = "record" THEN Append(log[r], x) ELSE log[r]
      /\ \A s \in Streams : queue'[r][s] = IF x.do = "submit" /\ x.stream = s
                                             THEN Append(queue[r][s], x) ELSE queue[r][s]
      /\ x.do = "submit" => x.stream \in Streams
  BY HostFacts
<1>2. \A s \in Streams :
         /\ Unlogged(r, s) <=> x.do = "record" /\ x.type \in EventTypes /\ x.stream = s
         /\ Unlogged(r, s) => LET y == job[r][pc[r] - 1] IN
                              /\ EventCall(y) /\ y.stream = s /\ LoggedFor(x, y)
  BY HostUnlogged
<1>3. x.stream \in Streams \/ ~(x.do = "record" /\ x.type \in EventTypes)
  <2> SUFFICES ASSUME x.do = "record", x.type \in EventTypes PROVE x.stream \in Streams
    OBVIOUS
  <2>1. job \in Jobs /\ Len(job[r]) \in Nat
    BY Programs DEF Typed, TypeOK
  <2>2. pc[r] # 1
    BY <1>1, <2>1, FirstStepLogsNoEvent
  <2>3. pc[r] \in 2..Len(job[r]) /\ pc[r] - 1 \in 1..Len(job[r])
    BY <1>1, <2>1, <2>2
  <2>4. EventCall(job[r][pc[r] - 1]) /\ x.stream = job[r][pc[r] - 1].stream
    BY <2>1, <2>3, StepAfterCall
  <2> QED BY <2>1, <2>3, <2>4, Programs DEF EventCall
<1>step. x = job[r][pc[r]]
  OBVIOUS
<1> HIDE DEF x
<1>4. ASSUME NEW q \in Ranks, NEW i \in DOMAIN log'[q], log'[q][i].type \in EventTypes,
             NEW e, e = log'[q][i], NEW p, p = Position(log'[q], i)
      PROVE  /\ e.stream \in Streams /\ p \in DOMAIN queue'[q][e.stream]
             /\ LoggedFor(e, queue'[q][e.stream][p])
  <2>1. CASE q # r
    BY <1>1, <1>4, <2>1 DEF Placed
  <2>2. CASE q = r /\ i \in DOMAIN log[r]
    <3>1. log[r] \in Seq(Steps)
      BY DEF Typed, TypeOK
    <3>2. e = log[r][i] /\ p = Position(log[r], i)
      <4>1. CASE x.do = "record"
        <5>1. log'[q] = Append(log[r], x)
          BY <1>1, <2>2, <4>1
        <5> QED BY <1>1, <1>4, <2>2, <3>1, <5>1, PositionKept
      <4>2. CASE x.do # "record"
        BY <1>1, <1>4, <2>2, <4>2
      <4> QED BY <4>1, <4>2
    <3>3. /\ e.stream \in Streams /\ p \in DOMAIN queue[r][e.stream]
          /\ LoggedFor(e, queue[r][e.stream][p])
      BY <1>4, <2>2, <3>2 DEF Placed
    <3>4. queue[r][e.stream] \in Seq(Steps)
      BY <3>3 DEF Typed, TypeOK
    <3>5. \/ queue'[r][e.stream] = queue[r][e.stream]
          \/ queue'[r][e.stream] = Append(queue[r][e.stream], x)
      BY <1>1, <3>3
    <3>6. p \in DOMAIN queue'[r][e.stream] /\ queue'[r][e.stream][p] = queue[r][e.stream][p]
      BY <1>1, <3>3, <3>4, <3>5
    <3> QED BY <2>2, <3>3, <3>6
  <2>3. CASE q = r /\ i \notin DOMAIN log[r]
    <3>1. log[r] \in Seq(Steps)
      BY DEF Typed, TypeOK
    <3>2. x.do = "record" /\ i = Len(log[r]) + 1 /\ e = x /\ log'[r] = Append(log[r], x)
      <4>1. x.do = "record" /\ log'[r] = Append(log[r], x)
        BY <1>1, <1>4, <2>3
      <4>2. x \in Steps /\ i \in DOMAIN Append(log[r], x)
        BY <1>1, <1>4, <2>3, <4>1
      <4>3. i = Len(log[r]) + 1 /\ Append(log[r], x)[i] = x
        BY <2>3, <3>1, <4>2
      <4> QED BY <1>4, <2>3, <4>1, <4>3
    <3>3. x.type \in EventTypes /\ x.stream \in Streams
      BY <1>3, <1>4, <3>2
    <3>4. Unlogged(r, x.stream) /\ LoggedFor(x, job[r][pc[r] - 1])
      BY <1>2, <3>2, <3>3
    <3>5. /\ EventQueue(r, x.stream)
          /\ Len(queue[r][x.stream]) \in DOMAIN queue[r][x.stream]
          /\ queue[r][x.stream][Len(queue[r][x.stream])] = job[r][pc[r] - 1]
      BY <3>3, <3>4, UnloggedQueue
    <3>6. Len(queue[r][x.stream]) = Cardinality(EventsOn(log[r], x.stream)) + 1
      BY <3>3, <3>4, <3>5 DEF Counted
    <3>7. p = Len(queue[r][x.stream])
      <4>1. Position(Append(log[r], x), Len(log[r]) + 1) = Cardinality(EventsOn(log[r], x.stream)) + 1
        BY <1>1, <3>1, <3>3, EventsGrow
      <4> QED BY <1>4, <2>3, <3>2, <3>6, <4>1
    <3>8. queue'[r][x.stream] = queue[r][x.stream]
      BY <1>1, <3>2, <3>3
    <3> QED BY <2>3, <3>2, <3>3, <3>4, <3>5, <3>7, <3>8
  <2> QED BY <2>1, <2>2, <2>3
<1> QED BY <1>4 DEF Placed

LEMMA HostFound ==
  ASSUME Typed, Queued, LastQueued, Counted, Found, NEW r \in Ranks, HostStep(r)
  PROVE  Found'
<1> DEFINE x == job[r][pc[r]]
<1>1. /\ job' = job /\ done' = done /\ x \in Steps
      /\ pc[r] \in 1..Len(job[r]) /\ pc'[r] = pc[r] + 1 /\ pc'[r] - 1 = pc[r]
      /\ \A q \in Ranks \ {r} : pc'[q] = pc[q] /\ log'[q] = log[q] /\ queue'[q] = queue[q]
      /\ log'[r] = IF x.do = "record" THEN Append(log[r], x) ELSE log[r]
      /\ \A s \in Streams : queue'[r][s] = IF x.do = "submit" /\ x.stream = s
                                             THEN Append(queue[r][s], x) ELSE queue[r][s]
      /\ x.do = "submit" => x.stream \in Streams
  BY HostFacts
<1>2. \A s \in Streams :
         /\ Unlogged(r, s)' <=> EventCall(x) /\ x.stream = s
         /\ Unlogged(r, s) <=> x.do = "record" /\ x.type \in EventTypes /\ x.stream = s
  BY HostUnlogged
<1> HIDE DEF x
<1>3. ASSUME NEW q \in Ranks, NEW s \in Streams, NEW i \in DOMAIN queue'[q][s],
             EventCall(queue'[q][s][i])
      PROVE  LoggedAt(q, s, i)' \/ (i = Len(queue'[q][s]) /\ Unlogged(q, s)')
  <2>1. CASE q # r
    <3>1. queue'[q] = queue[q] /\ log'[q] = log[q] /\ pc'[q] = pc[q] /\ job' = job
      BY <1>1, <2>1
    <3>2. /\ LoggedAt(q, s, i)' <=> LoggedAt(q, s, i)
          /\ Unlogged(q, s)' <=> Unlogged(q, s)
      BY <3>1 DEF LoggedAt, Unlogged
    <3> QED BY <1>3, <3>1, <3>2 DEF Found
  <2>2. CASE q = r
    <3>1. queue[r][s] \in Seq(Steps) /\ Len(queue[r][s]) \in Nat /\ log[r] \in Seq(Steps)
      BY DEF Typed, TypeOK
    <3>2. CASE i \in DOMAIN queue[r][s]
      <4>1. queue'[r][s] = queue[r][s] \/ queue'[r][s] = Append(queue[r][s], x)
        BY <1>1
      <4>2. queue'[r][s][i] = queue[r][s][i]
        <5>1. CASE queue'[r][s] = queue[r][s]
          BY <5>1
        <5>2. CASE queue'[r][s] = Append(queue[r][s], x)
          BY <1>1, <3>1, <3>2, <5>2
        <5> QED BY <4>1, <5>1, <5>2
      <4>3. LoggedAt(r, s, i) \/ (i = Len(queue[r][s]) /\ Unlogged(r, s))
        BY <1>3, <2>2, <3>2, <4>2 DEF Found
      <4>4. CASE LoggedAt(r, s, i)
        <5>1. PICK k \in EventsOn(log[r], s) : Position(log[r], k) = i
          BY <4>4 DEF LoggedAt
        <5>2. k \in DOMAIN log[r]
          BY DEF EventsOn
        <5>3. CASE x.do = "record"
          <6>1. k \in EventsOn(log'[r], s) /\ Position(log'[r], k) = i
            BY <1>1, <3>1, <5>1, <5>2, <5>3, PositionKept, EventsGrow
          <6> QED BY <2>2, <6>1 DEF LoggedAt
        <5>4. CASE x.do # "record"
          <6>1. log'[r] = log[r]
            BY <1>1, <5>4
          <6> QED BY <2>2, <5>1, <6>1 DEF LoggedAt
        <5> QED BY <5>3, <5>4
      <4>5. CASE i = Len(queue[r][s]) /\ Unlogged(r, s)
        <5>1. x.do = "record" /\ x.type \in EventTypes /\ x.stream = s /\ EventQueue(r, s)
          BY <1>2, <4>5, UnloggedQueue
        <5>2. i = Cardinality(EventsOn(log[r], s)) + 1
          BY <4>5, <5>1 DEF Counted
        <5>3. log'[r] = Append(log[r], x)
          BY <1>1, <5>1
        <5>4. /\ Len(log[r]) + 1 \in EventsOn(log'[r], s)
              /\ Position(log'[r], Len(log[r]) + 1) = i
          BY <1>1, <3>1, <5>1, <5>2, <5>3, EventsGrow
        <5> QED BY <2>2, <5>4 DEF LoggedAt
      <4> QED BY <4>3, <4>4, <4>5
    <3>3. CASE i \notin DOMAIN queue[r][s]
      <4>1. x.do = "submit" /\ x.stream = s /\ queue'[r][s] = Append(queue[r][s], x)
        BY <1>1, <1>3, <2>2, <3>3
      <4>2. i = Len(queue'[r][s]) /\ queue'[r][s][i] = x
        BY <1>1, <1>3, <2>2, <3>1, <3>3, <4>1
      <4> QED BY <1>2, <1>3, <2>2, <4>1, <4>2
    <3> QED BY <3>2, <3>3
  <2> QED BY <2>1, <2>2
<1> QED BY <1>3 DEF Found

\* The host disturbs nothing of what is in the queues.
LEMMA HostKeepsQueues ==
  ASSUME Typed, NEW r \in Ranks, HostStep(r)
  PROVE  /\ done' = done
         /\ \A q \in Ranks, s \in Streams : \A i \in DOMAIN queue[q][s] :
               i \in DOMAIN queue'[q][s] /\ queue'[q][s][i] = queue[q][s][i]
         /\ \A q \in Ranks, s \in Streams :
               done[q][s] \in Nat /\ \A i \in 1..done[q][s] : i \in DOMAIN queue[q][s]
<1> DEFINE x == job[r][pc[r]]
<1>1. /\ job' = job /\ done' = done /\ x \in Steps
      /\ pc[r] \in 1..Len(job[r]) /\ pc'[r] = pc[r] + 1 /\ pc'[r] - 1 = pc[r]
      /\ \A q \in Ranks \ {r} : pc'[q] = pc[q] /\ log'[q] = log[q] /\ queue'[q] = queue[q]
      /\ log'[r] = IF x.do = "record" THEN Append(log[r], x) ELSE log[r]
      /\ \A s \in Streams : queue'[r][s] = IF x.do = "submit" /\ x.stream = s
                                             THEN Append(queue[r][s], x) ELSE queue[r][s]
      /\ x.do = "submit" => x.stream \in Streams
  BY HostFacts
<1> HIDE DEF x
<1>2. ASSUME NEW q \in Ranks, NEW s \in Streams, NEW i \in DOMAIN queue[q][s]
      PROVE  i \in DOMAIN queue'[q][s] /\ queue'[q][s][i] = queue[q][s][i]
  <2>1. queue'[q][s] = queue[q][s] \/ queue'[q][s] = Append(queue[q][s], x)
    BY <1>1
  <2>2. queue[q][s] \in Seq(Steps)
    BY DEF Typed, TypeOK
  <2>3. x \in Steps
    BY <1>1
  <2> QED BY <1>2, <2>1, <2>2, <2>3
<1>3. ASSUME NEW q \in Ranks, NEW s \in Streams
      PROVE  done[q][s] \in Nat /\ \A i \in 1..done[q][s] : i \in DOMAIN queue[q][s]
  BY DEF Typed, TypeOK
<1> QED BY <1>1, <1>2, <1>3

LEMMA HostServed ==
  ASSUME Typed, WaitsServed, NEW r \in Ranks, HostStep(r)
  PROVE  WaitsServed'
<1>1. /\ done' = done
      /\ \A q \in Ranks, s \in Streams : \A i \in DOMAIN queue[q][s] :
            i \in DOMAIN queue'[q][s] /\ queue'[q][s][i] = queue[q][s][i]
      /\ \A q \in Ranks, s \in Streams :
            done[q][s] \in Nat /\ \A i \in 1..done[q][s] : i \in DOMAIN queue[q][s]
  BY HostKeepsQueues
<1>2. ASSUME NEW q \in Ranks, NEW s \in Streams, NEW i \in 1..done'[q][s],
             queue'[q][s][i].type = "wait"
      PROVE  \E t \in Streams : \E j \in 1..done'[q][t] :
                Is(queue'[q][t][j], "record", queue'[q][s][i].corr)
  <2>1. i \in 1..done[q][s] /\ queue'[q][s][i] = queue[q][s][i]
    BY <1>1, <1>2
  <2>2. Completed(q, "record", queue[q][s][i].corr)
    BY <1>2, <2>1 DEF WaitsServed
  <2>3. PICK t \in Streams :
           \E j \in 1..done[q][t] : Is(queue[q][t][j], "record", queue[q][s][i].corr)
    BY <2>2 DEF Completed
  <2>rec. PICK j \in 1..done[q][t] : Is(queue[q][t][j], "record", queue[q][s][i].corr)
    BY <2>3
  <2>4. j \in 1..done'[q][t] /\ queue'[q][t][j] = queue[q][t][j]
    BY <1>1
  <2>5. Is(queue'[q][t][j], "record", queue'[q][s][i].corr)
    BY <2>1, <2>rec, <2>4
  <2> QED BY <2>4, <2>5
<1> QED BY <1>2 DEF WaitsServed, Completed

LEMMA DoneIs ==
  ASSUME NEW r, NEW z
  PROVE  z \in DoneOps(r) <=> z \in Streams \X Nat /\ z[2] \in 1..done[r][z[1]]
BY DEF DoneOps

LEMMA HostNoneHeld ==
  ASSUME Typed, NoneHeld, NEW r \in Ranks, HostStep(r)
  PROVE  NoneHeld'
<1>1. /\ done' = done
      /\ \A q \in Ranks, s \in Streams : \A i \in DOMAIN queue[q][s] :
            i \in DOMAIN queue'[q][s] /\ queue'[q][s][i] = queue[q][s][i]
      /\ \A q \in Ranks, s \in Streams :
            done[q][s] \in Nat /\ \A i \in 1..done[q][s] : i \in DOMAIN queue[q][s]
  BY HostKeepsQueues
<1>2. ASSUME NEW q \in Ranks, RecordedOnce(q)' PROVE RecordedOnce(q)
  BY <1>1, <1>2 DEF RecordedOnce
<1>3. ASSUME NEW q \in Ranks PROVE DoneOps(q)' = DoneOps(q)
  BY <1>1 DEF DoneOps
<1>4. ASSUME NEW q \in Ranks, NEW z \in DoneOps(q) PROVE At(q, z)' = At(q, z)
  <2>1. z[1] \in Streams /\ z[2] \in 1..done[q][z[1]]
    BY <1>4, DoneIs
  <2> QED BY <1>1, <2>1 DEF At
<1>5. ASSUME NEW q \in Ranks, NEW set \in SUBSET DoneOps(q), Held(q, set)' PROVE Held(q, set)
  BY <1>4, <1>5 DEF Held, After
<1> QED BY <1>2, <1>3, <1>5 DEF NoneHeld
-----------------------------------------------------------------------------
(* The device of a rank.                                                   *)

LEMMA RunFacts ==
  ASSUME Typed, NEW r \in Ranks, NEW s \in Streams, Run(r, s)
  PROVE  /\ UNCHANGED <<job, pc, log, queue>>
         /\ done[r][s] + 1 \in DOMAIN queue[r][s]
         /\ Ready(r, queue[r][s][done[r][s] + 1])
         /\ done'[r][s] = done[r][s] + 1
         /\ \A q \in Ranks, t \in Streams : q # r \/ t # s => done'[q][t] = done[q][t]
         /\ \A q \in Ranks, t \in Streams :
               /\ done[q][t] \in Nat /\ done'[q][t] \in Nat /\ done[q][t] <= done'[q][t]
               /\ \A i \in 1..done[q][t] : i \in DOMAIN queue[q][t]
<1>1. UNCHANGED <<job, pc, log, queue>> /\ done' = [done EXCEPT ![r][s] = done[r][s] + 1]
  BY DEF Run
<1>2. /\ done[r][s] + 1 \in DOMAIN queue[r][s]
      /\ Ready(r, queue[r][s][done[r][s] + 1])
  BY DEF Run, CanRun, Pending
<1>3. /\ done'[r][s] = done[r][s] + 1
      /\ \A q \in Ranks, t \in Streams : q # r \/ t # s => done'[q][t] = done[q][t]
  BY <1>1 DEF Typed, TypeOK
<1>4. \A q \in Ranks, t \in Streams :
         done[q][t] \in Nat /\ \A i \in 1..done[q][t] : i \in DOMAIN queue[q][t]
  <2> SUFFICES ASSUME NEW q \in Ranks, NEW t \in Streams
               PROVE  done[q][t] \in Nat /\ \A i \in 1..done[q][t] : i \in DOMAIN queue[q][t]
    OBVIOUS
  <2>1. /\ queue[q][t] \in Seq(Steps) /\ done[q][t] \in Nat
        /\ done[q][t] <= Len(queue[q][t])
    BY DEF Typed, TypeOK
  <2> QED BY <2>1
<1>5. \A q \in Ranks, t \in Streams : done'[q][t] \in Nat /\ done[q][t] <= done'[q][t]
  BY <1>3, <1>4
<1> QED BY <1>1, <1>2, <1>3, <1>4, <1>5

LEMMA RunServed ==
  ASSUME Typed, WaitsServed, NEW r \in Ranks, NEW s \in Streams, Run(r, s)
  PROVE  WaitsServed'
<1>1. /\ UNCHANGED <<job, pc, log, queue>>
      /\ done[r][s] + 1 \in DOMAIN queue[r][s]
      /\ Ready(r, queue[r][s][done[r][s] + 1])
      /\ done'[r][s] = done[r][s] + 1
      /\ \A q \in Ranks, t \in Streams : q # r \/ t # s => done'[q][t] = done[q][t]
      /\ \A q \in Ranks, t \in Streams :
            /\ done[q][t] \in Nat /\ done'[q][t] \in Nat /\ done[q][t] <= done'[q][t]
            /\ \A i \in 1..done[q][t] : i \in DOMAIN queue[q][t]
  BY RunFacts
<1>2. ASSUME NEW q \in Ranks, NEW t \in Streams, NEW i \in 1..done'[q][t],
             queue[q][t][i].type = "wait"
      PROVE  Completed(q, "record", queue[q][t][i].corr)
  <2>1. CASE i \in 1..done[q][t]
    BY <1>2, <2>1 DEF WaitsServed
  <2>2. CASE i \notin 1..done[q][t]
    <3>1. q = r /\ t = s /\ i = done[r][s] + 1
      BY <1>1, <2>2
    <3> QED BY <1>1, <1>2, <3>1 DEF Ready
  <2> QED BY <2>1, <2>2
<1>3. ASSUME NEW q \in Ranks, NEW corr, Completed(q, "record", corr)
      PROVE  \E t \in Streams : \E i \in 1..done'[q][t] : Is(queue'[q][t][i], "record", corr)
  <2>1. PICK t \in Streams : \E i \in 1..done[q][t] : Is(queue[q][t][i], "record", corr)
    BY <1>3 DEF Completed
  <2>2. \A i \in 1..done[q][t] : i \in 1..done'[q][t]
    BY <1>1
  <2> QED BY <1>1, <2>1, <2>2
<1>4. \A q \in Ranks, t \in Streams : \A i \in 1..done'[q][t] : queue'[q][t][i].type = "wait" =>
         \E u \in Streams : \E j \in 1..done'[q][u] :
            Is(queue'[q][u][j], "record", queue'[q][t][i].corr)
  BY <1>1, <1>2, <1>3
<1> QED BY <1>4 DEF WaitsServed, Completed

LEMMA RunNoneHeld ==
  ASSUME Typed, Queued, WaitsServed, NoneHeld, NEW r \in Ranks, NEW s \in Streams, Run(r, s)
  PROVE  NoneHeld'
<1> DEFINE d == done[r][s] + 1
<1> DEFINE last == <<s, d>>
<1>1. /\ UNCHANGED <<job, pc, log, queue>>
      /\ d \in DOMAIN queue[r][s] /\ Ready(r, queue[r][s][d]) /\ done'[r][s] = d
      /\ \A q \in Ranks, t \in Streams : q # r \/ t # s => done'[q][t] = done[q][t]
      /\ \A q \in Ranks, t \in Streams :
            /\ done[q][t] \in Nat /\ done'[q][t] \in Nat /\ done[q][t] <= done'[q][t]
            /\ \A i \in 1..done[q][t] : i \in DOMAIN queue[q][t]
  BY RunFacts
<1>2. \A q \in Ranks : /\ RecordedOnce(q)' <=> RecordedOnce(q)
                       /\ \A set : Held(q, set)' <=> Held(q, set)
  BY <1>1 DEF RecordedOnce, Held, After, At
<1>3. ASSUME NEW q \in Ranks, q # r PROVE DoneOps(q)' = DoneOps(q)
  BY <1>1, <1>3 DEF DoneOps
<1>4. last[1] = s /\ last[2] = d /\ d \in Nat /\ d > done[r][s]
  BY <1>1
<1>5. ASSUME NEW z \in DoneOps(r)' PROVE z \in DoneOps(r) \/ z = last
  <2>1. z \in Streams \X Nat /\ z[2] \in 1..done'[r][z[1]]
    BY <1>5 DEF DoneOps
  <2>2. CASE z[1] # s
    BY <1>1, <2>1, <2>2 DEF DoneOps
  <2>3. CASE z[1] = s /\ z[2] # d
    <3>1. z[2] \in 1..done[r][z[1]]
      BY <1>1, <2>1, <2>3
    <3> QED BY <2>1, <3>1 DEF DoneOps
  <2>4. CASE z[1] = s /\ z[2] = d
    BY <2>1, <2>4
  <2> QED BY <2>2, <2>3, <2>4
<1>6. last \notin DoneOps(r)
  BY <1>1, <1>4 DEF DoneOps
<1> HIDE DEF last, d
<1>7. ASSUME RecordedOnce(r), NEW set \in SUBSET DoneOps(r)', Held(r, set) PROVE set = {}
  <2> DEFINE rest == set \ {last}
  <2>1. rest \in SUBSET DoneOps(r)
    BY <1>5
  <2>2. Held(r, rest)
    <3> SUFFICES ASSUME NEW z \in rest PROVE \E y \in rest : After(r, z, y)
      BY DEF Held
    <3>1. z \in set /\ z \in DoneOps(r) /\ z # last
      BY <2>1
    <3>2. PICK y \in set : After(r, z, y)
      BY <1>7, <3>1 DEF Held
    <3>3. z[1] \in Streams /\ z[2] \in Nat /\ z[2] \in 1..done[r][z[1]]
      BY <3>1, DoneIs
    <3>4. y # last
      <4> SUFFICES ASSUME y = last PROVE FALSE
        OBVIOUS
      <4>1. CASE At(r, z).type = "wait" /\ Is(At(r, y), "record", At(r, z).corr)
        <5>1. Completed(r, "record", At(r, z).corr)
          BY <3>3, <4>1 DEF WaitsServed, At
        <5>2. PICK t \in Streams :
                 \E i \in 1..done[r][t] : Is(queue[r][t][i], "record", At(r, z).corr)
          BY <5>1 DEF Completed
        <5>3. PICK i \in 1..done[r][t] : Is(queue[r][t][i], "record", At(r, z).corr)
          BY <5>2
        <5>4. i \in DOMAIN queue[r][t] /\ Is(queue[r][s][d], "record", At(r, z).corr)
          BY <1>1, <1>4, <4>1 DEF At
        <5>5. t = s /\ i = d
          BY <1>1, <1>7, <5>3, <5>4 DEF RecordedOnce, Is
        <5> QED BY <1>1, <1>4, <5>5
      <4>2. CASE y[1] = z[1] /\ y[2] < z[2]
        BY <1>1, <1>4, <3>3, <4>2
      <4> QED BY <3>2, <4>1, <4>2 DEF After
    <3> QED BY <3>2, <3>4
  <2>3. rest = {}
    BY <1>7, <2>1, <2>2 DEF NoneHeld
  <2>4. last \notin set
    <3> SUFFICES ASSUME last \in set PROVE FALSE
      OBVIOUS
    <3>1. After(r, last, last)
      BY <1>7, <2>3 DEF Held
    <3>2. CASE At(r, last).type = "wait" /\ Is(At(r, last), "record", At(r, last).corr)
      BY <3>2 DEF Is
    <3>3. CASE last[2] < last[2]
      BY <1>4, <3>3
    <3> QED BY <3>1, <3>2, <3>3 DEF After
  <2> QED BY <2>3, <2>4
<1> QED BY <1>2, <1>3, <1>7 DEF NoneHeld

-----------------------------------------------------------------------------
(* The invariant.                                                          *)

LEMMA InitJob == Init => JobInv
<1> SUFFICES ASSUME Init PROVE JobInv
  OBVIOUS
<1>1. Typed
  BY InitTypes
<1>2. \A r \in Ranks : /\ pc[r] = 1 /\ log[r] = << >>
                       /\ \A s \in Streams : queue[r][s] = << >> /\ done[r][s] = 0
  BY DEF Init, JobInit
<1>3. Queued /\ LastQueued /\ Placed /\ Found /\ WaitsServed
  <2>1. Queued /\ LastQueued
    BY <1>2 DEF Queued, LastQueued
  <2>2. Placed /\ Found /\ WaitsServed
    BY <1>2 DEF Placed, Found, WaitsServed
  <2> QED BY <2>1, <2>2
<1>4. Counted
  <2> SUFFICES ASSUME NEW r \in Ranks, NEW s \in Streams
               PROVE  Len(queue[r][s]) = Cardinality(EventsOn(log[r], s))
                                           + (IF Unlogged(r, s) THEN 1 ELSE 0)
    BY DEF Counted
  <2>1. EventsOn(log[r], s) = {}
    BY <1>2 DEF EventsOn
  <2>2. ~Unlogged(r, s)
    BY <1>2 DEF Unlogged
  <2> QED BY <1>2, <2>1, <2>2, FS_EmptySet
<1>5. NoneHeld
  <2>1. \A r \in Ranks : DoneOps(r) = {}
    BY <1>2 DEF DoneOps
  <2> QED BY <2>1 DEF NoneHeld
<1> QED BY <1>1, <1>3, <1>4, <1>5 DEF JobInv

LEMMA StillJob ==
  ASSUME JobInv, UNCHANGED jobVars, Typed'
  PROVE  JobInv'
<1>1. UNCHANGED <<job, pc, log, queue, done>>
  OBVIOUS
<1>2. (Queued /\ LastQueued)'
  <2>1. Queued'
    BY <1>1 DEF JobInv, Queued
  <2>2. LastQueued'
    BY <1>1 DEF JobInv, LastQueued
  <2> QED BY <2>1, <2>2
<1>3. (Counted /\ Found)'
  BY <1>1 DEF JobInv, Counted, Found, Unlogged, EventQueue, LoggedAt
<1>4. Placed'
  BY <1>1 DEF JobInv, Placed
<1>5. WaitsServed'
  BY <1>1 DEF JobInv, WaitsServed, Completed
<1>6. NoneHeld'
  <2> SUFFICES ASSUME NEW r \in Ranks, RecordedOnce(r)',
                      NEW CONSTANT set \in SUBSET DoneOps(r)', Held(r, set)'
               PROVE  set = {}
    BY DEF NoneHeld
  <2>1. RecordedOnce(r) /\ set \in SUBSET DoneOps(r)
    BY <1>1 DEF DoneOps, RecordedOnce
  <2>2. Held(r, set)
    BY <1>1 DEF Held, After, At
  <2> QED BY <2>1, <2>2 DEF JobInv, NoneHeld
<1> QED BY <1>2, <1>3, <1>4, <1>5, <1>6 DEF JobInv

LEMMA NextJob == JobInv /\ [Next]_vars => JobInv'
<1> SUFFICES ASSUME JobInv, [Next]_vars PROVE JobInv'
  OBVIOUS
<1>1. Typed' /\ Typed /\ Queued /\ LastQueued /\ Counted /\ Placed /\ Found
      /\ WaitsServed /\ NoneHeld
  BY NextTypes DEF JobInv
<1>2. ASSUME NEW r \in Ranks, HostStep(r) PROVE JobInv'
  <2>1. Queued' /\ LastQueued'
    BY <1>1, <1>2, HostQueued
  <2>2. Counted'
    BY <1>1, <1>2, HostCounted
  <2>3. Placed'
    BY <1>1, <1>2, HostPlaced
  <2>4. Found'
    BY <1>1, <1>2, HostFound
  <2>5. WaitsServed'
    BY <1>1, <1>2, HostServed
  <2>6. NoneHeld'
    BY <1>1, <1>2, HostNoneHeld
  <2> QED BY <1>1, <2>1, <2>2, <2>3, <2>4, <2>5, <2>6 DEF JobInv
<1>3. ASSUME NEW r \in Ranks, NEW s \in Streams, Run(r, s) PROVE JobInv'
  <2>1. UNCHANGED <<job, pc, log, queue>>
    BY <1>3 DEF Run
  <2>2. (Queued /\ LastQueued)'
    <3>1. Queued'
      BY <1>1, <2>1 DEF Queued
    <3>2. LastQueued'
      BY <1>1, <2>1 DEF LastQueued
    <3> QED BY <3>1, <3>2
  <2>3. (Counted /\ Found)'
    BY <1>1, <2>1 DEF Counted, Found, Unlogged, EventQueue, LoggedAt
  <2>4. Placed'
    BY <1>1, <2>1 DEF Placed
  <2>5. WaitsServed'
    BY <1>1, <1>3, RunServed
  <2>6. NoneHeld'
    BY <1>1, <1>3, RunNoneHeld
  <2> QED BY <1>1, <2>2, <2>3, <2>4, <2>5, <2>6 DEF JobInv
<1>4. CASE UNCHANGED jobVars
  BY <1>1, <1>4, StillJob
<1>5. \/ \E r \in Ranks : HostStep(r)
      \/ \E r \in Ranks, s \in Streams : Run(r, s)
      \/ UNCHANGED jobVars
  BY DEF Next, DeviceStep, Begin, SeeHang, SeeDump, TimesOut, Reaped, Judge, WatchdogStep,
         BeginStalled, BeginExit, Publish, Copy, Skip, vars
<1> QED BY <1>2, <1>3, <1>4, <1>5

\* What the logs, the queues and the devices have to do with each other: every
\* logged event call is at its place in a queue, and completed operations have
\* an order.  (worker, and the calls of the recorder in it.)
THEOREM JobInvariant == Spec => []JobInv
<1> QED BY InitJob, NextJob, PTL DEF Spec
-----------------------------------------------------------------------------
(* The graph of the analyzer's view.                                       *)

LEMMA OperationIs ==
  ASSUME NEW op
  PROVE  op \in Operations(View) <=>
           /\ op = <<op[1], op[2]>> /\ op[1] \in Ranks /\ op[2] \in DOMAIN log[op[1]]
           /\ log[op[1]][op[2]].type \in EventTypes
<1>1. DOMAIN View = Ranks /\ \A r \in Ranks : View[r] = log[r]
  BY DEF View
<1>2. ASSUME op \in Operations(View)
      PROVE  /\ op = <<op[1], op[2]>> /\ op[1] \in Ranks /\ op[2] \in DOMAIN log[op[1]]
             /\ log[op[1]][op[2]].type \in EventTypes
  <2>1. PICK r \in DOMAIN View : op \in {r} \X DOMAIN View[r]
    BY <1>2 DEF Operations
  <2>2. View[op[1]][op[2]].type \in EventTypes
    BY <1>2 DEF Operations
  <2>3. op = <<op[1], op[2]>> /\ op[1] = r /\ op[2] \in DOMAIN View[r]
    BY <2>1
  <2> QED BY <1>1, <2>2, <2>3
<1>3. ASSUME op = <<op[1], op[2]>>, op[1] \in Ranks, op[2] \in DOMAIN log[op[1]],
             log[op[1]][op[2]].type \in EventTypes
      PROVE  op \in Operations(View)
  <2>1. op \in {op[1]} \X DOMAIN View[op[1]]
    BY <1>1, <1>3
  <2> QED BY <1>1, <1>3, <2>1 DEF Operations
<1> QED BY <1>2, <1>3

\* What a wait and a record lead to.
LEMMA EdgeIs ==
  ASSUME NEW op \in Operations(View), NEW r, NEW q, op = <<r, q>>, NEW dest
  PROVE  /\ DOMAIN Edges(View) = Operations(View)
         /\ dest \in Edges(View)[op] <=>
              /\ dest = <<r, dest[2]>>
              /\ \/ /\ log[r][q].type = "EVENT_WAIT"
                    /\ dest[2] \in Producer(log[r], log[r][q].corr)
                 \/ /\ log[r][q].type # "EVENT_WAIT"
                    /\ dest[2] \in PriorWaits(log[r], q)
<1>1. r \in Ranks /\ View[r] = log[r]
  BY OperationIs DEF View
<1>2. DOMAIN Edges(View) = Operations(View)
  BY DEF Edges
<1>3. Edges(View)[op] = {r} \X (IF log[r][q].type = "EVENT_WAIT"
                                THEN Producer(log[r], log[r][q].corr) ELSE PriorWaits(log[r], q))
  BY <1>1 DEF Edges
<1>4. CASE log[r][q].type = "EVENT_WAIT"
  BY <1>2, <1>3, <1>4
<1>5. CASE log[r][q].type # "EVENT_WAIT"
  BY <1>2, <1>3, <1>5
<1> QED BY <1>4, <1>5

LEMMA ViewGraph ==
  ASSUME Typed PROVE Graph(Edges(View))
<1>1. \A r \in Ranks : log[r] \in Seq(Steps) /\ View[r] = log[r]
  BY DEF Typed, TypeOK, View
<1>2. IsFiniteSet(Operations(View))
  <2> DEFINE All == UNION {{r} \X DOMAIN View[r] : r \in DOMAIN View}
  <2>1. IsFiniteSet({{r} \X DOMAIN View[r] : r \in DOMAIN View})
    <3>1. IsFiniteSet(DOMAIN View)
      BY RanksAssumption DEF View
    <3> DEFINE S == {{r} \X DOMAIN View[r] : r \in DOMAIN View}
    <3> DEFINE f == [r \in DOMAIN View |-> {r} \X DOMAIN View[r]]
    <3>2. f \in Surjection(DOMAIN View, S)
      BY DEF Surjection
    <3> HIDE DEF f, S
    <3>3. IsFiniteSet(S)
      BY <3>1, <3>2, FS_Surjection
    <3> QED BY <3>3 DEF S
  <2>2. ASSUME NEW r \in DOMAIN View PROVE IsFiniteSet({r} \X DOMAIN View[r])
    <3>1. r \in Ranks
      BY DEF View
    <3>2. DOMAIN View[r] = 1..Len(log[r]) /\ Len(log[r]) \in Nat
      BY <1>1, <3>1
    <3>3. IsFiniteSet(DOMAIN View[r]) /\ IsFiniteSet({r})
      <4>1. IsFiniteSet(1..Len(log[r]))
        BY <3>2, FS_Interval
      <4> QED BY <3>2, <4>1, FS_Singleton
    <3>4. \A S, T : IsFiniteSet(S) /\ IsFiniteSet(T) => IsFiniteSet(S \X T)
      BY FS_Product, Zenon
    <3> QED BY <3>3, <3>4
  <2>3. IsFiniteSet(All)
    BY <2>1, <2>2, FS_UNION
  <2>4. Operations(View) \in SUBSET All
    BY DEF Operations
  <2> HIDE DEF All
  <2> QED BY <2>3, <2>4, FS_Subset
<1>3. ASSUME NEW op \in Operations(View), NEW dest \in Edges(View)[op]
      PROVE  dest \in Operations(View)
  <2> DEFINE r == op[1]
  <2> DEFINE q == op[2]
  <2>1. op = <<r, q>> /\ r \in Ranks /\ q \in DOMAIN log[r]
    BY OperationIs
  <2>2. /\ dest = <<r, dest[2]>>
        /\ dest[2] \in Producer(log[r], log[r][q].corr) \/ dest[2] \in PriorWaits(log[r], q)
    BY <2>1, EdgeIs
  <2>3. dest[1] = r
    BY <2>2
  <2> HIDE DEF r, q
  <2>4. CASE dest[2] \in Producer(log[r], log[r][q].corr)
    <3>1. dest[2] \in DOMAIN log[r] /\ log[r][dest[2]].type \in EventTypes
      BY <2>4 DEF Producer, Is, EventTypes
    <3> QED BY <2>1, <2>2, <2>3, <3>1, OperationIs
  <2>5. CASE dest[2] \in PriorWaits(log[r], q)
    <3>1. dest[2] \in 1..(q - 1) /\ log[r][dest[2]].type \in EventTypes
      BY <2>5 DEF PriorWaits, EventTypes
    <3>2. dest[2] \in DOMAIN log[r]
      BY <1>1, <2>1, <3>1
    <3> QED BY <2>1, <2>2, <2>3, <3>1, <3>2, OperationIs
  <2> QED BY <2>2, <2>4, <2>5
<1>4. DOMAIN Edges(View) = Operations(View)
      /\ Edges(View) \in [Operations(View) -> SUBSET Operations(View)]
  <2>1. DOMAIN Edges(View) = Operations(View)
    BY DEF Edges
  <2>2. Edges(View) = [op \in Operations(View) |-> Edges(View)[op]]
    BY DEF Edges
  <2>3. \A op \in Operations(View) : Edges(View)[op] \in SUBSET Operations(View)
    BY <1>3
  <2> QED BY <2>1, <2>2, <2>3
<1> QED BY <1>2, <1>4 DEF Graph

\* The later of two events of a stream has the greater position.
LEMMA PositionGrows ==
  ASSUME NEW l \in Seq(Steps), NEW i \in DOMAIN l, NEW j \in DOMAIN l, i < j,
         l[j].type \in EventTypes, l[i].stream = l[j].stream
  PROVE  /\ Position(l, i) \in Nat /\ Position(l, j) \in Nat
         /\ Position(l, i) < Position(l, j)
<1> DEFINE E(k) == {m \in 1..k : l[m].type \in EventTypes /\ l[m].stream = l[j].stream}
<1>1. i \in Nat /\ j \in Nat
  OBVIOUS
<1>2. IsFiniteSet(1..j) /\ IsFiniteSet(1..i)
  BY <1>1, FS_Interval
<1>3. IsFiniteSet(E(j)) /\ IsFiniteSet(E(i))
  BY <1>2, FS_Subset, E(j) \in SUBSET (1..j), E(i) \in SUBSET (1..i)
<1>4. E(i) \subseteq E(j) /\ j \in E(j) /\ j \notin E(i)
  BY <1>1
<1>5. Position(l, i) = Cardinality(E(i)) /\ Position(l, j) = Cardinality(E(j))
  BY DEF Position
<1> HIDE DEF E
<1>6. Cardinality(E(i)) < Cardinality(E(j))
  BY <1>3, <1>4, OneLess
<1> QED BY <1>3, <1>5, <1>6, FS_CardinalityType

\* The place in its queue of an operation that has been logged.
Place(op) == <<log[op[1]][op[2]].stream, Position(log[op[1]], op[2])>>

LEMMA PlaceIs ==
  ASSUME Typed, Placed, NEW op \in Operations(View), NEW r, op[1] = r
  PROVE  LET e == log[r][op[2]] IN
         /\ r \in Ranks /\ op[2] \in DOMAIN log[r] /\ e.type \in EventTypes
         /\ e.stream \in Streams /\ Position(log[r], op[2]) \in DOMAIN queue[r][e.stream]
         /\ Place(op)[1] = e.stream /\ Place(op)[2] = Position(log[r], op[2])
         /\ Place(op) \in Streams \X Nat
         /\ e.type = LoggedAs[At(r, Place(op)).type] /\ e.corr = At(r, Place(op)).corr
         /\ e.type = "EVENT_WAIT" => At(r, Place(op)).type = "wait"
         /\ e.type # "EVENT_WAIT" => At(r, Place(op)).type = "record"
<1> DEFINE e == log[r][op[2]]
<1> DEFINE p == Position(log[r], op[2])
<1>1. r \in Ranks /\ op[2] \in DOMAIN log[r] /\ e.type \in EventTypes
  BY OperationIs
<1>2. /\ e.stream \in Streams /\ p \in DOMAIN queue[r][e.stream]
      /\ LoggedFor(e, queue[r][e.stream][p])
  BY <1>1 DEF Placed
<1>3. Place(op) = <<e.stream, p>>
  BY DEF Place
<1>4. p \in Nat
  <2>1. queue[r][e.stream] \in Seq(Steps)
    BY <1>1, <1>2 DEF Typed, TypeOK
  <2>2. \A seq \in Seq(Steps) : DOMAIN seq \subseteq Nat
    OBVIOUS
  <2> HIDE DEF e, p
  <2> QED BY <1>2, <2>1, <2>2
<1> HIDE DEF e, p
<1>5. /\ Place(op)[1] = e.stream /\ Place(op)[2] = p /\ Place(op) \in Streams \X Nat
      /\ At(r, Place(op)) = queue[r][e.stream][p]
  BY <1>2, <1>3, <1>4 DEF At
<1>6. /\ e.type = LoggedAs[At(r, Place(op)).type] /\ e.corr = At(r, Place(op)).corr
      /\ At(r, Place(op)).type \in {"record", "wait"}
  BY <1>2, <1>5 DEF LoggedFor, EventCall, LoggedAs
<1>7. /\ e.type = "EVENT_WAIT" => At(r, Place(op)).type = "wait"
      /\ e.type # "EVENT_WAIT" => At(r, Place(op)).type = "record"
  BY <1>6 DEF LoggedAs
<1> QED BY <1>1, <1>2, <1>5, <1>6, <1>7 DEF e, p

-----------------------------------------------------------------------------
(* A reported cycle is a deadlock.                                         *)

\* What an operation of the cycle depends on has completed if it has.
LEMMA CycleHeld ==
  ASSUME JobInv, NEW r \in Ranks, RecordedOnce(r),
         NEW nodes \in SUBSET Operations(View), Closed(Edges(View), nodes),
         NEW set, set = {z \in DoneOps(r) : \E op \in nodes : op[1] = r /\ z = Place(op)}
  PROVE  Held(r, set)
<1>1. Typed /\ Placed /\ WaitsServed
  BY DEF JobInv
<1> SUFFICES ASSUME NEW z \in set PROVE \E y \in set : After(r, z, y)
  BY DEF Held
<1>2. PICK op \in nodes : op[1] = r /\ z = Place(op)
  OBVIOUS
<1>3. PICK dest \in nodes : dest \in Edges(View)[op]
  BY DEF Closed
<1> DEFINE q == op[2]
<1> DEFINE e == log[r][q]
<1>4. op = <<r, q>> /\ op \in Operations(View) /\ dest \in Operations(View)
  BY <1>2, OperationIs
<1>5. /\ dest = <<r, dest[2]>>
      /\ \/ e.type = "EVENT_WAIT" /\ dest[2] \in Producer(log[r], e.corr)
         \/ e.type # "EVENT_WAIT" /\ dest[2] \in PriorWaits(log[r], q)
  BY <1>3, <1>4, EdgeIs
<1>6. dest[1] = r
  BY <1>5
<1> DEFINE f == log[r][dest[2]]
<1> DEFINE y == Place(dest)
<1>7. /\ q \in DOMAIN log[r] /\ e.type \in EventTypes
      /\ z[1] = e.stream /\ z[2] = Position(log[r], q)
      /\ e.corr = At(r, z).corr
      /\ e.type = "EVENT_WAIT" => At(r, z).type = "wait"
      /\ e.type # "EVENT_WAIT" => At(r, z).type = "record"
  BY <1>1, <1>2, <1>4, PlaceIs
<1>8. /\ dest[2] \in DOMAIN log[r] /\ f.type \in EventTypes
      /\ f.stream \in Streams /\ Position(log[r], dest[2]) \in DOMAIN queue[r][f.stream]
      /\ y[1] = f.stream /\ y[2] = Position(log[r], dest[2]) /\ y \in Streams \X Nat
      /\ f.corr = At(r, y).corr
      /\ f.type = "EVENT_WAIT" => At(r, y).type = "wait"
      /\ f.type # "EVENT_WAIT" => At(r, y).type = "record"
  BY <1>1, <1>4, <1>6, PlaceIs
<1>9. z \in Streams \X Nat /\ z[1] \in Streams /\ z[2] \in Nat /\ z[2] \in 1..done[r][z[1]]
  BY DoneIs
<1>10. log[r] \in Seq(Steps) /\ \A s \in Streams : done[r][s] \in Nat
  BY <1>1 DEF Typed, TypeOK
<1> HIDE DEF q, e, f, y
<1>11. CASE e.type = "EVENT_WAIT" /\ dest[2] \in Producer(log[r], e.corr)
  <2>1. f.type = "EVENT_RECORD" /\ f.corr = e.corr
    BY <1>11 DEF Producer, Is, f
  <2>2. At(r, z).type = "wait" /\ Is(At(r, y), "record", At(r, z).corr)
    BY <1>7, <1>8, <1>11, <2>1 DEF Is
  <2>3. Completed(r, "record", At(r, z).corr)
    BY <1>1, <1>9, <2>2 DEF WaitsServed, At
  <2>4. PICK s \in Streams :
           \E i \in 1..done[r][s] : Is(queue[r][s][i], "record", At(r, z).corr)
    BY <2>3 DEF Completed
  <2>5. PICK i \in 1..done[r][s] : Is(queue[r][s][i], "record", At(r, z).corr)
    BY <2>4
  <2>6. i \in DOMAIN queue[r][s]
    BY <1>1 DEF Typed, TypeOK
  <2>7. y[2] \in DOMAIN queue[r][y[1]] /\ y[1] \in Streams
        /\ Is(queue[r][y[1]][y[2]], "record", At(r, z).corr)
    BY <1>8, <2>2 DEF At
  <2>8. s = y[1] /\ i = y[2]
    BY <2>5, <2>6, <2>7 DEF RecordedOnce, Is
  <2>9. y \in DoneOps(r)
    BY <1>8, <2>5, <2>8, DoneIs
  <2>10. y \in set
    BY <1>6, <2>9 DEF y
  <2> QED BY <2>2, <2>10 DEF After
<1>12. CASE e.type # "EVENT_WAIT" /\ dest[2] \in PriorWaits(log[r], q)
  <2>1. dest[2] \in 1..(q - 1) /\ f.type = "EVENT_WAIT" /\ f.stream = e.stream
    BY <1>12 DEF PriorWaits, f, e
  <2>2. dest[2] < q
    BY <1>7, <1>10, <2>1
  <2>3. Position(log[r], dest[2]) < Position(log[r], q)
    BY <1>7, <1>8, <1>10, <2>1, <2>2, PositionGrows DEF e, f
  <2>4. y[1] = z[1] /\ y[2] < z[2]
    BY <1>7, <1>8, <2>1, <2>3
  <2>5. At(r, z).type = "record" /\ At(r, y).type = "wait"
    BY <1>7, <1>8, <1>12, <2>1
  <2>6. y[2] \in 1..done[r][y[1]]
    <3>1. y[2] \in Nat /\ y[2] > 0
      BY <1>1, <1>8 DEF Typed, TypeOK
    <3>2. done[r][y[1]] \in Nat
      BY <1>8, <1>10
    <3> QED BY <1>9, <2>4, <3>1, <3>2
  <2>7. y \in DoneOps(r)
    BY <1>8, <2>6, DoneIs
  <2>8. y \in set
    BY <1>6, <2>7 DEF y
  <2> QED BY <2>4, <2>5, <2>8 DEF After
<1> QED BY <1>5, <1>11, <1>12

LEMMA CyclesHold == JobInv => CyclesAreDeadlocks
<1> SUFFICES ASSUME JobInv, \A r \in Ranks : RecordedOnce(r),
                    NEW c \in FindCycles(Edges(View)), NEW i \in DOMAIN c,
                    NEW r, r = c[i][1], NEW q, q = c[i][2]
             PROVE  done[r][View[r][q].stream] < Position(View[r], q)
  BY DEF CyclesAreDeadlocks
<1> DEFINE op == c[i]
<1> DEFINE s == log[r][q].stream
<1>1. Typed /\ Placed
  BY DEF JobInv
<1>2. /\ DOMAIN Edges(View) = Operations(View)
      /\ c \in Seq(Operations(View)) /\ Closed(Edges(View), Range(c))
  <2>1. DOMAIN Edges(View) = Operations(View)
    BY DEF Edges
  <2> QED BY <1>1, <2>1, ViewGraph, SearchIsSound
<1>3. op \in Operations(View) /\ op \in Range(c) /\ Range(c) \in SUBSET Operations(View)
  BY <1>2 DEF Range
<1>4. /\ r \in Ranks /\ s \in Streams /\ Position(log[r], q) \in DOMAIN queue[r][s]
      /\ Place(op)[1] = s /\ Place(op)[2] = Position(log[r], q)
      /\ Place(op) \in Streams \X Nat
  BY <1>1, <1>3, PlaceIs
<1>5. View[r] = log[r]
  BY <1>4 DEF View
<1> HIDE DEF op, s
<1>6. done[r][s] < Position(log[r], q)
  <2> SUFFICES ASSUME ~(done[r][s] < Position(log[r], q)) PROVE FALSE
    OBVIOUS
  <2> DEFINE set == {z \in DoneOps(r) : \E o \in Range(c) : o[1] = r /\ z = Place(o)}
  <2>1. queue[r][s] \in Seq(Steps) /\ done[r][s] \in Nat
    BY <1>1, <1>4 DEF Typed, TypeOK
  <2>2. Place(op)[2] \in 1..done[r][Place(op)[1]]
    BY <1>4, <2>1
  <2>3. Place(op) \in DoneOps(r)
    BY <1>4, <2>2, DoneIs
  <2>4. Place(op) \in set
    BY <1>3, <2>3 DEF op
  <2>5. Held(r, set)
    BY <1>2, <1>3, <1>4, CycleHeld
  <2>6. set \in SUBSET DoneOps(r)
    OBVIOUS
  <2> HIDE DEF set
  <2> QED BY <1>4, <2>4, <2>5, <2>6 DEF JobInv, NoneHeld
<1> QED BY <1>5, <1>6 DEF s
-----------------------------------------------------------------------------
(* A deadlock is reported.                                                 *)

\* Of the records of an event there is a last.
LEMMA ProducerExists ==
  ASSUME NEW l \in Seq(Steps), NEW corr, NEW i \in DOMAIN l, Is(l[i], "EVENT_RECORD", corr)
  PROVE  \E k : k \in Producer(l, corr)
<1> DEFINE R == {j \in DOMAIN l : Is(l[j], "EVENT_RECORD", corr)}
<1> DEFINE Greatest(k, n) == k \in R /\ k <= n /\ \A j \in R : j <= n => j <= k
<1> DEFINE S == {n \in Nat : (\E j \in R : j <= n) => \E k : Greatest(k, n)}
<1>1. R \subseteq Nat \ {0} /\ Len(l) \in Nat /\ \A j \in R : j <= Len(l)
  OBVIOUS
<1> HIDE DEF R
<1>2. 0 \in S
  BY <1>1
<1>3. ASSUME NEW n \in Nat, n \in S PROVE n + 1 \in S
  <2> SUFFICES ASSUME NEW j \in R, j <= n + 1 PROVE \E k : Greatest(k, n + 1)
    OBVIOUS
  <2>1. CASE n + 1 \in R
    <3>1. Greatest(n + 1, n + 1)
      BY <2>1, <1>1
    <3> QED BY <3>1
  <2>2. CASE n + 1 \notin R
    <3>1. \A m \in R : m <= n + 1 => m <= n
      BY <2>2, <1>1
    <3>2. PICK k : Greatest(k, n)
      BY <1>3, <3>1
    <3>3. Greatest(k, n + 1)
      BY <1>1, <3>1, <3>2
    <3> QED BY <3>3
  <2> QED BY <2>1, <2>2
<1>4. \A n \in Nat : n \in S
  <2> HIDE DEF S
  <2> QED BY <1>2, <1>3, Induction
<1>5. i \in R
  BY DEF R
<1>6. PICK k : Greatest(k, Len(l))
  BY <1>1, <1>4, <1>5
<1>7. k \in R /\ \A j \in R : j <= k
  BY <1>1, <1>6
<1> QED BY <1>7 DEF R, Producer

\* An operation of a stream is in the log.
InLog(r, s, i) ==
    \E q \in DOMAIN log[r] :
       /\ <<r, q>> \in Operations(View) /\ Place(<<r, q>>) = <<s, i>>
       /\ log[r][q].stream = s /\ Position(log[r], q) = i
       /\ log[r][q].type = LoggedAs[queue[r][s][i].type]
       /\ log[r][q].corr = queue[r][s][i].corr

\* Once what was submitted is logged, an event call is in the log.
LEMMA CallLogged ==
  ASSUME JobInv, NEW r \in Ranks, pc[r] > 1, job[r][pc[r] - 1].do # "submit",
         NEW s \in Streams, NEW i \in DOMAIN queue[r][s],
         queue[r][s][i].type \in {"record", "wait"}
  PROVE  InLog(r, s, i)
<1>1. Queued /\ Found /\ Placed
  BY DEF JobInv
<1>2. EventCall(queue[r][s][i])
  BY <1>1 DEF Queued, EventCall, LoggedAs
<1>3. ~Unlogged(r, s)
  BY DEF Unlogged, EventCall
<1>4. PICK q \in EventsOn(log[r], s) : Position(log[r], q) = i
  BY <1>1, <1>2, <1>3 DEF Found, LoggedAt
<1>5. q \in DOMAIN log[r] /\ log[r][q].type \in EventTypes /\ log[r][q].stream = s
  BY DEF EventsOn
<1>6. LoggedFor(log[r][q], queue[r][s][i])
  BY <1>1, <1>4, <1>5 DEF Placed
<1>7. <<r, q>> \in Operations(View)
  BY <1>5, OperationIs
<1>8. Place(<<r, q>>) = <<s, i>>
  BY <1>4, <1>5 DEF Place
<1> QED BY <1>4, <1>5, <1>6, <1>7, <1>8 DEF LoggedFor, InLog

\* The wait at the head of a stream of the deadlock.
LEMMA HeadWait ==
  ASSUME JobInv, NEW r \in Ranks, NEW set \in SUBSET Streams, Deadlocked(r, set),
         NEW s \in set
  PROVE  LET d == done[r][s] + 1  x == queue[r][s][d] IN
         /\ d \in DOMAIN queue[r][s] /\ x.type = "wait" /\ ~Completed(r, "record", x.corr)
         /\ \E q \in Streams : \E i \in DOMAIN queue[r][q] : Is(queue[r][q][i], "record", x.corr)
         /\ \A q \in Streams : \A i \in DOMAIN queue[r][q] :
               Is(queue[r][q][i], "record", x.corr) => q \in set
<1>1. PICK x \in Pending(r, s) :
         /\ x.type = "wait" /\ ~Completed(r, "record", x.corr)
         /\ \E q \in Streams : \E i \in DOMAIN queue[r][q] : Is(queue[r][q][i], "record", x.corr)
         /\ \A q \in Streams : \A i \in DOMAIN queue[r][q] :
               Is(queue[r][q][i], "record", x.corr) => q \in set
  BY DEF Deadlocked
<1>2. done[r][s] + 1 \in DOMAIN queue[r][s] /\ x = queue[r][s][done[r][s] + 1]
  BY DEF Pending
<1> QED BY <1>1, <1>2

\* A record that has not completed comes after the wait at the head of its
\* stream.
LEMMA WaitBefore ==
  ASSUME Typed, Placed, NEW r \in Ranks, NEW t \in Streams,
         NEW k \in DOMAIN log[r], NEW w \in DOMAIN log[r],
         log[r][k].type = "EVENT_RECORD", log[r][k].stream = t,
         ~Completed(r, "record", log[r][k].corr),
         log[r][w].type = "EVENT_WAIT", log[r][w].stream = t,
         Position(log[r], w) = done[r][t] + 1
  PROVE  w \in PriorWaits(log[r], k)
<1>1. log[r] \in Seq(Steps) /\ queue[r][t] \in Seq(Steps) /\ done[r][t] \in Nat
  BY DEF Typed, TypeOK
<1>2. PICK p : p = Position(log[r], k)
  OBVIOUS
<1>3. p \in DOMAIN queue[r][t] /\ LoggedFor(log[r][k], queue[r][t][p])
  BY <1>2 DEF Placed, EventTypes
<1>4. /\ done[r][t] + 1 \in DOMAIN queue[r][t]
      /\ LoggedFor(log[r][w], queue[r][t][done[r][t] + 1])
  BY DEF Placed, EventTypes
<1>5. queue[r][t][p].type = "record" /\ queue[r][t][p].corr = log[r][k].corr
  BY <1>3, LoggedAsIs DEF LoggedFor, EventCall
<1>6. queue[r][t][done[r][t] + 1].type = "wait"
  BY <1>4, LoggedAsIs DEF LoggedFor, EventCall
<1>7. p \in Nat /\ p > 0
  BY <1>1, <1>3
<1>8. p > done[r][t]
  <2> SUFFICES ASSUME p <= done[r][t] PROVE FALSE
    BY <1>1, <1>7
  <2>1. p \in 1..done[r][t]
    BY <1>1, <1>7
  <2> QED BY <1>5, <2>1 DEF Completed, Is
<1>9. p # done[r][t] + 1
  BY <1>5, <1>6
<1>10. done[r][t] + 1 < p
  BY <1>1, <1>7, <1>8, <1>9
<1>11. w \in Nat /\ k \in Nat /\ k # w
  BY <1>1
<1>12. ~(k < w)
  <2> SUFFICES ASSUME k < w PROVE FALSE
    OBVIOUS
  <2>1. log[r][w].type \in EventTypes /\ log[r][k].stream = log[r][w].stream
    BY DEF EventTypes
  <2>2. p < Position(log[r], w)
    BY <1>1, <1>2, <2>1, PositionGrows
  <2> QED BY <1>1, <1>7, <1>10, <2>2
<1>13. w \in 1..(k - 1)
  BY <1>1, <1>11, <1>12
<1> QED BY <1>13 DEF PriorWaits

LEMMA DeadlockClosed ==
  ASSUME JobInv, NEW r \in Ranks, pc[r] > 1, job[r][pc[r] - 1].do # "submit",
         NEW set \in SUBSET Streams, set # {}, Deadlocked(r, set)
  PROVE  \E nodes \in SUBSET Operations(View) : nodes # {} /\ Closed(Edges(View), nodes)
<1> DEFINE AtWait(q) == /\ <<r, q>> \in Operations(View)
                        /\ log[r][q].type = "EVENT_WAIT" /\ log[r][q].stream \in set
                        /\ Position(log[r], q) = done[r][log[r][q].stream] + 1
<1> DEFINE Feeds(k) == /\ <<r, k>> \in Operations(View)
                       /\ \E q \in DOMAIN log[r] :
                             AtWait(q) /\ k \in Producer(log[r], log[r][q].corr)
<1> DEFINE nodes == {op \in Operations(View) : op[1] = r /\ (AtWait(op[2]) \/ Feeds(op[2]))}
<1>1. Typed /\ Placed /\ log[r] \in Seq(Steps)
  BY DEF JobInv, Typed, TypeOK
<1>2. ASSUME NEW s \in set
      PROVE  \E q \in DOMAIN log[r] : /\ AtWait(q) /\ log[r][q].stream = s
                                      /\ log[r][q].corr = queue[r][s][done[r][s] + 1].corr
  <2> DEFINE d == done[r][s] + 1
  <2>1. s \in Streams /\ d \in DOMAIN queue[r][s] /\ queue[r][s][d].type = "wait"
    BY HeadWait
  <2> HIDE DEF d
  <2>2. queue[r][s][d].type \in {"record", "wait"}
    BY <2>1
  <2>3. PICK q \in DOMAIN log[r] :
            /\ <<r, q>> \in Operations(View) /\ Place(<<r, q>>) = <<s, d>>
            /\ log[r][q].stream = s /\ Position(log[r], q) = d
            /\ log[r][q].type = LoggedAs[queue[r][s][d].type]
            /\ log[r][q].corr = queue[r][s][d].corr
    <3>1. InLog(r, s, d)
      BY <2>1, <2>2, CallLogged
    <3> QED BY <3>1 DEF InLog
  <2>4. log[r][q].type = "EVENT_WAIT"
    BY <2>1, <2>3, LoggedAsIs
  <2> QED BY <2>1, <2>3, <2>4 DEF d
<1>3. ASSUME NEW q \in DOMAIN log[r], AtWait(q), NEW s, s = log[r][q].stream
      PROVE  /\ s \in set /\ log[r][q].corr = queue[r][s][done[r][s] + 1].corr
             /\ ~Completed(r, "record", log[r][q].corr)
             /\ \E t \in Streams : \E i \in DOMAIN queue[r][t] :
                   Is(queue[r][t][i], "record", log[r][q].corr)
             /\ \A t \in Streams : \A i \in DOMAIN queue[r][t] :
                   Is(queue[r][t][i], "record", log[r][q].corr) => t \in set
  <2>1. s \in set /\ Position(log[r], q) = done[r][s] + 1 /\ log[r][q].type \in EventTypes
    BY <1>3 DEF EventTypes
  <2>2. log[r][q].corr = queue[r][s][done[r][s] + 1].corr
    BY <1>1, <1>3, <2>1 DEF Placed, LoggedFor
  <2> QED BY <2>1, <2>2, HeadWait
<1>4. nodes # {}
  <2>1. PICK s \in set : TRUE
    OBVIOUS
  <2>2. PICK q \in DOMAIN log[r] : AtWait(q)
    BY <1>2
  <2> DEFINE op == <<r, q>>
  <2>3. op \in Operations(View) /\ op[1] = r /\ op[2] = q
    BY <2>2
  <2> HIDE DEF op
  <2>4. op \in nodes
    BY <2>2, <2>3
  <2> QED BY <2>4
<1>5. ASSUME NEW q \in DOMAIN log[r], AtWait(q)
      PROVE  \E dest \in nodes : dest \in Edges(View)[<<r, q>>]
  <2>1. PICK t \in Streams : \E i \in DOMAIN queue[r][t] :
            Is(queue[r][t][i], "record", log[r][q].corr)
    BY <1>3, <1>5
  <2>2. PICK i \in DOMAIN queue[r][t] : Is(queue[r][t][i], "record", log[r][q].corr)
    BY <2>1
  <2>3. PICK m \in DOMAIN log[r] : Is(log[r][m], "EVENT_RECORD", log[r][q].corr)
    <3>1. queue[r][t][i].type \in {"record", "wait"}
      BY <2>2 DEF Is
    <3>2. PICK m \in DOMAIN log[r] :
            /\ <<r, m>> \in Operations(View) /\ Place(<<r, m>>) = <<t, i>>
            /\ log[r][m].stream = t /\ Position(log[r], m) = i
            /\ log[r][m].type = LoggedAs[queue[r][t][i].type]
            /\ log[r][m].corr = queue[r][t][i].corr
      <4>1. InLog(r, t, i)
        BY <3>1, CallLogged
      <4> QED BY <4>1 DEF InLog
    <3>3. Is(log[r][m], "EVENT_RECORD", log[r][q].corr)
      BY <2>2, <3>2 DEF Is, LoggedAs
    <3> QED BY <3>3
  <2>4. PICK k : k \in Producer(log[r], log[r][q].corr)
    BY <1>1, <2>3, ProducerExists
  <2> DEFINE dest == <<r, k>>
  <2>5. k \in DOMAIN log[r] /\ log[r][k].type \in EventTypes
    BY <2>4 DEF Producer, Is, EventTypes
  <2>6. dest \in Operations(View) /\ dest[1] = r /\ dest[2] = k /\ dest = <<r, dest[2]>>
    BY <2>5, OperationIs
  <2> HIDE DEF dest
  <2>7. Feeds(k)
    BY <1>5, <2>4, <2>6 DEF dest
  <2>8. dest \in nodes
    BY <2>6, <2>7
  <2>9. dest \in Edges(View)[<<r, q>>]
    BY <1>5, <2>4, <2>6, EdgeIs
  <2> QED BY <2>8, <2>9
<1>6. ASSUME NEW k, Feeds(k)
      PROVE  \E dest \in nodes : dest \in Edges(View)[<<r, k>>]
  <2>1. PICK q \in DOMAIN log[r] : AtWait(q) /\ k \in Producer(log[r], log[r][q].corr)
    BY <1>6
  <2> DEFINE f == log[r][k]
  <2> DEFINE t == f.stream
  <2> DEFINE p == Position(log[r], k)
  <2>2. k \in DOMAIN log[r] /\ f.type = "EVENT_RECORD" /\ f.corr = log[r][q].corr
    BY <2>1 DEF Producer, Is
  <2>3. t \in Streams /\ p \in DOMAIN queue[r][t] /\ LoggedFor(f, queue[r][t][p])
    BY <1>1, <2>2 DEF Placed, EventTypes
  <2>4. Is(queue[r][t][p], "record", log[r][q].corr)
    <3>1. /\ queue[r][t][p].type \in {"record", "wait"} /\ queue[r][t][p].corr = f.corr
          /\ f.type = LoggedAs[queue[r][t][p].type]
      BY <2>3, LoggedAsIs DEF LoggedFor, EventCall
    <3>2. queue[r][t][p].type = "record"
      BY <2>2, <3>1, LoggedAsIs
    <3> QED BY <2>2, <3>1, <3>2 DEF Is
  <2>5. t \in set /\ ~Completed(r, "record", log[r][q].corr)
    BY <1>3, <2>1, <2>3, <2>4
  <2>6. PICK w \in DOMAIN log[r] : AtWait(w) /\ log[r][w].stream = t
    BY <1>2, <2>5
  <2>7. w \in PriorWaits(log[r], k)
    <3>1. ~Completed(r, "record", log[r][k].corr)
      BY <2>2, <2>5
    <3> QED BY <1>1, <2>2, <2>3, <2>6, <3>1, WaitBefore
  <2> DEFINE dest == <<r, w>>
  <2>8. dest \in Operations(View) /\ dest[1] = r /\ dest[2] = w /\ dest = <<r, dest[2]>>
    BY <2>6
  <2> HIDE DEF dest
  <2>9. dest \in nodes
    BY <2>6, <2>8
  <2>10. dest \in Edges(View)[<<r, k>>]
    BY <1>6, <2>2, <2>7, <2>8, EdgeIs
  <2> QED BY <2>9, <2>10
<1>7. Closed(Edges(View), nodes)
  <2> SUFFICES ASSUME NEW op \in nodes PROVE \E dest \in nodes : dest \in Edges(View)[op]
    BY DEF Closed
  <2>1. op = <<r, op[2]>> /\ op[2] \in DOMAIN log[r] /\ (AtWait(op[2]) \/ Feeds(op[2]))
    BY OperationIs
  <2> HIDE DEF nodes
  <2> QED BY <2>1, <1>5, <1>6
<1> QED BY <1>4, <1>7

LEMMA DeadlocksHold == JobInv => DeadlocksAreReported
<1> SUFFICES ASSUME JobInv, NEW r \in Ranks, NEW set \in (SUBSET Streams) \ {{}},
                    Deadlocked(r, set), pc[r] > 1, job[r][pc[r] - 1].do # "submit"
             PROVE  FindCycles(Edges(View)) # {}
  BY DEF DeadlocksAreReported
<1>1. PICK nodes \in SUBSET Operations(View) : nodes # {} /\ Closed(Edges(View), nodes)
  BY DeadlockClosed
<1>2. Graph(Edges(View)) /\ DOMAIN Edges(View) = Operations(View)
  BY ViewGraph DEF JobInv, Edges
<1> QED BY <1>1, <1>2, SearchIsComplete

-----------------------------------------------------------------------------
(* The theorems.                                                           *)

\* The variables of the job and of the example have their types: a host does
\* not leave its program, a stream completes no more than it has been given,
\* and the stalled snapshots keep to their bound.
\* (worker, 30-152, and run, 169-344.)
THEOREM JobTypes == Spec => []TypeOK
<1> QED BY InitTypes, NextTypes, PTL DEF Spec, Typed

\* No operation of a cycle that find_cycles reports has completed, so that the
\* hand-over between two streams and back is not reported; for events that are
\* recorded once.  (find_cycles and the edges, analyzer.py:21-36 and 156-181.)
THEOREM CyclesDeadlock == Spec => []CyclesAreDeadlocks
<1> QED BY JobInvariant, CyclesHold, PTL

\* Streams that block each other for ever are reported as a cycle, once what was
\* submitted is logged.  (find_cycles and the edges, analyzer.py:21-36 and
\* 156-181.)
THEOREM DeadlocksReported == Spec => []DeadlocksAreReported
<1> QED BY JobInvariant, DeadlocksHold, PTL
=============================================================================
