----------------------------- MODULE SyncProofs -----------------------------
(***************************************************************************)
(* Proofs about Sync for every set of nodes and tree of blocks.            *)
(*                                                                         *)
(* Two invariants are proved by induction.  IInv: a connection is entered  *)
(* in miner_connections only by the hello that comes over it, and leaves   *)
(* both lists at once; and a process that does not run has no connection,  *)
(* so that the list it starts with is not behind the other one.            *)
(*                                                                         *)
(* SyncInv, if the genesis block is the only one that names no other       *)
(* (Rooted): what each node holds is a chain from the genesis block,       *)
(* branches that meet it and orphans whose parents it does not have, and   *)
(* its file is a chain on the genesis block.  It rests on the path to a    *)
(* block being unique and inside what the node knows.                      *)
(***************************************************************************)
EXTENDS Sync, DataProofs

ListsTyped ==
  /\ running \subseteq Nodes /\ boots \in [Nodes -> Nat]
  /\ conns \in [Nodes -> SUBSET Connections]
  /\ minerConns \in [Nodes -> SUBSET Connections]

Stopped == \A n \in Nodes \ running : minerConns[n] = {}

IInv == ListsTyped /\ Stopped /\ MinersConnected

\* What a write or a read of node n may do to the lists.
Removes(n) ==
  /\ UNCHANGED <<running, boots>>
  /\ \/ UNCHANGED listVars
     \/ \E gone :
          /\ conns' = ConnsWithout(n, gone)
          /\ minerConns' = MinerConnsWithout(n, gone)

-----------------------------------------------------------------------------

LEMMA ConTyped ==
  ASSUME ListsTyped, NEW n \in Nodes, NEW p \in Nodes
  PROVE  Con(n, p) \in Connections
<1>1. boots[n] \in Nat /\ boots[p] \in Nat
  BY DEF ListsTyped
<1> QED
  BY <1>1 DEF Con, Connections

\* A connection that leaves both lists leaves them in order.
LEMMA RemovesKeeps ==
  ASSUME IInv, NEW n \in Nodes, Removes(n)
  PROVE  IInv'
<1>1. CASE UNCHANGED listVars
  BY <1>1
  DEF IInv, ListsTyped, Stopped, MinersConnected, Removes, listVars
<1>2. ASSUME NEW gone, conns' = ConnsWithout(n, gone),
             minerConns' = MinerConnsWithout(n, gone)
      PROVE  IInv'
  <2>1. \A m \in Nodes :
          /\ conns'[m] = IF m = n THEN conns[m] \ gone ELSE conns[m]
          /\ minerConns'[m] =
               IF m = n THEN minerConns[m] \ gone ELSE minerConns[m]
    BY <1>2 DEF IInv, ListsTyped, ConnsWithout, MinerConnsWithout
  <2>2. ListsTyped'
    BY <1>2 DEF IInv, ListsTyped, ConnsWithout, MinerConnsWithout, Removes
  <2> QED
    BY <2>1, <2>2 DEF IInv, Stopped, MinersConnected, Removes
<1> QED
  BY <1>1, <1>2 DEF Removes

LEMMA SendRemoves ==
  ASSUME NEW n, NEW msgs, UNCHANGED <<running, boots>>,
         SendRandom(n, msgs) \/ (\E to : SendTo(n, msgs, to))
  PROVE  Removes(n)
  BY DEF Removes, SendRandom, SendTo, netVars, listVars

LEMMA ConnectRemoves ==
  ASSUME NEW n, NEW b, NEW back, UNCHANGED <<running, boots>>,
         Connect(n, b, back)
  PROVE  Removes(n)
  BY SendRemoves DEF Connect, Removes, netVars

LEMMA IoThreadStep ==
  ASSUME IInv, NEW n \in Nodes, IoThread(n)
  PROVE  IInv'
<1>1. ASSUME NEW p \in Nodes, HandleHello(n, p)
      PROVE  IInv'
  <2>1. /\ Con(n, p) \in conns[n] /\ n \in running
        /\ UNCHANGED <<running, boots, conns>>
        /\ \/ minerConns' = minerConns
           \/ minerConns' = [minerConns EXCEPT ![n] = @ \cup {Con(n, p)}]
    BY <1>1 DEF HandleHello, Take, procVars
  <2>2. Con(n, p) \in Connections
    BY ConTyped DEF IInv
  <2>3. ListsTyped'
    BY <2>1, <2>2 DEF IInv, ListsTyped
  <2>4. \A m \in Nodes :
          minerConns'[m] \subseteq
            IF m = n THEN minerConns[m] \cup {Con(n, p)} ELSE minerConns[m]
    BY <2>1 DEF IInv, ListsTyped
  <2> QED
    BY <2>1, <2>3, <2>4 DEF IInv, Stopped, MinersConnected
<1>2. ASSUME NEW p \in Nodes,
             HandleBlockInfo(n, p) \/ HandleInv(n, p) \/ HandleGetBlock(n, p)
      PROVE  IInv'
  <2>1. Removes(n)
    BY <1>2
    DEF HandleBlockInfo, HandleInv, HandleGetBlock, Removes, procVars
  <2> QED
    BY <2>1, RemovesKeeps
<1>3. CASE ReadError(n)
  <2>1. Removes(n)
    BY <1>3 DEF ReadError, Removes, procVars
  <2> QED
    BY <2>1, RemovesKeeps
<1>4. CASE Answer(n) \/ FinishReceived(n)
  <2>1. UNCHANGED <<running, boots>>
    BY <1>4 DEF Answer, FinishReceived, procVars
  <2>2. Removes(n)
    BY <1>4, <2>1, SendRemoves
    DEF Answer, FinishReceived, Removes, netVars
  <2> QED
    BY <2>2, RemovesKeeps
<1>5. CASE ConnectReceived(n) \/ TryOrphan(n)
  <2>1. UNCHANGED <<running, boots>>
    BY <1>5 DEF ConnectReceived, TryOrphan, procVars
  <2>2. Removes(n)
    BY <1>5, <2>1, ConnectRemoves DEF ConnectReceived, TryOrphan
  <2> QED
    BY <2>2, RemovesKeeps
<1> QED
  BY <1>1, <1>2, <1>3, <1>4, <1>5 DEF IoThread, Handle

LEMMA MainThreadStep ==
  ASSUME IInv, NEW n \in Nodes, MainThread(n) \/ MineBlock(n)
  PROVE  IInv'
<1>1. UNCHANGED <<running, boots>>
  BY DEF MainThread, Download, StartLoad, LoadNext, LoadFails, StartDownload,
         AskNobody, Ask, Stall, DownloadDone, GiveUp, SaveMined, MineBlock, procVars
<1>2. CASE \/ StartLoad(n) \/ StartDownload(n) \/ AskNobody(n) \/ Stall(n)
           \/ DownloadDone(n) \/ GiveUp(n) \/ SaveMined(n)
  <2>1. UNCHANGED listVars
    BY <1>2 DEF StartLoad, StartDownload, AskNobody, Stall, DownloadDone,
                GiveUp, SaveMined, netVars
  <2> QED
    BY <1>1, <2>1, RemovesKeeps DEF Removes
<1>3. CASE LoadNext(n) \/ MineBlock(n)
  BY <1>1, <1>3, ConnectRemoves, RemovesKeeps DEF LoadNext, MineBlock
<1>4. CASE LoadFails(n)
  <2>1. \/ UNCHANGED listVars
        \/ \E b : SendRandom(n, OrphanRequest(n, b))
    BY <1>4 DEF LoadFails, netVars
  <2>2. Removes(n)
    BY <1>1, <2>1, SendRemoves DEF Removes
  <2> QED
    BY <2>2, RemovesKeeps
<1>5. CASE Ask(n)
  BY <1>1, <1>5, SendRemoves, RemovesKeeps DEF Ask
<1> QED
  BY <1>2, <1>3, <1>4, <1>5 DEF MainThread, Download

LEMMA BootStep ==
  ASSUME IInv, NEW n \in Nodes, Boot(n)
  PROVE  IInv'
<1>1. /\ n \notin running /\ running' = running \cup {n}
      /\ boots' = boots /\ minerConns' = minerConns
      /\ conns' = Listed(n)
  BY DEF Boot
<1>2. /\ running \subseteq Nodes
      /\ \A m, p \in Nodes : Con(m, p) \in Connections
  BY ConTyped DEF IInv, ListsTyped
<1>3. ListsTyped'
  BY <1>1, <1>2 DEF IInv, ListsTyped, Listed
<1>4. \A m \in Nodes \ {n} : conns[m] \subseteq conns'[m]
  BY <1>1 DEF Listed
<1>5. minerConns[n] = {}
  BY <1>1 DEF IInv, Stopped
<1> QED
  BY <1>1, <1>3, <1>4, <1>5 DEF IInv, Stopped, MinersConnected

LEMMA CrashStep ==
  ASSUME IInv, NEW n \in Nodes, Crash(n)
  PROVE  IInv'
<1>1. /\ running' = running \ {n} /\ boots' = [boots EXCEPT ![n] = @ + 1]
      /\ conns' = [conns EXCEPT ![n] = {}]
      /\ minerConns' = [minerConns EXCEPT ![n] = {}]
  BY DEF Crash
<1>2. ListsTyped'
  BY <1>1 DEF IInv, ListsTyped
<1>3. \A m \in Nodes :
        /\ conns'[m] = IF m = n THEN {} ELSE conns[m]
        /\ minerConns'[m] = IF m = n THEN {} ELSE minerConns[m]
  BY <1>1 DEF IInv, ListsTyped
<1> QED
  BY <1>1, <1>2, <1>3 DEF IInv, Stopped, MinersConnected

-----------------------------------------------------------------------------

\* Whatever the nodes do, the lists of connections stay in order.
THEOREM Invariance == Spec => []IInv
<1>1. Init => IInv
  BY SyncAssumption
  DEF Init, IInv, ListsTyped, Stopped, MinersConnected
<1>2. IInv /\ [Next]_vars => IInv'
  <2> SUFFICES ASSUME IInv, [Next]_vars PROVE IInv'
    OBVIOUS
  <2>1. CASE Next
    BY <2>1, BootStep, CrashStep, IoThreadStep, MainThreadStep DEF Next
  <2>2. CASE UNCHANGED vars
    BY <2>2 DEF vars, netVars, listVars, procVars, IInv, ListsTyped, Stopped,
                MinersConnected
  <2> QED
    BY <2>1, <2>2
<1> QED
  BY <1>1, <1>2, PTL DEF Spec

\* A removed connection is never written to again: NetClient never keeps in
\* miner_connections what it has taken out of connections, however late the
\* hello of a peer is handled and whichever thread finds the connection gone.
THEOREM RemovedForGood == Spec => []MinersConnected
<1>1. IInv => MinersConnected
  BY DEF IInv
<1> QED
  BY <1>1, Invariance, PTL

-----------------------------------------------------------------------------
(* Types. *)

Parents == Blocks \cup {NoBlock}

Messages ==
  [type : {"hello"}, isMiner : BOOLEAN]
    \cup [type : {"getBlock"}, from : Parents]
    \cup [type : {"block"}, block : Blocks]
    \cup [type : {"inv"}, blocks : Seq(Blocks)]

Jobs ==
  [kind : {"none"}]
    \cup [kind : {"block", "inv"}, con : Connections, any : BOOLEAN,
          rest : Seq(Blocks)]
    \cup [kind : {"answer"}, con : Connections, from : Nat \ {0}]

Links == {x \in Nodes \X Nodes : x[1] # x[2]}

NetTyped ==
  /\ wire \in [Links -> Seq(Messages)]
  /\ dropped \subseteq Blocks

Phases == {"off", "load", "loaded", "ask", "wait", "mine", "save", "shell"}

MainTyped ==
  /\ ibdDone \in [Nodes -> BOOLEAN]
  /\ phase \in [Nodes -> Phases]
  /\ askFrom \in [Nodes -> Parents]
  /\ retry \in [Nodes -> 0..MAX_RETRIES]
  /\ job \in [Nodes -> Jobs]
  /\ found \subseteq Blocks /\ cleared \subseteq Nodes

ChainTyped ==
  /\ chain \in [Nodes -> Seq(Blocks)] /\ calls \in [Nodes -> Seq(Blocks)]
  /\ loading \in [Nodes -> Seq(Blocks)] /\ file \in [Nodes -> Seq(Blocks)]
  /\ side \in [Nodes -> SUBSET Blocks] /\ orphans \in [Nodes -> SUBSET Blocks]

\* Each block after the one it names.
Linked(c) ==
  /\ c \in Seq(Blocks)
  /\ \A i \in DOMAIN c : Parent[c[i]] = IF i = 1 THEN NoBlock ELSE c[i - 1]

(***************************************************************************)
(* What a node holds: a chain from the genesis block, branches that meet   *)
(* it, and orphans whose parents it does not have.                         *)
(***************************************************************************)
Holds(n) ==
  /\ Linked(chain[n])
  /\ side[n] \in SUBSET Blocks /\ orphans[n] \in SUBSET Blocks
  /\ side[n] \cap OnChain(n) = {}
  /\ \A b \in side[n] : Parent[b] \in Known(n)
  /\ chain[n] = <<>> => side[n] = {}
  /\ IsFiniteSet(orphans[n])
  /\ \A b \in orphans[n] : /\ b \notin Known(n)
                            /\ Parent[b] \notin Known(n) \cup {NoBlock}

(***************************************************************************)
(* The chain is empty only after a download that failed, and a file is     *)
(* only read before one.                                                   *)
(***************************************************************************)
Staged(n) ==
  /\ chain[n] = <<>> => phase[n] \in {"mine", "save"}
  /\ loading[n] # <<>> => phase[n] = "loaded"
  /\ phase[n] = "wait" => retry[n] < MAX_RETRIES
  /\ n \notin running => phase[n] = "off"

NodesRight ==
  \A n \in Nodes : Holds(n) /\ Staged(n) /\ ChainOnGenesis(file[n])

SyncInv == NetTyped /\ MainTyped /\ ChainTyped /\ NodesRight

-----------------------------------------------------------------------------
(* Sequences. *)

\* In a set of positions there is a first one, a second one, and so on.
LEMMA RankExists ==
  ASSUME NEW n \in Nat, NEW at \in SUBSET (1..n), NEW k \in 1..Cardinality(at)
  PROVE  \E i \in at : Cardinality({j \in at : j <= i}) = k
<1> DEFINE below(i) == {j \in at : j <= i}
           late == {i \in at : Cardinality(below(i)) >= k}
<1>1. IsFiniteSet(at) /\ Cardinality(at) \in Nat /\ k \in Nat /\ k >= 1
  <2>1. IsFiniteSet(1..n)
    BY FS_Interval
  <2>2. IsFiniteSet(at)
    BY <2>1, FS_Subset
  <2>3. Cardinality(at) \in Nat
    BY <2>2, FS_CardinalityType
  <2> QED
    BY <2>2, <2>3
<1>2. at # {}
  BY <1>1, FS_EmptySet
<1>3. Max(at) \in at /\ \A y \in at : Max(at) >= y
  BY <1>2, MaxInside
<1>4. Max(at) \in late
  <2>1. below(Max(at)) = at
    BY <1>3
  <2> QED
    BY <1>1, <1>3, <2>1
<1>5. late \in SUBSET Nat /\ late # {}
  <2>1. at \in SUBSET Nat
    OBVIOUS
  <2> QED
    BY <1>4, <2>1
<1> DEFINE i == Min(late)
<1>6. i \in late /\ \A y \in late : i <= y
  <2> HIDE DEF late
  <2> QED
    BY <1>5, MinInside
<1> HIDE DEF i
<1>7. i \in at /\ i \in Nat /\ Cardinality(below(i)) >= k
  BY <1>6
<1> DEFINE b == below(i)
           r == b \ {i}
<1>8. b \in SUBSET at /\ IsFiniteSet(b) /\ Cardinality(b) \in Nat /\ i \in b
  <2>1. b \in SUBSET at /\ i \in b
    BY <1>7
  <2> HIDE DEF b
  <2> QED
    BY <1>1, <2>1, FS_Subset, FS_CardinalityType
<1>9. IsFiniteSet(r) /\ Cardinality(r) = Cardinality(b) - 1
  <2> HIDE DEF b
  <2> QED
    BY <1>8, FS_RemoveElement
<1>10. SUFFICES ASSUME Cardinality(b) # k PROVE FALSE
  BY <1>7
<1>11. Cardinality(r) >= k
  <2> HIDE DEF b, r
  <2> QED
    BY <1>1, <1>7, <1>8, <1>9, <1>10 DEF b
<1>12. r # {} /\ r \in SUBSET (1..n)
  <2> HIDE DEF r, b
  <2>1. r # {}
    BY <1>1, <1>9, <1>11, FS_EmptySet
  <2> QED
    BY <2>1, <1>8 DEF r
<1> DEFINE m == Max(r)
<1>13. m \in r /\ \A y \in r : m >= y
  <2> HIDE DEF r
  <2> QED
    BY <1>12, MaxInside
<1> HIDE DEF m
<1>14. m \in at /\ m < i /\ m \in Nat
  BY <1>7, <1>13
<1>15. below(m) = r
  <2>1. below(m) \subseteq r
    <3>1. \A y \in at : y \in Nat
      OBVIOUS
    <3>2. \A y \in at : y <= m => y <= i /\ y # i
      BY <1>7, <1>14, <3>1
    <3> QED
      BY <3>2
  <2>2. r \subseteq below(m)
    BY <1>13
  <2> QED
    BY <2>1, <2>2
<1>16. m \in late
  BY <1>11, <1>14, <1>15
<1> QED
  BY <1>6, <1>7, <1>14, <1>16

LEMMA PickedTyped ==
  ASSUME NEW n \in Nat, NEW at \in SUBSET (1..n), NEW S, NEW s,
         \A i \in at : s[i] \in S
  PROVE  Picked(s, at) \in Seq(S)
<1> DEFINE pos(k) == CHOOSE i \in at : Cardinality({j \in at : j <= i}) = k
           c == Cardinality(at)
<1>1. c \in Nat
  <2>1. IsFiniteSet(1..n)
    BY FS_Interval
  <2>2. IsFiniteSet(at)
    BY <2>1, FS_Subset
  <2> QED
    BY <2>2, FS_CardinalityType
<1>2. ASSUME NEW k \in 1..c PROVE pos(k) \in at
  BY <1>2, RankExists
<1>3. \A k \in 1..c : s[pos(k)] \in S
  BY <1>2
<1>4. Picked(s, at) = [k \in 1..c |-> s[pos(k)]]
  BY DEF Picked
<1> HIDE DEF pos, c
<1>5. [k \in 1..c |-> s[pos(k)]] \in [1..c -> S]
  BY <1>3
<1> QED
  BY <1>1, <1>4, <1>5

LEMMA RangeTyped ==
  ASSUME NEW S, NEW s \in Seq(S)
  PROVE  /\ Range(s) \subseteq S
         /\ s # <<>> => s[1] \in Range(s) /\ Last(s) \in Range(s)
         /\ s # <<>> => Last(s) = s[Len(s)] /\ Len(s) \in Nat \ {0}
<1>1. Len(s) \in Nat /\ DOMAIN s = 1..Len(s) /\ \A i \in 1..Len(s) : s[i] \in S
  BY LenProperties, ElementOfSeq
<1>2. s # <<>> => Len(s) \in Nat \ {0}
  BY EmptySeq
<1> QED
  BY <1>1, <1>2 DEF Range, Last

-----------------------------------------------------------------------------
(* Paths. *)

IsPath(s, b) ==
  /\ s \in Seq(Blocks) /\ Len(s) >= 1 /\ s[Len(s)] = b
  /\ Parent[s[1]] = NoBlock
  /\ \A i \in 2..Len(s) : Parent[s[i]] = s[i - 1]

\* A block on a path and its parent in front of it.
LEMMA PathGoesOn ==
  ASSUME NEW b \in Blocks, NEW s, IsPath(s, Parent[b])
  PROVE  IsPath(Append(s, b), b)
<1>1. /\ Append(s, b) \in Seq(Blocks) /\ Len(Append(s, b)) = Len(s) + 1
      /\ \A i \in 1..Len(s) : Append(s, b)[i] = s[i]
      /\ Append(s, b)[Len(s) + 1] = b
  BY AppendProperties DEF IsPath
<1>2. Len(s) \in Nat
  BY LenProperties DEF IsPath
<1> DEFINE t == Append(s, b)
<1> HIDE DEF t
<1>3. ASSUME NEW i \in 2..(Len(s) + 1)
      PROVE  Parent[t[i]] = t[i - 1]
  <2>1. CASE i = Len(s) + 1
    BY <1>1, <1>2, <2>1 DEF IsPath, t
  <2>2. CASE i # Len(s) + 1
    <3>1. i \in 2..Len(s) /\ i \in 1..Len(s) /\ i - 1 \in 1..Len(s)
      BY <1>2, <2>2
    <3> QED
      BY <1>1, <3>1 DEF IsPath, t
  <2> QED
    BY <2>1, <2>2
<1> QED
  BY <1>1, <1>2, <1>3 DEF IsPath, t

\* What is in front of the last block is the path of its parent.
LEMMA PathBefore ==
  ASSUME NEW b \in Blocks, NEW s, IsPath(s, b), Parent[b] # NoBlock
  PROVE  \E t : IsPath(t, Parent[b]) /\ s = Append(t, b)
<1>1. Len(s) \in Nat /\ s \in Seq(Blocks)
  BY LenProperties DEF IsPath
<1>2. Len(s) >= 2
  BY <1>1 DEF IsPath
<1> DEFINE t == SubSeq(s, 1, Len(s) - 1)
<1>3. /\ t \in Seq(Blocks) /\ Len(t) = Len(s) - 1
      /\ \A i \in 1 .. Len(s) - 1 : t[i] = s[i]
  BY <1>1, <1>2, PrefixTyped
<1> HIDE DEF t
<1>4. /\ Append(t, b) \in Seq(Blocks) /\ Len(Append(t, b)) = Len(t) + 1
      /\ \A i \in 1..Len(t) : Append(t, b)[i] = t[i]
      /\ Append(t, b)[Len(t) + 1] = b
  BY <1>3, AppendProperties
<1>5. s = Append(t, b)
  <2>1. \A i \in 1..Len(s) : s[i] = Append(t, b)[i]
    BY <1>1, <1>3, <1>4 DEF IsPath
  <2> QED
    BY <1>1, <1>3, <1>4, <2>1, SeqEqual
<1>6. IsPath(t, Parent[b])
  <2>1. Parent[s[Len(s)]] = s[Len(s) - 1]
    BY <1>1, <1>2 DEF IsPath
  <2>2. t[Len(t)] = Parent[b]
    BY <1>1, <1>2, <1>3, <2>1 DEF IsPath
  <2>3. \A i \in 2..Len(t) : i \in 2..Len(s) /\ i \in 1..(Len(s) - 1) /\ i - 1 \in 1..(Len(s) - 1)
    BY <1>1, <1>3
  <2>4. \A i \in 2..Len(t) : Parent[t[i]] = t[i - 1]
    BY <1>3, <2>3 DEF IsPath
  <2> QED
    BY <1>1, <1>2, <1>3, <2>2, <2>4 DEF IsPath
<1> QED
  BY <1>5, <1>6

LEMMA PathExists ==
  ASSUME NEW b \in Blocks
  PROVE  \E s : IsPath(s, b)
<1> DEFINE Bad == {c \in Blocks : ~ \E s : IsPath(s, c)}
<1>1. SUFFICES ASSUME Bad # {} PROVE FALSE
  OBVIOUS
<1>2. PICK c \in Bad : Parent[c] \notin Bad
  <2>1. Bad \in SUBSET Blocks
    OBVIOUS
  <2> HIDE DEF Bad
  <2> QED
    BY <1>1, <2>1, SyncAssumption
<1>3. c \in Blocks /\ Parent[c] \in Blocks \cup {NoBlock}
  BY SyncAssumption
<1>4. CASE Parent[c] = NoBlock
  <2>1. <<c>> \in Seq(Blocks) /\ Len(<<c>>) = 1 /\ <<c>>[1] = c
    BY <1>3
  <2>2. IsPath(<<c>>, c)
    BY <1>4, <2>1 DEF IsPath
  <2> QED
    BY <2>2
<1>5. CASE Parent[c] # NoBlock
  <2>1. PICK s : IsPath(s, Parent[c])
    BY <1>2, <1>3, <1>5
  <2> QED
    BY <1>3, <2>1, PathGoesOn
<1> QED
  BY <1>4, <1>5

LEMMA PathUnique ==
  ASSUME NEW b \in Blocks, NEW s, NEW t, IsPath(s, b), IsPath(t, b)
  PROVE  s = t
<1> DEFINE Twice(c) == \E u, v : IsPath(u, c) /\ IsPath(v, c) /\ u # v
           Bad == {c \in Blocks : Twice(c)}
<1>1. SUFFICES ASSUME Bad # {} PROVE FALSE
  OBVIOUS
<1>2. PICK c \in Bad : Parent[c] \notin Bad
  <2>1. Bad \in SUBSET Blocks
    OBVIOUS
  <2> HIDE DEF Bad
  <2> QED
    BY <1>1, <2>1, SyncAssumption
<1>3. c \in Blocks /\ Parent[c] \in Blocks \cup {NoBlock} /\ NoBlock \notin Blocks
  BY SyncAssumption
<1>4. PICK u, v : IsPath(u, c) /\ IsPath(v, c) /\ u # v
  OBVIOUS
<1>5. CASE Parent[c] = NoBlock
  <2>1. ASSUME NEW w, IsPath(w, c) PROVE Len(w) = 1 /\ w[1] = c /\ w \in Seq(Blocks)
    <3>1. Len(w) \in Nat /\ Len(w) >= 1 /\ w[Len(w)] = c /\ w \in Seq(Blocks)
      BY <2>1, LenProperties DEF IsPath
    <3>2. Len(w) >= 2 => Parent[c] = w[Len(w) - 1] /\ w[Len(w) - 1] \in Blocks
      <4>1. SUFFICES ASSUME Len(w) >= 2
                     PROVE  Parent[c] = w[Len(w) - 1] /\ w[Len(w) - 1] \in Blocks
        OBVIOUS
      <4>2. Len(w) \in 2..Len(w) /\ Len(w) - 1 \in 1..Len(w)
        BY <3>1, <4>1
      <4> QED
        BY <2>1, <3>1, <4>2, ElementOfSeq DEF IsPath
    <3>3. ~ (Len(w) >= 2)
      BY <1>3, <1>5, <3>2
    <3>4. Len(w) = 1
      <4> DEFINE l == Len(w)
      <4>1. l \in Nat /\ l >= 1 /\ ~ (l >= 2)
        BY <3>1, <3>3
      <4> HIDE DEF l
      <4>2. l = 1
        BY <4>1
      <4> QED
        BY <4>2 DEF l
    <3> QED
      BY <3>1, <3>4
  <2>2. Len(u) = 1 /\ Len(v) = 1 /\ u[1] = v[1] /\ u \in Seq(Blocks) /\ v \in Seq(Blocks)
    BY <1>4, <2>1
  <2>3. \A i \in 1..Len(u) : u[i] = v[i]
    BY <2>2
  <2> QED
    BY <1>4, <2>2, <2>3, SeqEqual
<1>6. CASE Parent[c] # NoBlock
  <2>1. PICK x : IsPath(x, Parent[c]) /\ u = Append(x, c)
    BY <1>3, <1>4, <1>6, PathBefore
  <2>2. PICK y : IsPath(y, Parent[c]) /\ v = Append(y, c)
    BY <1>3, <1>4, <1>6, PathBefore
  <2>3. x = y
    BY <1>2, <1>3, <1>6, <2>1, <2>2
  <2> QED
    BY <1>4, <2>1, <2>2, <2>3
<1> QED
  BY <1>5, <1>6

LEMMA PathsRight ==
  \A b \in Blocks : IsPath(PathTo[b], b)
<1> DEFINE Goes(g) == g = [b \in Blocks |->
                           IF Parent[b] = NoBlock THEN <<b>>
                           ELSE Append(g[Parent[b]], b)]
           f == [b \in Blocks |-> CHOOSE s : IsPath(s, b)]
<1>1. \A b \in Blocks : IsPath(f[b], b)
  BY PathExists
<1>2. ASSUME NEW b \in Blocks
      PROVE  f[b] = IF Parent[b] = NoBlock THEN <<b>> ELSE Append(f[Parent[b]], b)
  <2>1. Parent[b] \in Blocks \cup {NoBlock}
    BY SyncAssumption
  <2>2. CASE Parent[b] = NoBlock
    <3>1. <<b>> \in Seq(Blocks) /\ Len(<<b>>) = 1 /\ <<b>>[1] = b
      OBVIOUS
    <3>2. IsPath(<<b>>, b)
      BY <2>2, <3>1 DEF IsPath
    <3> QED
      BY <1>1, <2>2, <3>2, PathUnique
  <2>3. CASE Parent[b] # NoBlock
    <3>1. IsPath(Append(f[Parent[b]], b), b)
      BY <1>1, <2>1, <2>3, PathGoesOn
    <3> HIDE DEF f
    <3> QED
      BY <1>1, <2>3, <3>1, PathUnique
  <2> QED
    BY <2>2, <2>3
<1>3. Goes(f)
  <2>1. f = [b \in Blocks |-> f[b]]
    OBVIOUS
  <2> HIDE DEF f
  <2> QED
    BY <1>2, <2>1
<1>4. PathTo = CHOOSE g : Goes(g)
  BY DEF PathTo
<1> HIDE DEF f
<1>5. Goes(PathTo)
  <2> HIDE DEF Goes
  <2> QED
    BY <1>3, <1>4
<1> DEFINE Bad == {b \in Blocks : ~ IsPath(PathTo[b], b)}
<1>6. SUFFICES ASSUME Bad # {} PROVE FALSE
  OBVIOUS
<1>7. PICK c \in Bad : Parent[c] \notin Bad
  <2>1. Bad \in SUBSET Blocks
    OBVIOUS
  <2> HIDE DEF Bad
  <2> QED
    BY <1>6, <2>1, SyncAssumption
<1>8. c \in Blocks /\ Parent[c] \in Blocks \cup {NoBlock} /\ ~ IsPath(PathTo[c], c)
  BY SyncAssumption
<1>9. PathTo[c] = IF Parent[c] = NoBlock THEN <<c>> ELSE Append(PathTo[Parent[c]], c)
  <2> DEFINE P == PathTo
  <2>1. P = [b \in Blocks |-> IF Parent[b] = NoBlock THEN <<b>>
                              ELSE Append(P[Parent[b]], b)]
    BY <1>5
  <2> HIDE DEF P
  <2>2. P[c] = IF Parent[c] = NoBlock THEN <<c>> ELSE Append(P[Parent[c]], c)
    BY <1>8, <2>1
  <2> QED
    BY <2>2 DEF P
<1>10. CASE Parent[c] = NoBlock
  <2>1. <<c>> \in Seq(Blocks) /\ Len(<<c>>) = 1 /\ <<c>>[1] = c
    BY <1>8
  <2> QED
    BY <1>8, <1>9, <1>10, <2>1 DEF IsPath
<1>11. CASE Parent[c] # NoBlock
  <2>1. IsPath(PathTo[Parent[c]], Parent[c])
    BY <1>7, <1>8, <1>11
  <2> QED
    BY <1>8, <1>9, <1>11, <2>1, PathGoesOn
<1> QED
  BY <1>10, <1>11

\* A set that has the parents of its blocks has their paths.
LEMMA PathInside ==
  ASSUME NEW K, \A x \in K : Parent[x] \in K \cup {NoBlock},
         NEW b \in Blocks \cap K
  PROVE  \A i \in 1..Len(PathTo[b]) : PathTo[b][i] \in K
<1> DEFINE s == PathTo[b]
           n == Len(s)
<1>1. IsPath(s, b)
  BY PathsRight
<1> HIDE DEF s
<1>2. n \in Nat /\ n >= 1 /\ s[n] = b /\ s \in Seq(Blocks)
  BY <1>1, LenProperties DEF IsPath
<1>3. \A i \in 1..n : s[i] \in Blocks
  BY <1>2, ElementOfSeq
<1>4. \A i \in 2..n : Parent[s[i]] = s[i - 1]
  BY <1>1 DEF IsPath
<1> HIDE DEF n
<1> DEFINE Bad == {m \in Nat : m < n /\ s[n - m] \notin K}
<1>5. ASSUME NEW m \in Bad PROVE \E k \in Bad : k < m
  <2>1. m \in Nat /\ m < n /\ s[n - m] \notin K
    OBVIOUS
  <2>2. m # 0
    BY <1>2, <2>1
  <2> DEFINE k == m - 1
             i == n - k
  <2>3. k \in Nat /\ k < m /\ k < n /\ i \in 2..n /\ i \in 1..n /\ i - 1 = n - m
        /\ i - 1 \in 1..n
    BY <1>2, <2>1, <2>2
  <2> HIDE DEF k, i
  <2>4. s[i] \notin K
    <3>1. SUFFICES ASSUME s[i] \in K PROVE FALSE
      OBVIOUS
    <3>2. Parent[s[i]] = s[i - 1] /\ s[i - 1] \in Blocks
      BY <1>3, <1>4, <2>3
    <3>3. Parent[s[i]] \in K \cup {NoBlock}
      BY <3>1
    <3> QED
      BY <2>1, <2>3, <3>2, <3>3, SyncAssumption
  <2>5. k \in Bad
    BY <2>3, <2>4 DEF i
  <2> QED
    BY <2>3, <2>5
<1>6. Bad = {}
  <2>1. Bad \in SUBSET Nat
    OBVIOUS
  <2> HIDE DEF Bad
  <2> QED
    BY <1>5, <2>1, NoLeast
<1>7. ASSUME NEW i \in 1..n PROVE s[i] \in K
  <2>1. n - i \in Nat /\ n - i < n /\ n - (n - i) = i
    BY <1>2, <1>7
  <2> QED
    BY <1>6, <2>1
<1> QED
  BY <1>7 DEF s, n

-----------------------------------------------------------------------------
(* What is sent. *)

LEMMA SendTyped ==
  ASSUME NetTyped, NEW n, NEW msgs \in Seq(Messages), NEW to, SendTo(n, msgs, to)
  PROVE  NetTyped'
<1>1. /\ wire' = Written(n, msgs, to)
      /\ wire \in [Links -> Seq(Messages)] /\ dropped \subseteq Blocks
  BY DEF SendTo, NetTyped
<1> DEFINE at(w) == {i \in DOMAIN msgs : to[i] = Con(n, w[2])}
<1>2. Len(msgs) \in Nat /\ DOMAIN msgs = 1..Len(msgs)
      /\ \A i \in 1..Len(msgs) : msgs[i] \in Messages
  BY LenProperties, ElementOfSeq
<1>3. ASSUME NEW w \in Links
      PROVE  Picked(msgs, at(w)) \in Seq(Messages)
  <2>1. at(w) \in SUBSET (1..Len(msgs)) /\ \A i \in at(w) : msgs[i] \in Messages
    BY <1>2
  <2> HIDE DEF at
  <2> QED
    BY <1>2, <2>1, PickedTyped
<1>4. wire' = [w \in Links |-> IF w[1] # n THEN wire[w]
                               ELSE wire[w] \o Picked(msgs, at(w))]
  BY <1>1 DEF Written
<1> HIDE DEF at
<1>5. ASSUME NEW w \in Links
      PROVE  (IF w[1] # n THEN wire[w] ELSE wire[w] \o Picked(msgs, at(w)))
               \in Seq(Messages)
  BY <1>1, <1>3, ConcatProperties
<1>6. wire' \in [Links -> Seq(Messages)]
  BY <1>4, <1>5
<1>7. dropped' \subseteq Blocks
  <2>1. PICK lost \in SUBSET DOMAIN msgs :
          /\ \A i \in lost : msgs[i].type = "block"
          /\ dropped' = dropped \cup {msgs[i].block : i \in lost}
    BY DEF SendTo
  <2>2. \A i \in lost : msgs[i].block \in Blocks
    BY <1>2, <2>1 DEF Messages
  <2> QED
    BY <1>1, <2>1, <2>2
<1> QED
  BY <1>6, <1>7 DEF NetTyped

LEMMA SendRandomTyped ==
  ASSUME NetTyped, NEW n, NEW msgs \in Seq(Messages), SendRandom(n, msgs)
  PROVE  NetTyped'
<1>1. CASE UNCHANGED netVars
  BY <1>1 DEF netVars, NetTyped
<1>2. CASE \E to : SendTo(n, msgs, to)
  BY <1>2, SendTyped
<1> QED
  BY <1>1, <1>2 DEF SendRandom

LEMMA SingleTyped ==
  ASSUME NEW S, NEW x \in S
  PROVE  <<x>> \in Seq(S) /\ Len(<<x>>) = 1 /\ <<x>>[1] = x
  OBVIOUS

LEMMA MessagesTyped ==
  /\ \A n : Hello(n) \in Messages
  /\ \A b \in Parents : GetBlock(b) \in Messages
  /\ \A b \in Blocks : BlockInfo(b) \in Messages
  /\ \A bs \in Seq(Blocks) : Inv(bs) \in Messages
<1>1. \A n : (n \in Miners) \in BOOLEAN
  OBVIOUS
<1>2. \A n : Hello(n) \in Messages
  BY <1>1 DEF Hello, Messages
<1>3. \A b \in Parents : GetBlock(b) \in Messages
  BY DEF GetBlock, Messages
<1>4. \A b \in Blocks : BlockInfo(b) \in Messages
  BY DEF BlockInfo, Messages
<1>5. \A bs \in Seq(Blocks) : Inv(bs) \in Messages
  BY DEF Inv, Messages
<1> QED
  BY <1>2, <1>3, <1>4, <1>5

-----------------------------------------------------------------------------
(* The chain of a node. *)

LEMMA LinkedStarts ==
  ASSUME Rooted, NEW c, Linked(c), c # <<>>
  PROVE  /\ Len(c) \in Nat \ {0} /\ c[1] = Genesis /\ Genesis \in Range(c)
         /\ Range(c) \subseteq Blocks /\ Last(c) \in Range(c)
         /\ Last(c) = c[Len(c)]
<1>1. /\ Len(c) \in Nat \ {0} /\ DOMAIN c = 1..Len(c) /\ Range(c) \subseteq Blocks
      /\ c[1] \in Range(c) /\ Last(c) \in Range(c) /\ Last(c) = c[Len(c)]
  BY RangeTyped, LenProperties DEF Linked
<1>2. 1 \in DOMAIN c
  BY <1>1
<1>3. Parent[c[1]] = NoBlock
  BY <1>2 DEF Linked
<1> QED
  BY <1>1, <1>3 DEF Rooted

\* The parent of a block that a node may take is known, or there is none.
LEMMA ParentKnown ==
  ASSUME Rooted, NEW n, Holds(n), NEW b \in Blocks, Accepted(n, b)
  PROVE  /\ Parent[b] \in Known(n) \cup {NoBlock}
         /\ Extends(n, b) => IF chain[n] = <<>> THEN b = Genesis
                             ELSE Parent[b] = Last(chain[n])
         /\ ~ Extends(n, b) => chain[n] # <<>> /\ Parent[b] \in Known(n)
<1>1. b \notin Known(n) /\ (Extends(n, b) \/ Parent[b] \in Known(n))
  BY DEF Accepted, Ignored, IsOrphan
<1>2. CASE chain[n] = <<>>
  <2>1. side[n] = {}
    BY <1>2 DEF Holds
  <2>2. Known(n) = {}
    BY <1>2, <2>1, EmptySeq DEF Known, OnChain, Range
  <2>3. Parent[b] = NoBlock
    BY <1>1, <1>2, <2>2 DEF Extends, Tip
  <2> QED
    BY <1>1, <1>2, <2>2, <2>3 DEF Rooted
<1>3. CASE chain[n] # <<>>
  <2>1. Genesis \in Range(chain[n]) /\ Last(chain[n]) \in Range(chain[n])
    BY <1>3, LinkedStarts DEF Holds
  <2>2. Genesis \in Known(n) /\ Last(chain[n]) \in Known(n)
    BY <2>1 DEF Known, OnChain
  <2>3. Parent[b] # NoBlock
    BY <1>1, <2>2 DEF Rooted
  <2> QED
    BY <1>1, <1>3, <2>2, <2>3 DEF Extends, Tip
<1> QED
  BY <1>2, <1>3

\* All that a node has above the genesis block, with a block it may take.
LEMMA KnownClosed ==
  ASSUME Rooted, NEW n, Holds(n), NEW b \in Blocks, Accepted(n, b)
  PROVE  \A x \in Known(n) \cup {b} : Parent[x] \in Known(n) \cup {b} \cup {NoBlock}
<1>1. ASSUME NEW x \in Range(chain[n])
      PROVE  Parent[x] \in Range(chain[n]) \cup {NoBlock}
  <2>1. PICK i \in DOMAIN chain[n] : x = chain[n][i]
    BY <1>1 DEF Range
  <2>2. Parent[x] = IF i = 1 THEN NoBlock ELSE chain[n][i - 1]
    BY <2>1 DEF Holds, Linked
  <2>3. i # 1 => i - 1 \in DOMAIN chain[n]
    BY LenProperties DEF Holds, Linked
  <2> QED
    BY <2>2, <2>3 DEF Range
<1>2. \A x \in side[n] : Parent[x] \in Known(n)
  BY DEF Holds, Known, OnChain
<1>3. Parent[b] \in Known(n) \cup {NoBlock}
  BY ParentKnown
<1> QED
  BY <1>1, <1>2, <1>3 DEF Known, OnChain

LEMMA RivalRight ==
  ASSUME Rooted, NEW n, Holds(n), NEW b \in Blocks, Accepted(n, b),
         ~ Extends(n, b)
  PROVE  /\ Branch(n, b) \in Seq(Blocks)
         /\ Linked(Rival(n, b)) /\ Rival(n, b) # <<>>
         /\ Range(Rival(n, b)) \subseteq Known(n) \cup {b}
<1> DEFINE s == PathTo[b]
           c == chain[n]
           on == {i \in DOMAIN s : s[i] \in OnChain(n)}
           first == CHOOSE i \in 2..Len(s) : /\ s[i - 1] \in OnChain(n)
                                             /\ s[i] \notin OnChain(n)
           k == first - 1
           K == Known(n) \cup {b}
<1>1. IsPath(s, b)
  BY PathsRight
<1>2. \A i \in 1..Len(s) : s[i] \in K
  <2>1. \A x \in K : Parent[x] \in K \cup {NoBlock}
    BY KnownClosed
  <2>2. b \in Blocks \cap K
    OBVIOUS
  <2> HIDE DEF K
  <2> QED
    BY <2>1, <2>2, PathInside
<1>3. Linked(c) /\ c # <<>> /\ b \notin OnChain(n)
  BY ParentKnown DEF Holds, Accepted, Ignored, Known
<1>4. /\ Len(c) \in Nat \ {0} /\ c[1] = Genesis /\ Genesis \in OnChain(n)
      /\ c \in Seq(Blocks) /\ OnChain(n) \subseteq Known(n)
  BY <1>3, LinkedStarts DEF OnChain, Known, Linked
<1>5. DOMAIN c = 1..Len(c) /\ OnChain(n) = {c[i] : i \in DOMAIN c}
  BY <1>4, LenProperties DEF OnChain, Range
<1>6. Branch(n, b) = SubSeq(s, first, Len(s))
  BY DEF Branch
<1> DEFINE br == Branch(n, b)
           fork == Parent[br[1]]
           at == CHOOSE i \in DOMAIN c : c[i] = fork
<1>7. Rival(n, b) = SubSeq(c, 1, at) \o br
  BY DEF Rival
<1> HIDE DEF s, c, K
<1>8. /\ s \in Seq(Blocks) /\ Len(s) \in Nat /\ Len(s) >= 1 /\ s[Len(s)] = b
      /\ DOMAIN s = 1..Len(s) /\ Parent[s[1]] = NoBlock
      /\ \A i \in 2..Len(s) : Parent[s[i]] = s[i - 1]
      /\ \A i \in 1..Len(s) : s[i] \in Blocks
  BY <1>1, LenProperties, ElementOfSeq DEF IsPath
<1>9. 1 \in on
  <2>1. s[1] = Genesis
    BY <1>8 DEF Rooted
  <2> QED
    BY <1>4, <1>8, <2>1
<1>10. \E i \in 2..Len(s) : s[i - 1] \in OnChain(n) /\ s[i] \notin OnChain(n)
  <2> DEFINE m == Max(on)
             l == Len(s)
  <2>1. on \in SUBSET (1..l) /\ on # {}
    BY <1>8, <1>9
  <2>2. m \in on /\ \A y \in on : m >= y
    <3> HIDE DEF on
    <3> QED
      BY <1>8, <2>1, MaxInside
  <2>3. s[m] \in OnChain(n) /\ m \in 1..l /\ l \notin on /\ l \in Nat
    BY <1>3, <1>8, <2>1, <2>2
  <2>4. \A y \in 1..l : s[y] \in OnChain(n) => y \in on
    BY <1>8
  <2> HIDE DEF on, m, l
  <2>5. m + 1 \in 2..l /\ (m + 1) - 1 = m /\ m + 1 \in 1..l /\ ~ (m >= m + 1)
    BY <2>2, <2>3
  <2>6. s[m + 1] \notin OnChain(n)
    BY <2>2, <2>4, <2>5
  <2> QED
    BY <2>3, <2>5, <2>6 DEF l
<1>11. /\ first \in 2..Len(s) /\ k \in 1..Len(s) /\ s[k] \in OnChain(n)
       /\ k # Len(s) /\ first = k + 1
  <2>1. first \in 2..Len(s) /\ s[first - 1] \in OnChain(n)
    BY <1>10
  <2> HIDE DEF first
  <2> DEFINE l == Len(s)
  <2>2. first \in 2..l /\ l \in Nat
    BY <1>8, <2>1
  <2> HIDE DEF l
  <2>3. first - 1 \in 1..l /\ first - 1 # l /\ first = (first - 1) + 1
    BY <2>2
  <2> QED
    BY <2>1, <2>3 DEF l
<1> HIDE DEF k, first
<1>12. k \in Nat /\ k >= 1 /\ k + 1 <= Len(s) /\ k + 1 \in 2..Len(s)
       /\ k + 1 \in Nat \ {0} /\ Len(s) \in Int
  <2> DEFINE l == Len(s)
  <2>1. l \in Nat /\ k \in 1..l /\ k # l
    BY <1>8, <1>11
  <2> HIDE DEF l
  <2>2. k \in Nat /\ k >= 1 /\ k + 1 <= l /\ k + 1 \in 2..l
        /\ k + 1 \in Nat \ {0} /\ l \in Int
    BY <2>1
  <2> QED
    BY <2>2 DEF l
<1>13. /\ br \in Seq(Blocks)
       /\ Len(br) = Len(s) - k
       /\ \A i \in 1..(Len(s) - k) : br[i] = s[k + i]
  <2> DEFINE m == k + 1
             e == Len(s)
  <2>1. m \in Nat \ {0} /\ e \in Int /\ e <= Len(s) /\ m <= e
        /\ e - m + 1 = Len(s) - k /\ \A i \in 1..(Len(s) - k) : m + i - 1 = k + i
    BY <1>12
  <2>2. /\ SubSeq(s, m, e) \in Seq(Blocks)
        /\ Len(SubSeq(s, m, e)) = IF m <= e THEN e - m + 1 ELSE 0
        /\ \A i \in 1 .. e - m + 1 : SubSeq(s, m, e)[i] = s[m + i - 1]
    <3> HIDE DEF m, e
    <3> QED
      BY <1>8, <2>1, SubSeqTyped
  <2>3. br = SubSeq(s, m, e)
    BY <1>6, <1>11
  <2> HIDE DEF br, m, e
  <2> QED
    BY <2>1, <2>2, <2>3
<1> HIDE DEF br
<1>14. fork = s[k]
  <2>1. 1 \in 1..(Len(s) - k)
    BY <1>8, <1>12
  <2>2. br[1] = s[k + 1]
    BY <1>13, <2>1
  <2>3. Parent[s[k + 1]] = s[k]
    BY <1>8, <1>12
  <2> QED
    BY <2>2, <2>3
<1>15. at \in DOMAIN c /\ c[at] = s[k]
  BY <1>5, <1>11, <1>14
<1> HIDE DEF at
<1> DEFINE p == SubSeq(c, 1, at)
           r == p \o br
<1>16. at \in 1..Len(c) /\ at \in Nat /\ at >= 1 /\ at <= Len(c) /\ at \in Int
  BY <1>4, <1>5, <1>15
<1>17. /\ p \in Seq(Blocks) /\ Len(p) = at
       /\ \A i \in 1..at : p[i] = c[i]
  <2>1. /\ SubSeq(c, 1, at) \in Seq(Blocks)
        /\ Len(SubSeq(c, 1, at)) = IF 1 <= at THEN at - 1 + 1 ELSE 0
        /\ \A i \in 1 .. at - 1 + 1 : SubSeq(c, 1, at)[i] = c[1 + i - 1]
    BY <1>4, <1>16, SubSeqTyped
  <2> HIDE DEF p
  <2> QED
    BY <1>16, <2>1 DEF p
<1> HIDE DEF p
<1>18. /\ r \in Seq(Blocks) /\ Len(r) = at + (Len(s) - k)
       /\ \A i \in 1..(at + (Len(s) - k)) :
            r[i] = IF i <= at THEN p[i] ELSE br[i - at]
  BY <1>13, <1>17, ConcatProperties
<1> HIDE DEF r
<1>19. DOMAIN r = 1..(at + (Len(s) - k))
  BY <1>18, LenProperties
<1>20. \A i \in DOMAIN r : r[i] = IF i <= at THEN c[i] ELSE s[k + (i - at)]
  <2>1. ASSUME NEW i \in DOMAIN r
        PROVE  r[i] = IF i <= at THEN c[i] ELSE s[k + (i - at)]
    <3>1. CASE i <= at
      BY <1>16, <1>17, <1>18, <1>19, <3>1
    <3>2. CASE ~ (i <= at)
      <4>1. i - at \in 1..(Len(s) - k)
        BY <1>8, <1>12, <1>16, <1>19, <3>2
      <4> QED
        BY <1>13, <1>18, <1>19, <3>2, <4>1
    <3> QED
      BY <3>1, <3>2
  <2> QED
    BY <2>1
<1>21. Linked(r)
  <2>1. ASSUME NEW i \in DOMAIN r
        PROVE  Parent[r[i]] = IF i = 1 THEN NoBlock ELSE r[i - 1]
    <3>1. i \in Nat /\ i >= 1 /\ i <= at + (Len(s) - k)
      BY <1>8, <1>12, <1>16, <1>19
    <3>2. i # 1 => i - 1 \in DOMAIN r
      BY <1>8, <1>12, <1>16, <1>19
    <3>3. CASE i <= at
      <4>1. i \in DOMAIN c
        BY <1>5, <1>16, <3>1, <3>3
      <4>2. Parent[c[i]] = IF i = 1 THEN NoBlock ELSE c[i - 1]
        BY <1>3, <4>1 DEF Linked
      <4>3. i # 1 => r[i - 1] = c[i - 1]
        BY <1>16, <1>20, <3>1, <3>2, <3>3
      <4> QED
        BY <1>20, <3>3, <4>2, <4>3
    <3>4. CASE ~ (i <= at)
      <4>1. r[i] = s[k + (i - at)] /\ i # 1 /\ k + (i - at) \in 2..Len(s)
        BY <1>12, <1>16, <1>20, <3>1, <3>4
      <4>2. Parent[r[i]] = s[k + (i - at) - 1]
        <5>1. Parent[s[k + (i - at)]] = s[(k + (i - at)) - 1]
          BY <1>8, <4>1
        <5>2. (k + (i - at)) - 1 = k + (i - at) - 1
          BY <1>12, <1>16, <3>1
        <5> QED
          BY <4>1, <5>1, <5>2
      <4>3. CASE i - 1 <= at
        <5>1. i - 1 = at /\ k + (i - at) - 1 = k
          BY <1>12, <1>16, <3>1, <3>4, <4>3
        <5>2. r[i - 1] = c[at]
          BY <1>20, <3>2, <4>1, <4>3, <5>1
        <5> QED
          BY <1>15, <4>1, <4>2, <5>1, <5>2
      <4>4. CASE ~ (i - 1 <= at)
        <5>1. r[i - 1] = s[k + (i - 1 - at)]
          BY <1>20, <3>2, <4>1, <4>4
        <5>2. k + (i - 1 - at) = k + (i - at) - 1
          BY <1>12, <1>16, <3>1
        <5> QED
          BY <4>1, <4>2, <5>1, <5>2
      <4> QED
        BY <4>3, <4>4
    <3> QED
      BY <3>3, <3>4
  <2> QED
    BY <1>18, <2>1 DEF Linked
<1>22. r # <<>>
  BY <1>8, <1>12, <1>16, <1>18, EmptySeq
<1>23. Range(r) \subseteq K
  <2>1. ASSUME NEW i \in DOMAIN r PROVE r[i] \in K
    <3>1. CASE i <= at
      <4>1. i \in DOMAIN c /\ r[i] = c[i]
        BY <1>5, <1>8, <1>12, <1>16, <1>19, <1>20, <3>1
      <4> QED
        BY <1>4, <1>5, <4>1 DEF K
    <3>2. CASE ~ (i <= at)
      <4>1. r[i] = s[k + (i - at)] /\ k + (i - at) \in 1..Len(s)
        BY <1>8, <1>12, <1>16, <1>19, <1>20, <3>2
      <4> QED
        BY <1>2, <4>1
    <3> QED
      BY <3>1, <3>2
  <2> QED
    BY <2>1 DEF Range
<1> QED
  BY <1>7, <1>13, <1>21, <1>22, <1>23 DEF br, p, r, K

-----------------------------------------------------------------------------
(* What a node holds once a block is connected. *)

LEMMA ChainWithRight ==
  ASSUME Rooted, NEW n, Holds(n), NEW b \in Blocks, Accepted(n, b)
  PROVE  /\ Linked(ChainWith(n, b)) /\ ChainWith(n, b) # <<>>
         /\ Range(ChainWith(n, b)) \subseteq Known(n) \cup {b}
         /\ Reorganises(n, b) => Branch(n, b) \in Seq(Blocks)
<1>1. CASE Extends(n, b)
  <2> DEFINE c == chain[n]
             t == Append(c, b)
             l == Len(c)
  <2>1. /\ c \in Seq(Blocks) /\ l \in Nat /\ DOMAIN c = 1..l
        /\ \A i \in 1..l : Parent[c[i]] = IF i = 1 THEN NoBlock ELSE c[i - 1]
    BY LenProperties DEF Holds, Linked
  <2>2. /\ t \in Seq(Blocks) /\ Len(t) = l + 1 /\ t[l + 1] = b
        /\ \A i \in 1..l : t[i] = c[i]
    BY <2>1, AppendProperties
  <2>3. IF c = <<>> THEN b = Genesis ELSE Parent[b] = Last(c)
    BY <1>1, ParentKnown
  <2>4. Parent[b] = IF l + 1 = 1 THEN NoBlock ELSE c[l]
    <3>1. CASE c = <<>>
      BY <2>1, <2>3, <3>1 DEF Rooted
    <3>2. CASE c # <<>>
      BY <2>1, <2>3, <3>2, RangeTyped
    <3> QED
      BY <3>1, <3>2
  <2>5. DOMAIN t = 1..(l + 1) /\ t # <<>>
    BY <2>1, <2>2, LenProperties, EmptySeq
  <2>6. ChainWith(n, b) = t
    BY <1>1 DEF ChainWith
  <2>7. Range(c) \subseteq Known(n)
    BY DEF Known, OnChain
  <2> HIDE DEF t, l, c
  <2>8. ASSUME NEW i \in DOMAIN t
        PROVE  /\ Parent[t[i]] = IF i = 1 THEN NoBlock ELSE t[i - 1]
               /\ t[i] \in Range(c) \cup {b}
    <3>1. CASE i = l + 1
      <4>1. l # 0 => l \in 1..l /\ (l + 1) - 1 = l
        BY <2>1
      <4> QED
        BY <2>1, <2>2, <2>4, <3>1, <4>1
    <3>2. CASE i # l + 1
      <4>1. i \in 1..l /\ (i # 1 => i - 1 \in 1..l)
        BY <2>1, <2>5, <3>2
      <4> QED
        BY <2>1, <2>2, <4>1 DEF Range
    <3> QED
      BY <3>1, <3>2
  <2>9. Linked(t)
    BY <2>2, <2>8 DEF Linked
  <2>10. Range(t) \subseteq Known(n) \cup {b}
    BY <2>7, <2>8 DEF Range
  <2> QED
    BY <1>1, <2>5, <2>6, <2>9, <2>10 DEF Reorganises
<1>2. CASE ~ Extends(n, b)
  <2>1. Linked(chain[n]) /\ chain[n] # <<>> /\ Range(chain[n]) \subseteq Known(n)
    BY <1>2, ParentKnown DEF Holds, Known, OnChain
  <2> QED
    BY <1>2, <2>1, RivalRight DEF ChainWith
<1> QED
  BY <1>1, <1>2

\* Nothing that was known is lost, and an orphan that is not released waits on.
LEMMA AcceptedHolds ==
  ASSUME Rooted, NEW n, Holds(n), NEW b \in Blocks, Accepted(n, b),
         chain'[n] = ChainWith(n, b), side'[n] = SideWith(n, b),
         orphans'[n] = orphans[n] \ Released(n, b)
  PROVE  Holds(n)' /\ chain'[n] # <<>>
<1> DEFINE c == ChainWith(n, b)
           K == Known(n) \cup {b}
<1>1. Linked(c) /\ c # <<>> /\ Range(c) \subseteq K
  BY ChainWithRight
<1>2. SideWith(n, b) = K \ Range(c)
  BY DEF SideWith
<1>3. \A x \in K : Parent[x] \in K \cup {NoBlock}
  BY KnownClosed
<1>4. K \subseteq Blocks
  BY RangeTyped DEF Holds, Linked, Known, OnChain
<1>5. \A x \in K : Parent[x] = NoBlock => x = Genesis
  BY <1>4 DEF Rooted
<1>6. Genesis \in Range(c)
  BY <1>1, LinkedStarts
<1>7. ASSUME NEW o \in orphans[n] \ Released(n, b)
      PROVE  o \notin K /\ Parent[o] \notin K \cup {NoBlock}
  <2>1. o \notin Known(n) /\ Parent[o] \notin Known(n) \cup {NoBlock}
    BY DEF Holds
  <2>2. Parent[o] # b
    BY DEF Released
  <2>3. o # b
    BY <2>1, ParentKnown
  <2> QED
    BY <2>1, <2>2, <2>3
<1> HIDE DEF c, K
<1>8. OnChain(n)' = Range(c) /\ Known(n)' = K /\ chain'[n] = c
  BY <1>1, <1>2 DEF OnChain, Known, c
<1>9. side'[n] = K \ Range(c)
  BY <1>2
<1>10. IsFiniteSet(orphans'[n]) /\ orphans'[n] \in SUBSET Blocks
  BY FS_Subset DEF Holds
<1>11. \A x \in side'[n] : Parent[x] \in K
  BY <1>3, <1>5, <1>6, <1>9
<1> QED
  BY <1>1, <1>4, <1>7, <1>8, <1>9, <1>10, <1>11 DEF Holds

LEMMA OrphanHolds ==
  ASSUME Rooted, NEW n, Holds(n), NEW b \in Blocks, b \notin Known(n), IsOrphan(n, b),
         chain'[n] = chain[n], side'[n] = side[n],
         orphans'[n] = orphans[n] \cup {b}
  PROVE  Holds(n)'
<1>1. Parent[b] \notin Known(n) \cup {NoBlock}
  BY DEF IsOrphan, Extends
<1>2. IsFiniteSet(orphans'[n])
  BY FS_AddElement DEF Holds
<1>3. OnChain(n)' = OnChain(n) /\ Known(n)' = Known(n)
  BY DEF OnChain, Known
<1> QED
  BY <1>1, <1>2, <1>3 DEF Holds

\* What is written of a chain is a chain on the genesis block.
LEMMA SavedRight ==
  ASSUME Rooted, NEW c, Linked(c)
  PROVE  /\ (IF c = <<>> THEN <<>> ELSE Tail(c)) \in Seq(Blocks)
         /\ ChainOnGenesis(IF c = <<>> THEN <<>> ELSE Tail(c))
<1>1. CASE c = <<>>
  BY <1>1, EmptySeq DEF ChainOnGenesis
<1>2. CASE c # <<>>
  <2> DEFINE t == Tail(c)
             l == Len(c)
  <2>1. /\ l \in Nat \ {0} /\ c[1] = Genesis /\ c \in Seq(Blocks) /\ DOMAIN c = 1..l
        /\ \A i \in 1..l : Parent[c[i]] = IF i = 1 THEN NoBlock ELSE c[i - 1]
    BY <1>2, LinkedStarts, LenProperties DEF Linked
  <2>2. /\ t \in Seq(Blocks) /\ Len(t) = l - 1
        /\ \A i \in 1..Len(t) : t[i] = c[i + 1]
    BY <1>2, <2>1, HeadTailProperties
  <2>3. DOMAIN t = 1..(l - 1)
    BY <2>2, LenProperties
  <2> HIDE DEF t, l
  <2>4. ASSUME NEW i \in DOMAIN t
        PROVE  Parent[t[i]] = IF i = 1 THEN Genesis ELSE t[i - 1]
    <3>1. i \in 1..Len(t) /\ i + 1 \in 1..l /\ i + 1 # 1 /\ (i + 1) - 1 = i
          /\ (i # 1 => i - 1 \in 1..Len(t) /\ (i - 1) + 1 = i)
      BY <2>1, <2>2, <2>3
    <3>2. Parent[c[i + 1]] = c[i]
      BY <2>1, <3>1
    <3> QED
      BY <2>1, <2>2, <3>1, <3>2
  <2> QED
    BY <1>2, <2>2, <2>4 DEF ChainOnGenesis, t
<1> QED
  BY <1>1, <1>2

\* Any order of a finite set is a sequence.
LEMMA OrderTyped ==
  ASSUME NEW S, NEW R \in SUBSET S, IsFiniteSet(R), NEW s \in SetToSeqs(R)
  PROVE  s \in Seq(S)
<1>1. Cardinality(R) \in Nat
  BY FS_CardinalityType
<1>2. s \in [1..Cardinality(R) -> R]
  BY DEF SetToSeqs
<1> QED
  BY <1>1, <1>2

LEMMA TailTyped ==
  ASSUME NEW S, NEW s \in Seq(S), s # <<>>
  PROVE  Head(s) \in S /\ Tail(s) \in Seq(S) /\ s[1] = Head(s)
  BY HeadTailProperties

-----------------------------------------------------------------------------
(* connect_block. *)

LEMMA AnnouncedTyped ==
  ASSUME Rooted, NEW n, Holds(n), NEW b \in Blocks, Accepted(n, b)
  PROVE  Announced(n, b) \in Seq(Messages)
<1> DEFINE br == Branch(n, b)
           first == IF Reorganises(n, b)
                    THEN [i \in DOMAIN br |-> BlockInfo(br[i])] ELSE <<>>
<1>1. first \in Seq(Messages)
  <2>1. CASE Reorganises(n, b)
    <3>1. br \in Seq(Blocks)
      BY <2>1, ChainWithRight
    <3> HIDE DEF br
    <3>2. DOMAIN br = 1..Len(br) /\ Len(br) \in Nat /\ \A i \in 1..Len(br) : br[i] \in Blocks
      BY <3>1, LenProperties, ElementOfSeq
    <3>3. \A i \in 1..Len(br) : BlockInfo(br[i]) \in Messages
      BY <3>2, MessagesTyped
    <3>4. [i \in DOMAIN br |-> BlockInfo(br[i])] \in [1..Len(br) -> Messages]
      BY <3>2, <3>3
    <3> QED
      BY <2>1, <3>2, <3>4
  <2>2. CASE ~ Reorganises(n, b)
    BY <2>2, EmptySeq
  <2> QED
    BY <2>1, <2>2
<1>2. <<BlockInfo(b)>> \in Seq(Messages)
  BY MessagesTyped, SingleTyped
<1>3. Announced(n, b) = first \o <<BlockInfo(b)>>
  BY DEF Announced
<1> HIDE DEF first
<1> QED
  BY <1>1, <1>2, <1>3, ConcatProperties

LEMMA RequestTyped ==
  ASSUME NEW n, NEW b \in Blocks
  PROVE  OrphanRequest(n, b) \in Seq(Messages)
<1>1. Parent[b] \in Parents
  BY SyncAssumption DEF Parents
<1>2. <<GetBlock(Parent[b])>> \in Seq(Messages)
  BY <1>1, MessagesTyped, SingleTyped
<1> QED
  BY <1>2, EmptySeq DEF OrphanRequest

\* What a step of node n leaves alone in the others.
Elsewhere(n) ==
  \A m \in Nodes \ {n} :
    /\ chain'[m] = chain[m] /\ side'[m] = side[m] /\ orphans'[m] = orphans[m]

\* The chain, the branches and the orphans of node n after a call.
Connected(n) ==
  /\ NetTyped'
  /\ chain' \in [Nodes -> Seq(Blocks)] /\ calls' \in [Nodes -> Seq(Blocks)]
  /\ side' \in [Nodes -> SUBSET Blocks] /\ orphans' \in [Nodes -> SUBSET Blocks]
  /\ Elsewhere(n)
  /\ Holds(n)'
  /\ chain'[n] = <<>> => chain[n] = <<>>

LEMMA ConnectRight ==
  ASSUME Rooted, NetTyped, ChainTyped, NEW n \in Nodes, Holds(n),
         NEW b \in Blocks, NEW back \in Seq(Blocks), Connect(n, b, back)
  PROVE  Connected(n) /\ (Accepted(n, b) => chain'[n] = ChainWith(n, b))
<1>1. CASE /\ Ignored(n, b)
           /\ calls' = [calls EXCEPT ![n] = back]
           /\ UNCHANGED <<chain, side, orphans, netVars>>
  <2>1. NetTyped' /\ Holds(n)' /\ Elsewhere(n)
    BY <1>1 DEF NetTyped, netVars, Holds, OnChain, Known, Elsewhere
  <2>2. calls' \in [Nodes -> Seq(Blocks)]
    BY <1>1 DEF ChainTyped
  <2> QED
    BY <1>1, <2>1, <2>2 DEF Connected, ChainTyped, Accepted
<1>2. CASE /\ ~Ignored(n, b) /\ IsOrphan(n, b)
           /\ orphans' = [orphans EXCEPT ![n] = @ \cup {b}]
           /\ SendRandom(n, OrphanRequest(n, b))
           /\ calls' = [calls EXCEPT ![n] = back]
           /\ UNCHANGED <<chain, side>>
  <2>1. NetTyped'
    BY <1>2, RequestTyped, SendRandomTyped
  <2>2. /\ calls' \in [Nodes -> Seq(Blocks)] /\ orphans' \in [Nodes -> SUBSET Blocks]
        /\ orphans'[n] = orphans[n] \cup {b} /\ Elsewhere(n)
    BY <1>2 DEF ChainTyped, Elsewhere
  <2>3. Holds(n)'
    BY <1>2, <2>2, OrphanHolds DEF Ignored
  <2> QED
    BY <1>2, <2>1, <2>2, <2>3 DEF Connected, ChainTyped, Accepted
<1>3. CASE /\ Accepted(n, b)
           /\ chain' = [chain EXCEPT ![n] = ChainWith(n, b)]
           /\ side' = [side EXCEPT ![n] = SideWith(n, b)]
           /\ orphans' = [orphans EXCEPT ![n] = @ \ Released(n, b)]
           /\ SendRandom(n, Announced(n, b))
           /\ \E kids \in SetToSeqs(Released(n, b)) :
                calls' = [calls EXCEPT ![n] = kids \o back]
  <2>1. NetTyped'
    BY <1>3, AnnouncedTyped, SendRandomTyped
  <2>2. /\ chain'[n] = ChainWith(n, b) /\ side'[n] = SideWith(n, b)
        /\ orphans'[n] = orphans[n] \ Released(n, b) /\ Elsewhere(n)
    BY <1>3 DEF ChainTyped, Elsewhere
  <2>3. Holds(n)' /\ chain'[n] # <<>>
    BY <1>3, <2>2, AcceptedHolds
  <2>4. /\ chain' \in [Nodes -> Seq(Blocks)] /\ side' \in [Nodes -> SUBSET Blocks]
        /\ orphans' \in [Nodes -> SUBSET Blocks]
    <3>1. /\ ChainWith(n, b) \in Seq(Blocks) /\ SideWith(n, b) \in SUBSET Blocks
          /\ orphans[n] \ Released(n, b) \in SUBSET Blocks
      BY <2>2, <2>3 DEF Holds, Linked
    <3> QED
      BY <1>3, <3>1 DEF ChainTyped
  <2>5. PICK kids \in SetToSeqs(Released(n, b)) :
          calls' = [calls EXCEPT ![n] = kids \o back]
    BY <1>3
  <2>6. kids \in Seq(Blocks)
    <3>1. Released(n, b) \in SUBSET Blocks /\ IsFiniteSet(Released(n, b))
      BY FS_Subset DEF Released, Holds
    <3> QED
      BY <3>1, OrderTyped
  <2>7. kids \o back \in Seq(Blocks)
    BY <2>6, ConcatProperties
  <2>8. calls' \in [Nodes -> Seq(Blocks)]
    BY <2>5, <2>7 DEF ChainTyped
  <2> QED
    BY <2>1, <2>2, <2>3, <2>4, <2>8 DEF Connected
<1> QED
  BY <1>1, <1>2, <1>3 DEF Connect

-----------------------------------------------------------------------------
(* Messages and jobs. *)

LEMMA TakeTyped ==
  ASSUME NetTyped, NEW n \in Nodes, NEW p \in Nodes \ {n}, NEW type,
         Take(n, p, type)
  PROVE  /\ Head(wire[<<p, n>>]) \in Messages
         /\ Head(wire[<<p, n>>]).type = type
         /\ dropped' = dropped => NetTyped'
<1>1. <<p, n>> \in Links /\ p \in Nodes /\ p # n
  BY DEF Links
<1>2. wire[<<p, n>>] \in Seq(Messages)
  BY <1>1 DEF NetTyped
<1>3. /\ Head(wire[<<p, n>>]) \in Messages
      /\ Tail(wire[<<p, n>>]) \in Seq(Messages)
  BY <1>2, TailTyped DEF Take
<1>4. /\ wire' = [wire EXCEPT ![<<p, n>>] = Tail(@)]
      /\ Head(wire[<<p, n>>]).type = type
  BY DEF Take
<1>5. wire' \in [Links -> Seq(Messages)]
  BY <1>3, <1>4 DEF NetTyped
<1> QED
  BY <1>3, <1>4, <1>5 DEF NetTyped

LEMMA WorkTyped ==
  ASSUME NEW con \in Connections
  PROVE  /\ \A kind \in {"block", "inv"}, any \in BOOLEAN, rest \in Seq(Blocks) :
              [kind |-> kind, con |-> con, any |-> any, rest |-> rest] \in Jobs
         /\ \A from \in Nat \ {0} :
              [kind |-> "answer", con |-> con, from |-> from] \in Jobs
  BY DEF Jobs

LEMMA WorkFields ==
  ASSUME NEW j \in Jobs
  PROVE  /\ j.kind \in {"none", "block", "inv", "answer"}
         /\ j.kind \in {"block", "inv"} =>
              /\ j.con \in Connections /\ j.any \in BOOLEAN
              /\ j.rest \in Seq(Blocks)
              /\ \A any \in BOOLEAN, rest \in Seq(Blocks) :
                   [j EXCEPT !.rest = rest, !.any = any] \in Jobs
         /\ j.kind = "answer" => j.con \in Connections /\ j.from \in Nat \ {0}
<1>1. CASE j \in [kind : {"none"}]
  BY <1>1
<1>2. CASE j \in [kind : {"block", "inv"}, con : Connections, any : BOOLEAN,
                  rest : Seq(Blocks)]
  BY <1>2 DEF Jobs
<1>3. CASE j \in [kind : {"answer"}, con : Connections, from : Nat \ {0}]
  BY <1>3
<1> QED
  BY <1>1, <1>2, <1>3 DEF Jobs

LEMMA FieldsTyped ==
  ASSUME NEW msg \in Messages
  PROVE  /\ msg.type \in {"hello", "getBlock", "block", "inv"}
         /\ msg.type = "hello" => msg.isMiner \in BOOLEAN
         /\ msg.type = "getBlock" => msg.from \in Parents
         /\ msg.type = "block" => msg.block \in Blocks
         /\ msg.type = "inv" => msg.blocks \in Seq(Blocks)
  BY DEF Messages

LEMMA AnswerFromTyped ==
  ASSUME ChainTyped, NEW n \in Nodes, NEW b
  PROVE  AnswerFrom(n, b) \in Nat \ {0}
<1>1. chain[n] \in Seq(Blocks)
  BY DEF ChainTyped
<1>2. DOMAIN chain[n] = 1..Len(chain[n]) /\ Len(chain[n]) \in Nat
  BY <1>1, LenProperties
<1>3. CASE b \in OnChain(n)
  <2> DEFINE i == CHOOSE i \in DOMAIN chain[n] : chain[n][i] = b
  <2>1. \E k \in DOMAIN chain[n] : chain[n][k] = b
    BY <1>3 DEF OnChain, Range
  <2>2. i \in DOMAIN chain[n]
    BY <2>1
  <2> HIDE DEF i
  <2>3. i \in Nat
    BY <1>2, <2>2
  <2>4. 1 + i \in Nat \ {0}
    BY <2>3
  <2> QED
    BY <1>3, <2>4 DEF AnswerFrom, i
<1>4. CASE b \notin OnChain(n)
  BY <1>4 DEF AnswerFrom
<1> QED
  BY <1>3, <1>4

LEMMA NewInTyped ==
  ASSUME NEW n, NEW bs \in Seq(Blocks)
  PROVE  NewIn(n, bs) \in Seq(Blocks)
<1> DEFINE at == {i \in DOMAIN bs : bs[i] \notin Known(n)}
<1>1. /\ Len(bs) \in Nat /\ DOMAIN bs = 1..Len(bs)
      /\ \A i \in 1..Len(bs) : bs[i] \in Blocks
  BY LenProperties, ElementOfSeq
<1>2. at \in SUBSET (1..Len(bs)) /\ \A i \in at : bs[i] \in Blocks
  BY <1>1
<1>3. NewIn(n, bs) = Picked(bs, at)
  BY DEF NewIn
<1> HIDE DEF at
<1> QED
  BY <1>1, <1>2, <1>3, PickedTyped

\* What a node copies from its chain for an InvMsg.
LEMMA ChunkTyped ==
  ASSUME NEW c \in Seq(Blocks), NEW from \in Nat \ {0}
  PROVE  SubSeq(c, from, Min({from + CHUNK_SIZE - 1, Len(c)})) \in Seq(Blocks)
<1> DEFINE a == from + CHUNK_SIZE - 1
           l == Len(c)
           to == Min({a, l})
<1>1. a \in Nat /\ l \in Nat
  <2>1. CHUNK_SIZE \in Nat /\ l \in Nat
    BY SyncAssumption, LenProperties
  <2> QED
    BY <2>1
<1> HIDE DEF a, l
<1>2. to \in {a, l} /\ to <= l
  <2>1. {a, l} \in SUBSET Nat /\ {a, l} # {}
    BY <1>1
  <2> QED
    BY <2>1, MinInside
<1> HIDE DEF to
<1>3. to \in Int /\ to <= Len(c)
  BY <1>1, <1>2 DEF l
<1>4. SubSeq(c, from, to) \in Seq(Blocks)
  BY <1>3, SubSeqTyped
<1> QED
  BY <1>4 DEF to, a, l

-----------------------------------------------------------------------------

LEMMA MainStays ==
  ASSUME MainTyped, UNCHANGED <<mainVars, logVars, ibdDone, job>>
  PROVE  MainTyped'
  BY DEF MainTyped, mainVars, logVars

LEMMA HandleMain ==
  ASSUME IInv, SyncInv, NEW n \in Nodes, NEW p \in Nodes \ {n}, Handle(n, p)
  PROVE  MainTyped' /\ NetTyped'
<1> USE DEF SyncInv
<1>1. Con(n, p) \in Connections
  BY ConTyped DEF IInv
<1>2. CASE HandleHello(n, p)
  BY <1>2, TakeTyped, MainStays DEF HandleHello
<1>3. CASE HandleBlockInfo(n, p)
  <2> DEFINE j == [kind |-> "block", con |-> Con(n, p), any |-> FALSE,
                   rest |-> <<Head(wire[<<p, n>>]).block>>]
  <2>1. Take(n, p, "block") /\ dropped' = dropped
    BY <1>3 DEF HandleBlockInfo
  <2>2. Head(wire[<<p, n>>]).block \in Blocks
    BY <2>1, TakeTyped, FieldsTyped
  <2>3. <<Head(wire[<<p, n>>]).block>> \in Seq(Blocks)
    BY <2>2, SingleTyped
  <2>4. j \in Jobs
    BY <1>1, <2>3, WorkTyped
  <2>5. job' = [job EXCEPT ![n] = j] /\ UNCHANGED <<mainVars, logVars, ibdDone>>
    BY <1>3 DEF HandleBlockInfo
  <2> HIDE DEF j
  <2>6. MainTyped'
    BY <2>4, <2>5 DEF MainTyped, mainVars, logVars
  <2> QED
    BY <2>1, <2>6, TakeTyped
<1>4. CASE HandleInv(n, p)
  <2> DEFINE sent == Head(wire[<<p, n>>]).blocks
             j == [kind |-> "inv", con |-> Con(n, p), any |-> FALSE,
                   rest |-> NewIn(n, sent)]
  <2>1. Take(n, p, "inv") /\ dropped' = dropped
    BY <1>4 DEF HandleInv
  <2>2. sent \in Seq(Blocks)
    BY <2>1, TakeTyped, FieldsTyped
  <2>3. NewIn(n, sent) \in Seq(Blocks)
    BY <2>2, NewInTyped
  <2>4. j \in Jobs
    BY <1>1, <2>3, WorkTyped
  <2>5. /\ UNCHANGED <<mainVars, logVars>>
        /\ \/ ibdDone' = [ibdDone EXCEPT ![n] = TRUE] /\ job' = job
           \/ ibdDone' = ibdDone /\ job' = [job EXCEPT ![n] = j]
    BY <1>4 DEF HandleInv
  <2> HIDE DEF j
  <2>6. MainTyped'
    BY <2>4, <2>5 DEF MainTyped, mainVars, logVars
  <2> QED
    BY <2>1, <2>6, TakeTyped
<1>5. CASE HandleGetBlock(n, p)
  <2> DEFINE from == AnswerFrom(n, Head(wire[<<p, n>>]).from)
             j == [kind |-> "answer", con |-> Con(n, p), from |-> from]
  <2>1. Take(n, p, "getBlock") /\ dropped' = dropped
    BY <1>5 DEF HandleGetBlock
  <2>2. from \in Nat \ {0}
    BY AnswerFromTyped
  <2>3. j \in Jobs
    <3> HIDE DEF from
    <3> QED
      BY <1>1, <2>2, WorkTyped
  <2>4. job' = [job EXCEPT ![n] = j] /\ UNCHANGED <<mainVars, logVars, ibdDone>>
    BY <1>5 DEF HandleGetBlock
  <2> HIDE DEF j
  <2>5. MainTyped'
    BY <2>3, <2>4 DEF MainTyped, mainVars, logVars
  <2> QED
    BY <2>1, <2>5, TakeTyped
<1> QED
  BY <1>2, <1>3, <1>4, <1>5 DEF Handle

LEMMA NoJobTyped == NoJob \in Jobs
  BY DEF NoJob, Jobs

LEMMA IoMain ==
  ASSUME IInv, SyncInv, NEW n \in Nodes,
         ReadError(n) \/ Answer(n) \/ ConnectReceived(n) \/ FinishReceived(n)
           \/ TryOrphan(n)
  PROVE  MainTyped'
<1> USE DEF SyncInv
<1>1. CASE ReadError(n) \/ TryOrphan(n)
  BY <1>1, MainStays DEF ReadError, TryOrphan
<1>2. CASE Answer(n) \/ FinishReceived(n)
  <2>1. job' = [job EXCEPT ![n] = NoJob] /\ UNCHANGED <<mainVars, logVars, ibdDone>>
    BY <1>2 DEF Answer, FinishReceived
  <2> QED
    BY <2>1, NoJobTyped DEF MainTyped, mainVars, logVars
<1>3. CASE ConnectReceived(n)
  <2> DEFINE b == Head(job[n].rest)
             any == job[n].any \/ Accepted(n, b)
             j == [job[n] EXCEPT !.rest = Tail(job[n].rest), !.any = any]
  <2>1. /\ job[n].kind \in {"block", "inv"} /\ job[n].rest # <<>>
        /\ job' = [job EXCEPT ![n].rest = Tail(@), ![n].any = @ \/ Accepted(n, b)]
        /\ UNCHANGED <<mainVars, logVars, ibdDone>>
    BY <1>3 DEF ConnectReceived
  <2>2. job[n] \in Jobs
    BY DEF MainTyped
  <2>3. job[n].rest \in Seq(Blocks)
    BY <2>1, <2>2, WorkFields
  <2>4. Tail(job[n].rest) \in Seq(Blocks)
    BY <2>1, <2>3, TailTyped
  <2>5. any \in BOOLEAN
    OBVIOUS
  <2>6. j \in Jobs
    <3> HIDE DEF any
    <3> QED
      BY <2>1, <2>2, <2>4, <2>5, WorkFields
  <2>7. job' = [job EXCEPT ![n] = j]
    BY <2>1 DEF MainTyped
  <2> HIDE DEF j
  <2> QED
    BY <2>1, <2>6, <2>7 DEF MainTyped, mainVars, logVars
<1> QED
  BY <1>1, <1>2, <1>3

LEMMA DownloadMain ==
  ASSUME Rooted, IInv, SyncInv, NEW n \in Nodes,
         MainThread(n) \/ MineBlock(n) \/ Boot(n) \/ Crash(n)
  PROVE  MainTyped'
<1> USE DEF SyncInv
<1>1. Tip(n) \in Parents /\ NoBlock \in Parents
  BY RangeTyped DEF Tip, Parents, ChainTyped
<1>2. 0 \in 0..MAX_RETRIES /\ MAX_RETRIES \in Nat
  BY SyncAssumption
<1>3. \A r \in 0..MAX_RETRIES : r < MAX_RETRIES => r + 1 \in 0..MAX_RETRIES
  BY <1>2
<1>4. CASE LoadNext(n) \/ SaveMined(n) \/ StartLoad(n)
  BY <1>4 DEF LoadNext, SaveMined, StartLoad, MainTyped, mainVars, logVars, Phases
<1>5. CASE LoadFails(n)
  BY <1>5 DEF LoadFails, MainTyped, mainVars
<1>6. CASE StartDownload(n)
  BY <1>1, <1>6 DEF StartDownload, MainTyped, logVars, Phases
<1>7. CASE AskNobody(n)
  <2>1. retry[n] \in 0..MAX_RETRIES /\ retry[n] < MAX_RETRIES
    BY <1>7 DEF AskNobody, MainTyped
  <2>2. retry' \in [Nodes -> 0..MAX_RETRIES]
    BY <1>3, <1>7, <2>1 DEF AskNobody, MainTyped
  <2> QED
    BY <1>7, <2>2 DEF AskNobody, MainTyped, logVars
<1>8. CASE Ask(n) \/ DownloadDone(n)
  BY <1>1, <1>2, <1>8 DEF Ask, DownloadDone, LeaveLoops, MainTyped, logVars, Phases
<1>9. CASE Stall(n)
  <2>1. retry[n] \in 0..MAX_RETRIES /\ retry[n] < MAX_RETRIES
    BY <1>9 DEF Stall, MainTyped, NodesRight, Staged
  <2>2. retry' \in [Nodes -> 0..MAX_RETRIES]
    BY <1>3, <1>9, <2>1 DEF Stall, MainTyped
  <2>3. /\ askFrom' \in [Nodes -> Parents] /\ phase' \in [Nodes -> Phases]
        /\ UNCHANGED <<logVars, ibdDone, job>>
    BY <1>1, <1>9 DEF Stall, MainTyped, Phases
  <2> QED
    BY <2>2, <2>3 DEF MainTyped, logVars
<1>10. CASE GiveUp(n)
  BY <1>1, <1>2, <1>10 DEF GiveUp, LeaveLoops, MainTyped, Phases
<1>11. CASE MineBlock(n)
  BY <1>11 DEF MineBlock, MainTyped, Phases
<1>12. CASE Boot(n)
  BY <1>12 DEF Boot, MainTyped, logVars, Phases
<1>13. CASE Crash(n)
  BY <1>1, <1>2, <1>13, NoJobTyped DEF Crash, MainTyped, Phases
<1> QED
  BY <1>4, <1>5, <1>6, <1>7, <1>8, <1>9, <1>10, <1>11, <1>12, <1>13
  DEF MainThread, Download

\* What a step of node n leaves alone in the main threads and files of others.
Aside(n) ==
  \A m \in Nodes \ {n} :
    /\ loading'[m] = loading[m] /\ file'[m] = file[m]
    /\ phase'[m] = phase[m] /\ retry'[m] = retry[m]
    /\ m \in running' <=> m \in running

\* The file of a node is as it was or as its chain is now.
FilesTyped(n) ==
  file' \in [Nodes -> Seq(Blocks)] /\ ChainOnGenesis(file'[n])

LEMMA StepRight ==
  ASSUME SyncInv, NEW n \in Nodes, Connected(n), Aside(n), FilesTyped(n),
         loading' \in [Nodes -> Seq(Blocks)], Staged(n)'
  PROVE  NetTyped' /\ ChainTyped' /\ NodesRight'
<1>1. NetTyped' /\ ChainTyped'
  BY DEF Connected, FilesTyped, ChainTyped
<1>2. ASSUME NEW m \in Nodes
      PROVE  (Holds(m) /\ Staged(m) /\ ChainOnGenesis(file[m]))'
  <2>1. CASE m = n
    BY <2>1 DEF Connected, FilesTyped
  <2>2. CASE m # n
    <3>1. Holds(m) /\ Staged(m) /\ ChainOnGenesis(file[m])
      BY DEF SyncInv, NodesRight
    <3>2. Holds(m)'
      BY <2>2, <3>1 DEF Connected, Elsewhere, Holds, Known, OnChain
    <3>3. chain'[m] = chain[m]
      BY <2>2 DEF Connected, Elsewhere
    <3>4. Staged(m)'
      BY <2>2, <3>1, <3>3 DEF Aside, Staged
    <3>5. file'[m] = file[m]
      BY <2>2 DEF Aside
    <3> QED
      BY <3>1, <3>2, <3>4, <3>5
  <2> QED
    BY <2>1, <2>2
<1> QED
  BY <1>1, <1>2 DEF NodesRight

LEMMA QuietConnected ==
  ASSUME SyncInv, NEW n \in Nodes, UNCHANGED chainVars, NetTyped'
  PROVE  Connected(n)
<1>1. Holds(n)
  BY DEF SyncInv, NodesRight
<1>2. Holds(n)'
  BY <1>1 DEF chainVars, Holds, Known, OnChain
<1> QED
  BY <1>2 DEF SyncInv, Connected, Elsewhere, ChainTyped, chainVars

\* A step that changes none of all this.
LEMMA NothingMoves ==
  ASSUME SyncInv, NetTyped',
         UNCHANGED <<chainVars, phase, retry, running, file, loading>>
  PROVE  ChainTyped' /\ NodesRight'
<1>1. ChainTyped'
  BY DEF SyncInv, ChainTyped, chainVars
<1>2. ASSUME NEW m \in Nodes
      PROVE  (Holds(m) /\ Staged(m) /\ ChainOnGenesis(file[m]))'
  <2>1. Holds(m) /\ Staged(m) /\ ChainOnGenesis(file[m])
    BY DEF SyncInv, NodesRight
  <2> QED
    BY <2>1 DEF chainVars, Holds, Known, OnChain, Staged, ChainOnGenesis
<1> QED
  BY <1>1, <1>2 DEF NodesRight

LEMMA FileStays ==
  ASSUME SyncInv, NEW n \in Nodes, file' = file
  PROVE  FilesTyped(n)
<1>1. ChainOnGenesis(file[n])
  BY DEF SyncInv, NodesRight
<1> QED
  BY <1>1 DEF FilesTyped, SyncInv, ChainTyped

LEMMA SaveTyped ==
  ASSUME Rooted, SyncInv, NEW n \in Nodes, NEW c, Linked(c), Save(n, c)
  PROVE  FilesTyped(n) /\ \A m \in Nodes \ {n} : file'[m] = file[m]
<1> DEFINE t == IF c = <<>> THEN <<>> ELSE Tail(c)
<1>1. t \in Seq(Blocks) /\ ChainOnGenesis(t)
  BY SavedRight
<1>2. file' = [file EXCEPT ![n] = t] /\ file \in [Nodes -> Seq(Blocks)]
  BY DEF Save, SyncInv, ChainTyped
<1> HIDE DEF t
<1>3. /\ file' \in [Nodes -> Seq(Blocks)] /\ file'[n] = t
      /\ \A m \in Nodes \ {n} : file'[m] = file[m]
  BY <1>1, <1>2
<1> QED
  BY <1>1, <1>3 DEF FilesTyped

\* A write alone.
LEMMA SentOrNot ==
  ASSUME NetTyped, NEW n, NEW msg \in Messages, NEW to,
         SendTo(n, <<msg>>, to) \/ UNCHANGED netVars
  PROVE  NetTyped'
<1>1. <<msg>> \in Seq(Messages)
  BY SingleTyped
<1>2. CASE UNCHANGED netVars
  BY <1>2 DEF NetTyped, netVars
<1> QED
  BY <1>1, <1>2, SendTyped

-----------------------------------------------------------------------------
(* The io thread. *)

LEMMA HandleSync ==
  ASSUME Rooted, IInv, SyncInv, NEW n \in Nodes, NEW p \in Nodes \ {n}, Handle(n, p)
  PROVE  NetTyped' /\ ChainTyped' /\ NodesRight'
<1>1. NetTyped'
  BY HandleMain
<1>2. CASE HandleHello(n, p) \/ HandleBlockInfo(n, p) \/ HandleGetBlock(n, p)
  <2>1. UNCHANGED <<chainVars, phase, retry, running, file, loading>>
    BY <1>2 DEF HandleHello, HandleBlockInfo, HandleGetBlock, mainVars, procVars
  <2> QED
    BY <1>1, <2>1, NothingMoves
<1>3. CASE HandleInv(n, p)
  <2>1. /\ UNCHANGED <<chainVars, phase, retry, running, loading>>
        /\ file' = file \/ Save(n, chain[n])
    BY <1>3 DEF HandleInv, mainVars, procVars
  <2>2. Connected(n)
    BY <1>1, <2>1, QuietConnected
  <2>3. Holds(n) /\ Staged(n)
    BY DEF SyncInv, NodesRight
  <2>4. FilesTyped(n) /\ \A m \in Nodes \ {n} : file'[m] = file[m]
    BY <2>1, <2>3, FileStays, SaveTyped DEF Holds
  <2>5. Aside(n) /\ Staged(n)' /\ loading' \in [Nodes -> Seq(Blocks)]
    BY <2>1, <2>3, <2>4 DEF Aside, Staged, chainVars, SyncInv, ChainTyped
  <2> QED
    BY <2>2, <2>4, <2>5, StepRight
<1> QED
  BY <1>2, <1>3 DEF Handle

LEMMA AnswerSync ==
  ASSUME Rooted, IInv, SyncInv, NEW n \in Nodes, ReadError(n) \/ Answer(n)
  PROVE  NetTyped' /\ ChainTyped' /\ NodesRight'
<1>1. UNCHANGED <<chainVars, phase, retry, running, file, loading>>
  BY DEF ReadError, Answer, mainVars, procVars
<1>2. CASE ReadError(n)
  <2>1. NetTyped'
    BY <1>2 DEF ReadError, NetTyped, SyncInv
  <2> QED
    BY <1>1, <2>1, NothingMoves
<1>3. CASE Answer(n)
  <2> DEFINE bs == SubSeq(chain[n], job[n].from,
                          Min({job[n].from + CHUNK_SIZE - 1, Len(chain[n])}))
  <2>1. job[n].kind = "answer" /\ SendTo(n, <<Inv(bs)>>, <<job[n].con>>)
    BY <1>3 DEF Answer
  <2>2. job[n] \in Jobs /\ chain[n] \in Seq(Blocks)
    BY DEF SyncInv, MainTyped, ChainTyped
  <2>3. bs \in Seq(Blocks)
    BY <2>1, <2>2, WorkFields, ChunkTyped
  <2> HIDE DEF bs
  <2>4. NetTyped'
    BY <2>1, <2>3, MessagesTyped, SentOrNot DEF SyncInv
  <2> QED
    BY <1>1, <2>4, NothingMoves
<1> QED
  BY <1>2, <1>3

LEMMA ReceivedSync ==
  ASSUME Rooted, IInv, SyncInv, NEW n \in Nodes,
         ConnectReceived(n) \/ FinishReceived(n) \/ TryOrphan(n)
  PROVE  NetTyped' /\ ChainTyped' /\ NodesRight'
<1>1. UNCHANGED <<phase, retry, running, loading>>
  BY DEF ConnectReceived, FinishReceived, TryOrphan, mainVars, procVars
<1>2. Holds(n) /\ Staged(n) /\ chain[n] \in Seq(Blocks) /\ calls[n] \in Seq(Blocks)
      /\ job[n] \in Jobs /\ NetTyped /\ ChainTyped
  BY DEF SyncInv, NodesRight, ChainTyped, MainTyped
<1>3. <<>> \in Seq(Blocks)
  BY EmptySeq
<1>4. ASSUME Connected(n), FilesTyped(n), \A m \in Nodes \ {n} : file'[m] = file[m]
      PROVE  NetTyped' /\ ChainTyped' /\ NodesRight'
  <2>1. Aside(n) /\ Staged(n)' /\ loading' \in [Nodes -> Seq(Blocks)]
    BY <1>1, <1>2, <1>4 DEF Aside, Staged, Connected, ChainTyped
  <2> QED
    BY <1>4, <2>1, StepRight
<1>5. CASE ConnectReceived(n)
  <2>1. /\ job[n].kind \in {"block", "inv"} /\ job[n].rest # <<>>
        /\ Connect(n, Head(job[n].rest), <<>>) /\ file' = file
    BY <1>5 DEF ConnectReceived
  <2>2. Head(job[n].rest) \in Blocks
    BY <1>2, <2>1, WorkFields, TailTyped
  <2>3. Connected(n)
    BY <1>2, <1>3, <2>1, <2>2, ConnectRight
  <2> QED
    BY <1>4, <2>1, <2>3, FileStays
<1>6. CASE FinishReceived(n)
  <2>1. /\ file' = file \/ Save(n, chain[n])
        /\ UNCHANGED chainVars
        /\ \/ chain[n] # <<>> /\ SendTo(n, <<GetBlock(Tip(n))>>, <<job[n].con>>)
           \/ UNCHANGED netVars
    BY <1>6 DEF FinishReceived
  <2>2. NetTyped'
    <3>1. Tip(n) \in Parents
      BY <1>2, RangeTyped DEF Tip, Parents
    <3> QED
      BY <1>2, <2>1, <3>1, MessagesTyped, SentOrNot
  <2>3. Connected(n)
    BY <2>1, <2>2, QuietConnected
  <2>4. FilesTyped(n) /\ \A m \in Nodes \ {n} : file'[m] = file[m]
    BY <1>2, <2>1, FileStays, SaveTyped DEF Holds
  <2> QED
    BY <1>4, <2>3, <2>4
<1>7. CASE TryOrphan(n)
  <2> DEFINE b == Head(calls[n])
  <2>1. /\ calls[n] # <<>> /\ Connect(n, b, Tail(calls[n]))
        /\ IF Accepted(n, b) THEN Save(n, ChainWith(n, b)) ELSE UNCHANGED file
    BY <1>7 DEF TryOrphan
  <2>2. b \in Blocks /\ Tail(calls[n]) \in Seq(Blocks)
    BY <1>2, <2>1, TailTyped
  <2> HIDE DEF b
  <2>3. Connected(n)
    BY <1>2, <2>1, <2>2, ConnectRight
  <2>4. FilesTyped(n) /\ \A m \in Nodes \ {n} : file'[m] = file[m]
    <3>1. CASE Accepted(n, b)
      BY <1>2, <2>1, <2>2, <3>1, ChainWithRight, SaveTyped
    <3>2. CASE ~ Accepted(n, b)
      BY <2>1, <3>2, FileStays
    <3> QED
      BY <3>1, <3>2
  <2> QED
    BY <1>4, <2>3, <2>4
<1> QED
  BY <1>5, <1>6, <1>7

-----------------------------------------------------------------------------
(* The main thread. *)

\* The start of a chain.
LEMMA GenesisHolds ==
  ASSUME Rooted, NEW n, chain'[n] = <<Genesis>>, side'[n] = {},
         orphans'[n] \in SUBSET Blocks, IsFiniteSet(orphans'[n]),
         \A b \in orphans'[n] : b # Genesis /\ Parent[b] \notin {Genesis, NoBlock}
  PROVE  Holds(n)'
<1>1. <<Genesis>> \in Seq(Blocks)
  BY SyncAssumption, SingleTyped
<1> DEFINE c == <<Genesis>>
<1>2. DOMAIN c = {1} /\ c[1] = Genesis /\ c # <<>>
  OBVIOUS
<1>3. Range(c) = {Genesis}
  BY <1>2 DEF Range
<1>4. Linked(c)
  BY <1>1, <1>2 DEF Linked, Rooted
<1> HIDE DEF c
<1>5. chain'[n] = c
  BY DEF c
<1>6. OnChain(n)' = {Genesis} /\ Known(n)' = {Genesis}
  BY <1>3, <1>5 DEF OnChain, Known
<1> QED
  BY <1>2, <1>4, <1>5, <1>6 DEF Holds

LEMMA MineSync ==
  ASSUME Rooted, IInv, SyncInv, NEW n \in Nodes,
         LoadNext(n) \/ MineBlock(n) \/ SaveMined(n)
  PROVE  NetTyped' /\ ChainTyped' /\ NodesRight'
<1>1. /\ Holds(n) /\ Staged(n) /\ chain[n] \in Seq(Blocks)
      /\ loading[n] \in Seq(Blocks) /\ NetTyped /\ ChainTyped /\ MainTyped
  BY DEF SyncInv, NodesRight, ChainTyped
<1>2. <<>> \in Seq(Blocks)
  BY EmptySeq
<1>3. CASE LoadNext(n)
  <2> DEFINE b == Head(loading[n])
  <2>1. /\ loading[n] # <<>> /\ Connect(n, b, <<>>)
        /\ loading' = [loading EXCEPT ![n] = Tail(@)]
        /\ UNCHANGED <<phase, retry, running, file>>
    BY <1>3 DEF LoadNext, mainVars, procVars
  <2>2. b \in Blocks /\ Tail(loading[n]) \in Seq(Blocks)
    BY <1>1, <2>1, TailTyped
  <2> HIDE DEF b
  <2>3. Connected(n)
    BY <1>1, <1>2, <2>1, <2>2, ConnectRight
  <2>4. FilesTyped(n)
    BY <2>1, FileStays
  <2>5. loading' \in [Nodes -> Seq(Blocks)]
    BY <1>1, <2>1, <2>2 DEF ChainTyped
  <2>6. Aside(n)
    BY <1>1, <2>1 DEF Aside, ChainTyped
  <2>7. Staged(n)'
    BY <1>1, <2>1, <2>3 DEF Staged, Connected
  <2> QED
    BY <2>3, <2>4, <2>5, <2>6, <2>7, StepRight
<1>4. CASE MineBlock(n)
  <2>1. PICK b \in Blocks \ (found \cup {Genesis}) : Connect(n, b, <<>>)
    BY <1>4 DEF MineBlock
  <2>2. /\ phase[n] = "mine" /\ phase' = [phase EXCEPT ![n] = "save"]
        /\ loading[n] = <<>> /\ UNCHANGED <<retry, running, file, loading>>
    BY <1>4 DEF MineBlock, procVars, Unlocked
  <2>3. Connected(n)
    BY <1>1, <1>2, <2>1, ConnectRight
  <2>4. FilesTyped(n)
    BY <2>2, FileStays
  <2>5. phase'[n] = "save" /\ \A m \in Nodes \ {n} : phase'[m] = phase[m]
    BY <1>1, <2>2 DEF MainTyped
  <2>6. Aside(n) /\ Staged(n)' /\ loading' \in [Nodes -> Seq(Blocks)]
    BY <1>1, <2>2, <2>5 DEF Aside, Staged, ChainTyped
  <2> QED
    BY <2>3, <2>4, <2>6, StepRight
<1>5. CASE SaveMined(n)
  <2>1. /\ phase[n] = "save" /\ phase' = [phase EXCEPT ![n] = "mine"]
        /\ loading[n] = <<>> /\ Save(n, chain[n])
        /\ UNCHANGED <<netVars, chainVars, retry, running, loading>>
    BY <1>5 DEF SaveMined, procVars, Unlocked
  <2>2. NetTyped'
    BY <1>1, <2>1 DEF netVars, NetTyped
  <2>3. Connected(n)
    BY <2>1, <2>2, QuietConnected
  <2>4. FilesTyped(n) /\ \A m \in Nodes \ {n} : file'[m] = file[m]
    BY <1>1, <2>1, SaveTyped DEF Holds
  <2>5. phase'[n] = "mine" /\ \A m \in Nodes \ {n} : phase'[m] = phase[m]
    BY <1>1, <2>1 DEF MainTyped
  <2>6. Aside(n) /\ Staged(n)' /\ loading' \in [Nodes -> Seq(Blocks)]
    BY <1>1, <2>1, <2>4, <2>5 DEF Aside, Staged, ChainTyped
  <2> QED
    BY <2>3, <2>4, <2>6, StepRight
<1> QED
  BY <1>3, <1>4, <1>5

LEMMA LoadFailsSync ==
  ASSUME Rooted, IInv, SyncInv, NEW n \in Nodes, LoadFails(n)
  PROVE  NetTyped' /\ ChainTyped' /\ NodesRight'
<1> DEFINE b == Head(loading[n])
<1>1. /\ Holds(n) /\ Staged(n) /\ chain[n] \in Seq(Blocks)
      /\ loading[n] \in Seq(Blocks) /\ NetTyped /\ ChainTyped /\ MainTyped
  BY DEF SyncInv, NodesRight, ChainTyped
<1>2. /\ loading[n] # <<>>
      /\ chain' = [chain EXCEPT ![n] = <<Genesis>>]
      /\ side' = [side EXCEPT ![n] = {}]
      /\ loading' = [loading EXCEPT ![n] = <<>>]
      /\ UNCHANGED <<calls, phase, retry, running, file>>
  BY DEF LoadFails, mainVars, procVars
<1>3. \/ /\ b \notin Known(n) /\ IsOrphan(n, b)
         /\ orphans' = [orphans EXCEPT ![n] = @ \cup {b}]
         /\ SendRandom(n, OrphanRequest(n, b))
      \/ UNCHANGED <<orphans, netVars>>
  BY DEF LoadFails, Ignored
<1>4. b \in Blocks
  BY <1>1, <1>2, TailTyped
<1> HIDE DEF b
<1>5. NetTyped'
  BY <1>1, <1>3, <1>4, RequestTyped, SendRandomTyped DEF netVars, NetTyped
<1>6. chain[n] # <<>>
  BY <1>1, <1>2 DEF Staged
<1>7. Genesis \in Known(n)
  BY <1>1, <1>6, LinkedStarts DEF Holds, Known, OnChain
<1>8. /\ orphans' \in [Nodes -> SUBSET Blocks]
      /\ \A m \in Nodes \ {n} : orphans'[m] = orphans[m]
      /\ \/ orphans'[n] = orphans[n]
         \/ /\ orphans'[n] = orphans[n] \cup {b}
            /\ b \notin Known(n) /\ Parent[b] \notin Known(n) \cup {NoBlock}
  BY <1>1, <1>3, <1>4 DEF ChainTyped, IsOrphan, Extends
<1>9. IsFiniteSet(orphans'[n])
  BY <1>1, <1>8, FS_AddElement DEF Holds
<1>10. \A o \in orphans'[n] : o # Genesis /\ Parent[o] \notin {Genesis, NoBlock}
  BY <1>1, <1>7, <1>8 DEF Holds
<1>11. /\ chain'[n] = <<Genesis>> /\ side'[n] = {} /\ Elsewhere(n)
       /\ <<Genesis>> # <<>>
  BY <1>1, <1>2, <1>8 DEF ChainTyped, Elsewhere
<1>12. Holds(n)'
  BY <1>8, <1>9, <1>10, <1>11, GenesisHolds
<1>13. /\ chain' \in [Nodes -> Seq(Blocks)] /\ loading' \in [Nodes -> Seq(Blocks)]
       /\ side' \in [Nodes -> SUBSET Blocks] /\ calls' \in [Nodes -> Seq(Blocks)]
  <2>1. <<Genesis>> \in Seq(Blocks) /\ <<>> \in Seq(Blocks)
    BY SyncAssumption, SingleTyped, EmptySeq
  <2>2. chain' \in [Nodes -> Seq(Blocks)]
    BY <1>1, <1>2, <2>1 DEF ChainTyped
  <2>3. loading' \in [Nodes -> Seq(Blocks)]
    BY <1>1, <1>2, <2>1 DEF ChainTyped
  <2>4. side' \in [Nodes -> SUBSET Blocks] /\ calls' \in [Nodes -> Seq(Blocks)]
    BY <1>1, <1>2 DEF ChainTyped
  <2> QED
    BY <2>2, <2>3, <2>4
<1>14. Connected(n)
  BY <1>5, <1>8, <1>11, <1>12, <1>13 DEF Connected
<1>15. FilesTyped(n)
  BY <1>2, FileStays
<1>16. loading'[n] = <<>> /\ \A m \in Nodes \ {n} : loading'[m] = loading[m]
  BY <1>1, <1>2 DEF ChainTyped
<1>17. Aside(n) /\ Staged(n)'
  BY <1>1, <1>2, <1>11, <1>16 DEF Aside, Staged
<1> QED
  BY <1>13, <1>14, <1>15, <1>17, StepRight

LEMMA QuietSync ==
  ASSUME Rooted, IInv, SyncInv, NEW n \in Nodes,
         StartLoad(n) \/ StartDownload(n) \/ AskNobody(n) \/ Ask(n) \/ Stall(n)
           \/ DownloadDone(n)
  PROVE  NetTyped' /\ ChainTyped' /\ NodesRight'
<1>1. /\ Holds(n) /\ Staged(n) /\ NetTyped /\ ChainTyped /\ MainTyped
      /\ ChainOnGenesis(file[n]) /\ file[n] \in Seq(Blocks)
  BY DEF SyncInv, NodesRight, ChainTyped
<1>2. UNCHANGED <<chainVars, running, file>>
  BY DEF StartLoad, StartDownload, AskNobody, Ask, Stall, DownloadDone, procVars,
         chainVars
<1>3. NetTyped'
  <2>1. CASE Ask(n)
    <3>1. askFrom[n] \in Parents
      BY <1>1 DEF MainTyped
    <3>2. <<GetBlock(askFrom[n])>> \in Seq(Messages)
      BY <3>1, MessagesTyped, SingleTyped
    <3> QED
      BY <1>1, <2>1, <3>2, SendRandomTyped DEF Ask
  <2>2. CASE UNCHANGED netVars
    BY <1>1, <2>2 DEF netVars, NetTyped
  <2> QED
    BY <2>1, <2>2 DEF StartLoad, StartDownload, AskNobody, Stall, DownloadDone
<1>4. Connected(n)
  BY <1>2, <1>3, QuietConnected
<1>5. FilesTyped(n)
  BY <1>2, FileStays
<1>6. /\ phase \in [Nodes -> Phases] /\ retry \in [Nodes -> 0..MAX_RETRIES]
      /\ loading \in [Nodes -> Seq(Blocks)]
  BY <1>1 DEF MainTyped, ChainTyped
<1>7. /\ \A m \in Nodes \ {n} : phase'[m] = phase[m] /\ retry'[m] = retry[m]
                                /\ loading'[m] = loading[m]
      /\ loading' \in [Nodes -> Seq(Blocks)]
  BY <1>1, <1>6 DEF StartLoad, StartDownload, AskNobody, Ask, Stall, DownloadDone,
                    LeaveLoops
<1>8. Aside(n)
  BY <1>2, <1>7 DEF Aside
<1>9. Staged(n)'
  <2>1. chain'[n] = chain[n] /\ (n \in running' <=> n \in running)
    BY <1>2 DEF chainVars
  <2>2. CASE StartLoad(n)
    <3>1. phase[n] = "load" /\ phase'[n] = "loaded"
      BY <1>6, <2>2 DEF StartLoad
    <3> QED
      BY <1>1, <2>1, <3>1 DEF Staged
  <2>3. CASE StartDownload(n)
    <3>1. phase[n] = "loaded" /\ phase'[n] = "ask" /\ loading'[n] = <<>>
      BY <1>6, <2>3 DEF StartDownload, Unlocked
    <3> QED
      BY <1>1, <2>1, <3>1 DEF Staged
  <2>4. CASE AskNobody(n)
    <3>1. phase[n] = "ask" /\ phase'[n] = "ask" /\ loading'[n] = loading[n]
      BY <2>4 DEF AskNobody
    <3> QED
      BY <1>1, <2>1, <3>1 DEF Staged
  <2>5. CASE Ask(n)
    <3>1. phase[n] = "ask" /\ phase'[n] = "wait" /\ loading'[n] = loading[n]
          /\ retry'[n] = retry[n] /\ retry[n] < MAX_RETRIES
      BY <1>6, <2>5 DEF Ask
    <3> QED
      BY <1>1, <2>1, <3>1 DEF Staged
  <2>6. CASE Stall(n)
    <3>1. phase[n] = "wait" /\ phase'[n] = "ask" /\ loading'[n] = loading[n]
      BY <1>6, <2>6 DEF Stall
    <3> QED
      BY <1>1, <2>1, <3>1 DEF Staged
  <2>7. CASE DownloadDone(n)
    <3>1. phase[n] \in {"ask", "wait"} /\ phase'[n] = "mine" /\ loading'[n] = loading[n]
      BY <1>6, <2>7 DEF DownloadDone, Downloading, LeaveLoops
    <3> QED
      BY <1>1, <2>1, <3>1 DEF Staged
  <2> QED
    BY <2>2, <2>3, <2>4, <2>5, <2>6, <2>7
<1> QED
  BY <1>4, <1>5, <1>7, <1>8, <1>9, StepRight

LEMMA GiveUpSync ==
  ASSUME Rooted, IInv, SyncInv, NEW n \in Nodes, GiveUp(n)
  PROVE  NetTyped' /\ ChainTyped' /\ NodesRight'
<1>1. /\ Holds(n) /\ Staged(n) /\ NetTyped /\ ChainTyped /\ MainTyped
  BY DEF SyncInv, NodesRight
<1>2. /\ phase[n] = "ask" /\ loading[n] = <<>>
      /\ chain' = [chain EXCEPT ![n] = <<>>] /\ side' = [side EXCEPT ![n] = {}]
      /\ orphans' = [orphans EXCEPT ![n] = {}]
      /\ phase' = [phase EXCEPT ![n] = "mine"]
      /\ retry' = [retry EXCEPT ![n] = 0]
      /\ UNCHANGED <<netVars, calls, running, file, loading>>
  BY DEF GiveUp, LeaveLoops, procVars, Unlocked
<1>3. NetTyped'
  BY <1>1, <1>2 DEF netVars, NetTyped
<1>4. /\ chain'[n] = <<>> /\ side'[n] = {} /\ orphans'[n] = {} /\ Elsewhere(n)
      /\ phase'[n] = "mine"
      /\ \A m \in Nodes \ {n} : phase'[m] = phase[m] /\ retry'[m] = retry[m]
  BY <1>1, <1>2 DEF ChainTyped, MainTyped, Elsewhere
<1>5. <<>> \in Seq(Blocks) /\ DOMAIN <<>> = {}
  BY EmptySeq
<1>6. /\ chain' \in [Nodes -> Seq(Blocks)] /\ side' \in [Nodes -> SUBSET Blocks]
      /\ orphans' \in [Nodes -> SUBSET Blocks]
  BY <1>1, <1>2, <1>5 DEF ChainTyped
<1>7. Linked(<<>>) /\ Range(<<>>) = {}
  BY <1>5 DEF Linked, Range
<1>8. Holds(n)'
  BY <1>4, <1>7, FS_EmptySet DEF Holds, OnChain, Known
<1>9. FilesTyped(n) /\ Aside(n) /\ Staged(n)'
  BY <1>1, <1>2, <1>4, FileStays DEF Aside, Staged
<1>10. \A m \in Nodes : Holds(m)'
  <2>1. ASSUME NEW m \in Nodes, m # n PROVE Holds(m)'
    BY <1>4, <2>1 DEF Elsewhere, SyncInv, NodesRight, Holds, Known, OnChain
  <2> QED
    BY <1>8, <2>1
<1>11. ChainTyped'
  BY <1>1, <1>2, <1>6 DEF ChainTyped
<1>12. ASSUME NEW m \in Nodes PROVE Staged(m)' /\ ChainOnGenesis(file[m])'
  <2>1. CASE m = n
    BY <1>9, <2>1 DEF FilesTyped
  <2>2. CASE m # n
    BY <1>9, <1>4, <2>2 DEF Elsewhere, Aside, Staged, SyncInv, NodesRight
  <2> QED
    BY <2>1, <2>2
<1> QED
  BY <1>3, <1>10, <1>11, <1>12 DEF NodesRight

-----------------------------------------------------------------------------
(* Starts and crashes. *)

LEMMA BootSync ==
  ASSUME Rooted, IInv, SyncInv, NEW n \in Nodes, Boot(n)
  PROVE  NetTyped' /\ ChainTyped' /\ NodesRight'
<1>1. /\ Holds(n) /\ Staged(n) /\ NetTyped /\ ChainTyped /\ MainTyped
  BY DEF SyncInv, NodesRight
<1>2. /\ n \notin running /\ running' = running \cup {n}
      /\ phase' = [phase EXCEPT ![n] = IF n \in Miners THEN "load" ELSE "shell"]
      /\ UNCHANGED <<chainVars, retry, file, loading, dropped>>
  BY DEF Boot
<1>3. NetTyped'
  <2>1. \A w \in Links : <<Hello(w[1])>> \in Seq(Messages)
    BY MessagesTyped, SingleTyped
  <2>2. wire' = [w \in Links |-> IF \/ w[1] = n /\ w[2] \in running
                                    \/ w[2] = n /\ w[1] \in running
                                 THEN <<Hello(w[1])>> ELSE wire[w]]
    BY <1>1 DEF Boot, NetTyped
  <2>3. wire' \in [Links -> Seq(Messages)]
    BY <1>1, <2>1, <2>2 DEF NetTyped
  <2> QED
    BY <1>1, <1>2, <2>3 DEF NetTyped
<1>4. Connected(n)
  BY <1>2, <1>3, QuietConnected
<1>5. FilesTyped(n)
  BY <1>2, FileStays
<1>6. /\ phase'[n] \in {"load", "shell"}
      /\ \A m \in Nodes \ {n} : phase'[m] = phase[m]
  BY <1>1, <1>2 DEF MainTyped
<1>7. Aside(n) /\ loading' \in [Nodes -> Seq(Blocks)]
  BY <1>1, <1>2, <1>6 DEF Aside, ChainTyped
<1>8. Staged(n)'
  <2>1. phase[n] = "off" /\ chain[n] # <<>> /\ loading[n] = <<>>
    BY <1>1, <1>2 DEF Staged
  <2> QED
    BY <1>2, <1>6, <2>1 DEF Staged, chainVars
<1> QED
  BY <1>4, <1>5, <1>7, <1>8, StepRight

LEMMA CrashSync ==
  ASSUME Rooted, IInv, SyncInv, NEW n \in Nodes, Crash(n)
  PROVE  NetTyped' /\ ChainTyped' /\ NodesRight'
<1>1. /\ Holds(n) /\ Staged(n) /\ NetTyped /\ ChainTyped /\ MainTyped
  BY DEF SyncInv, NodesRight
<1>2. /\ running' = running \ {n}
      /\ chain' = [chain EXCEPT ![n] = <<Genesis>>]
      /\ side' = [side EXCEPT ![n] = {}] /\ orphans' = [orphans EXCEPT ![n] = {}]
      /\ calls' = [calls EXCEPT ![n] = <<>>]
      /\ loading' = [loading EXCEPT ![n] = <<>>]
      /\ phase' = [phase EXCEPT ![n] = "off"] /\ retry' = [retry EXCEPT ![n] = 0]
      /\ UNCHANGED <<file, dropped>>
  BY DEF Crash
<1>3. NetTyped'
  <2>1. wire' = [w \in Links |-> IF n \in {w[1], w[2]} THEN <<>> ELSE wire[w]]
    BY <1>1 DEF Crash, NetTyped
  <2>2. wire' \in [Links -> Seq(Messages)]
    BY <1>1, <2>1, EmptySeq DEF NetTyped
  <2> QED
    BY <1>1, <1>2, <2>2 DEF NetTyped
<1>4. <<Genesis>> \in Seq(Blocks) /\ <<>> \in Seq(Blocks) /\ <<Genesis>> # <<>>
  BY SyncAssumption, SingleTyped, EmptySeq
<1>5. chain' \in [Nodes -> Seq(Blocks)] /\ calls' \in [Nodes -> Seq(Blocks)]
  BY <1>1, <1>2, <1>4 DEF ChainTyped
<1>6. /\ side' \in [Nodes -> SUBSET Blocks] /\ orphans' \in [Nodes -> SUBSET Blocks]
      /\ loading' \in [Nodes -> Seq(Blocks)]
  BY <1>1, <1>2, <1>4 DEF ChainTyped
<1>7. /\ chain'[n] = <<Genesis>> /\ side'[n] = {} /\ orphans'[n] = {}
      /\ loading'[n] = <<>> /\ Elsewhere(n)
      /\ \A m \in Nodes \ {n} : loading'[m] = loading[m]
  BY <1>1, <1>2 DEF ChainTyped, Elsewhere
<1>8. /\ phase'[n] = "off"
      /\ \A m \in Nodes \ {n} : phase'[m] = phase[m] /\ retry'[m] = retry[m]
  BY <1>1, <1>2 DEF MainTyped
<1>9. Holds(n)'
  BY <1>7, FS_EmptySet, GenesisHolds
<1>10. Connected(n)
  BY <1>3, <1>4, <1>5, <1>6, <1>7, <1>9 DEF Connected
<1>11. FilesTyped(n)
  BY <1>2, FileStays
<1>12. Aside(n)
  BY <1>2, <1>7, <1>8 DEF Aside
<1>13. Staged(n)'
  BY <1>4, <1>7, <1>8 DEF Staged
<1> QED
  BY <1>6, <1>10, <1>11, <1>12, <1>13, StepRight

-----------------------------------------------------------------------------

LEMMA InitSync == Rooted /\ Init => SyncInv
<1> SUFFICES ASSUME Rooted, Init PROVE SyncInv
  OBVIOUS
<1>1. /\ Files \subseteq [Nodes -> Seq(Blocks)] /\ Genesis \in Blocks
      /\ Ready \subseteq Nodes /\ MAX_RETRIES \in Nat
  BY SyncAssumption
<1>0. file \in Files /\ file \in [Nodes -> Seq(Blocks)]
  BY <1>1 DEF Init
<1>2. <<Genesis>> \in Seq(Blocks) /\ <<>> \in Seq(Blocks)
  BY <1>1, SingleTyped, EmptySeq
<1>3. NetTyped
  BY EmptySeq DEF Init, NetTyped, Links
<1>4. MainTyped
  <2>1. \A f \in Files : \A n \in Nodes : Range(f[n]) \subseteq Blocks
    BY <1>1, RangeTyped
  <2>2. found \subseteq Blocks /\ cleared \subseteq Nodes
    BY <2>1 DEF Init
  <2> QED
    BY <1>1, <2>2, NoJobTyped DEF Init, MainTyped, Phases, Parents
<1>5. ASSUME NEW n \in Nodes
      PROVE  Linked(chain[n]) /\ chain[n] # <<>>
  <2> DEFINE f == IF n \in Ready THEN file[n] ELSE <<>>
             c == <<Genesis>> \o f
             l == Len(f)
  <2>1. f \in Seq(Blocks) /\ ChainOnGenesis(f)
    BY <1>0, <1>2, EmptySeq DEF Rooted, ChainOnGenesis
  <2>2. chain[n] = c
    BY DEF Init
  <2> HIDE DEF f
  <2>3. l \in Nat /\ DOMAIN f = 1..l
    BY <2>1, LenProperties
  <2>4. /\ c \in Seq(Blocks) /\ Len(c) = 1 + l
        /\ \A i \in 1..(1 + l) : c[i] = IF i <= 1 THEN <<Genesis>>[i] ELSE f[i - 1]
    <3> DEFINE g == <<Genesis>>
    <3>1. g \in Seq(Blocks) /\ Len(g) = 1
      BY <1>2
    <3> HIDE DEF g
    <3>2. /\ g \o f \in Seq(Blocks) /\ Len(g \o f) = Len(g) + Len(f)
          /\ \A i \in 1 .. Len(g) + Len(f) :
               (g \o f)[i] = IF i <= Len(g) THEN g[i] ELSE f[i - Len(g)]
      BY <2>1, <3>1, ConcatProperties
    <3> QED
      BY <3>1, <3>2 DEF g
  <2>5. DOMAIN c = 1..(1 + l)
    BY <2>4, LenProperties
  <2> HIDE DEF c, l
  <2>6. c[1] = Genesis
    BY <2>3, <2>4
  <2>7. ASSUME NEW i \in DOMAIN c
        PROVE  Parent[c[i]] = IF i = 1 THEN NoBlock ELSE c[i - 1]
    <3>1. CASE i = 1
      BY <1>1, <2>6, <3>1 DEF Rooted
    <3>2. CASE i # 1
      <4>1. /\ i \in 1..(1 + l) /\ ~ (i <= 1) /\ i - 1 \in 1..l /\ i - 1 \in 1..(1 + l)
            /\ (i - 1 = 1 <=> i = 2)
            /\ i # 2 => ~ (i - 1 <= 1)
        BY <2>3, <2>5, <3>2
      <4>2. c[i] = f[i - 1]
        BY <2>4, <4>1
      <4>3. Parent[f[i - 1]] = IF i - 1 = 1 THEN Genesis ELSE f[(i - 1) - 1]
        BY <2>1, <2>3, <4>1 DEF ChainOnGenesis
      <4>4. i # 2 => c[i - 1] = f[(i - 1) - 1]
        BY <2>4, <4>1
      <4> QED
        BY <2>6, <3>2, <4>1, <4>2, <4>3, <4>4
    <3> QED
      BY <3>1, <3>2
  <2>8. c # <<>>
    BY <2>3, <2>4, EmptySeq
  <2> QED
    BY <2>2, <2>4, <2>7, <2>8 DEF Linked
<1>6. ChainTyped
  <2>1. chain \in [Nodes -> Seq(Blocks)]
    <3>1. chain = [n \in Nodes |-> chain[n]]
      BY DEF Init
    <3>2. \A n \in Nodes : chain[n] \in Seq(Blocks)
      BY <1>5 DEF Linked
    <3> QED
      BY <3>1, <3>2
  <2> QED
    BY <1>0, <1>1, <1>2, <2>1 DEF Init, ChainTyped
<1>7. ASSUME NEW n \in Nodes
      PROVE  Holds(n) /\ Staged(n) /\ ChainOnGenesis(file[n])
  <2>1. side[n] = {} /\ orphans[n] = {} /\ loading[n] = <<>> /\ file \in Files
        /\ phase[n] # "wait" /\ (n \notin running => phase[n] = "off")
    BY DEF Init
  <2>2. Holds(n)
    BY <1>5, <2>1, FS_EmptySet DEF Holds
  <2> QED
    BY <1>5, <2>1, <2>2 DEF Staged, Rooted
<1> QED
  BY <1>3, <1>4, <1>6, <1>7 DEF SyncInv, NodesRight

LEMMA NextSync ==
  ASSUME Rooted, IInv, SyncInv, [Next]_vars
  PROVE  SyncInv'
<1>1. CASE Next
  <2>1. PICK n \in Nodes : Boot(n) \/ Crash(n) \/ IoThread(n) \/ MainThread(n)
                             \/ MineBlock(n)
    BY <1>1 DEF Next
  <2>2. CASE \E p \in Nodes \ {n} : Handle(n, p)
    BY <2>2, HandleMain, HandleSync DEF SyncInv
  <2>3. CASE ReadError(n) \/ Answer(n)
    BY <2>3, IoMain, AnswerSync DEF SyncInv
  <2>4. CASE ConnectReceived(n) \/ FinishReceived(n) \/ TryOrphan(n)
    BY <2>4, IoMain, ReceivedSync DEF SyncInv
  <2>5. CASE LoadNext(n) \/ MineBlock(n) \/ SaveMined(n)
    <3>1. MainTyped'
      BY <2>5, DownloadMain DEF MainThread, Download
    <3> QED
      BY <2>5, <3>1, MineSync DEF SyncInv
  <2>6. CASE LoadFails(n) \/ GiveUp(n)
    <3>1. MainTyped'
      BY <2>6, DownloadMain DEF MainThread, Download
    <3> QED
      BY <2>6, <3>1, LoadFailsSync, GiveUpSync DEF SyncInv
  <2>7. CASE StartLoad(n) \/ StartDownload(n) \/ AskNobody(n) \/ Ask(n) \/ Stall(n)
               \/ DownloadDone(n)
    <3>1. MainTyped'
      BY <2>7, DownloadMain DEF MainThread, Download
    <3> QED
      BY <2>7, <3>1, QuietSync DEF SyncInv
  <2>8. CASE Boot(n) \/ Crash(n)
    BY <2>8, DownloadMain, BootSync, CrashSync DEF SyncInv
  <2> QED
    BY <2>1, <2>2, <2>3, <2>4, <2>5, <2>6, <2>7, <2>8
    DEF IoThread, MainThread, Download
<1>2. CASE UNCHANGED vars
  <2>1. NetTyped' /\ MainTyped'
    BY <1>2, MainStays DEF vars, netVars, NetTyped, SyncInv
  <2>2. UNCHANGED <<chainVars, phase, retry, running, file, loading>>
    BY <1>2 DEF vars, mainVars, procVars
  <2> QED
    BY <2>1, <2>2, NothingMoves DEF SyncInv
<1> QED
  BY <1>1, <1>2

\* What each node holds stays a chain with its branches, orphans and file.
THEOREM SyncInvariance == ASSUME Rooted PROVE Spec => []SyncInv
<1>1. Init => SyncInv
  BY InitSync
<1>2. IInv /\ SyncInv /\ [Next]_vars => SyncInv'
  BY NextSync
<1> QED
  BY <1>1, <1>2, Invariance, PTL DEF Spec

LEMMA TypesRight == IInv /\ SyncInv => TypeOK
<1> SUFFICES ASSUME IInv, SyncInv PROVE TypeOK
  OBVIOUS
<1>1. /\ running \subseteq Nodes /\ boots \in [Nodes -> Nat]
      /\ \A n \in Nodes : conns[n] \cup minerConns[n] \subseteq Connections
  BY DEF IInv, ListsTyped
<1>2. ASSUME NEW w \in DOMAIN wire, NEW i \in DOMAIN wire[w]
      PROVE  wire[w][i].type \in {"hello", "getBlock", "block", "inv"}
  <2>1. wire[w] \in Seq(Messages)
    BY DEF SyncInv, NetTyped
  <2>2. wire[w][i] \in Messages
    BY <2>1, LenProperties, ElementOfSeq
  <2> QED
    BY <2>2, FieldsTyped
<1>3. ASSUME NEW n \in Nodes
      PROVE  /\ Range(chain[n]) \subseteq Blocks
             /\ side[n] \cup orphans[n] \subseteq Blocks \ Range(chain[n])
             /\ job[n].kind \in {"none", "block", "inv", "answer"}
  <2>1. Holds(n) /\ chain[n] \in Seq(Blocks) /\ job[n] \in Jobs
    BY DEF SyncInv, NodesRight, ChainTyped, MainTyped
  <2>2. Range(chain[n]) \subseteq Blocks
    BY <2>1, RangeTyped
  <2> QED
    BY <2>1, <2>2, WorkFields DEF Holds, OnChain, Known
<1>4. /\ file \in [Nodes -> Seq(Blocks)] /\ dropped \subseteq Blocks
      /\ calls \in [Nodes -> Seq(Blocks)] /\ loading \in [Nodes -> Seq(Blocks)]
  BY DEF SyncInv, ChainTyped, NetTyped
<1>5. /\ ibdDone \in [Nodes -> BOOLEAN]
      /\ phase \in [Nodes -> Phases]
      /\ askFrom \in [Nodes -> Blocks \cup {NoBlock}]
      /\ retry \in [Nodes -> 0..MAX_RETRIES]
      /\ found \subseteq Blocks /\ cleared \subseteq Nodes
  BY DEF SyncInv, MainTyped, Parents
<1> QED
  BY <1>1, <1>2, <1>3, <1>4, <1>5 DEF TypeOK, Phases

(***************************************************************************)
(* If the genesis block is the only one that names no other, every         *)
(* variable keeps its type, and no block is in the chain and in a branch   *)
(* or among the orphans as well (chain.hpp, net_client.hpp:34).            *)
(***************************************************************************)
THEOREM TypeCorrect == ASSUME Rooted PROVE Spec => []TypeOK
<1>1. IInv /\ SyncInv => TypeOK
  BY TypesRight
<1> QED
  BY <1>1, Invariance, SyncInvariance, PTL

(***************************************************************************)
(* In whatever order loads, downloads, blocks of peers, mined blocks and   *)
(* crashes come, every file that is saved starts with a block on the       *)
(* genesis block (chain.cpp:652, 713): only a block that names none, mined *)
(* after Chain::reset has left no block to name, makes one that cannot be  *)
(* loaded again.                                                           *)
(***************************************************************************)
THEOREM FilesRestore == ASSUME Rooted PROVE Spec => []Restorable
<1>1. SyncInv => Restorable
  <2> SUFFICES ASSUME SyncInv, NEW n \in Nodes, file[n] # <<>>
               PROVE  Parent[file[n][1]] = Genesis
    BY DEF Restorable
  <2>1. ChainOnGenesis(file[n]) /\ file[n] \in Seq(Blocks)
    BY DEF SyncInv, NodesRight, ChainTyped
  <2>2. 1 \in DOMAIN file[n]
    BY <2>1, RangeTyped, LenProperties
  <2> QED
    BY <2>1, <2>2 DEF ChainOnGenesis
<1> QED
  BY <1>1, SyncInvariance, PTL

=============================================================================
