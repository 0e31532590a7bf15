-------------------------------- MODULE Sync --------------------------------
(***************************************************************************)
(* Nodes that give each other their blocks: net/net_client.cpp, the        *)
(* handlers of PeerHelloMsg, BlockInfoMsg, GetBlockMsg and InvMsg, and the *)
(* start of a node: tiny-sandbox/src/main.cpp and PoW::mine_forever.       *)
(*                                                                         *)
(* A node has two threads.  The io thread handles one message at a time    *)
(* ("job"); the main thread loads the file, runs the initial download and  *)
(* mines ("phase").  Both connect blocks, one block a step; Chain::mutex   *)
(* is held from a block to the last orphan it releases ("calls") and for   *)
(* the whole of a load ("loading").  What connect_block does to a single   *)
(* node is the subject of module Chain: here a block is refused outright,  *)
(* before its parent is looked for (chain.cpp:100-153), or it is valid     *)
(* wherever it stands.  All are of equal difficulty, so work is length,    *)
(* and a side branch is the path from its fork.                            *)
(***************************************************************************)
EXTENDS Naturals, FiniteSets, SequencesExt

CONSTANTS Nodes, Miners,   \* all nodes, and those run with --node_type miner
          Blocks, Genesis, NoBlock,
          Parent,          \* prev_block_hash; NoBlock is the empty string
          Finder,          \* the node that may mine each block
          Refused,         \* what each node's validate_block throws out
          Files,           \* what chain.dat of the nodes may hold at first
          Ready,           \* nodes that run and mine at first, without peers
          CHUNK_SIZE,      \* blocks in an InvMsg
          MAX_RETRIES,     \* of the initial download
          Steady,          \* nodes whose process never dies
          MaxCrashes       \* bound: how often a process may die

\* A hash cannot be known before what it is the hash of: no circle of parents.
ASSUME SyncAssumption ==
  /\ Miners \subseteq Nodes /\ Steady \subseteq Nodes /\ Ready \subseteq Miners
  /\ Genesis \in Blocks /\ NoBlock \notin Blocks
  /\ Parent \in [Blocks -> Blocks \cup {NoBlock}]
  /\ \A S \in SUBSET Blocks : S # {} => \E b \in S : Parent[b] \notin S
  /\ Finder \in [Blocks \ {Genesis} -> Miners]
  /\ Refused \in [Nodes -> SUBSET Blocks]
  /\ Files \subseteq [Nodes -> Seq(Blocks)]
  /\ {CHUNK_SIZE, MAX_RETRIES, MaxCrashes} \subseteq Nat

VARIABLES
  running,   \* nodes whose process runs
  boots,     \* how often each process has died
  conns,     \* NetClient::connections: the peer, and which connection to it
  minerConns,\* NetClient::miner_connections
  wire,      \* what is under way from one node to another
  dropped,   \* blocks announced into a connection that was dead
  chain,     \* Chain::active_chain
  side,      \* the blocks in Chain::side_branches
  orphans,   \* Chain::orphan_blocks
  file,      \* chain.dat
  ibdDone,   \* Chain::initial_block_download_complete
  phase,     \* where the main thread is
  askFrom,   \* tip_id of mine_forever
  retry,     \* retry of mine_forever
  job,       \* the message the io thread is at
  calls,     \* orphans the running connect_block has still to try
  loading,   \* blocks of the file the running load has still to connect
  found,     \* blocks mined so far
  cleared    \* nodes that threw their chain away and run on

listVars  == <<conns, minerConns>>
netVars   == <<listVars, wire, dropped>>
chainVars == <<chain, side, orphans, calls>>
mainVars  == <<phase, askFrom, retry>>
procVars  == <<running, boots>>
logVars   == <<found, cleared>>
vars == <<netVars, chainVars, mainVars, procVars, logVars,
          file, ibdDone, job, loading>>

-----------------------------------------------------------------------------
(* Connections. *)

\* The connection between n and p, new whenever one of them is restarted.
Con(n, p) == [peer |-> p, gen |-> boots[n] + boots[p]]

IsLive(n, c) == c.peer \in running /\ c = Con(n, c.peer)

\* Mutant of MinerConnsWithout: only connections is cleaned up.
MinerConnsKept(n, gone) == minerConns

\* remove_connection takes it out of both lists.
ConnsWithout(n, gone) == [conns EXCEPT ![n] = @ \ gone]
MinerConnsWithout(n, gone) == [minerConns EXCEPT ![n] = @ \ gone]

\* The elements of s at these positions, in their order.
Picked(s, at) ==
  [k \in 1..Cardinality(at) |->
     s[CHOOSE i \in at : Cardinality({j \in at : j <= i}) = k]]

\* Everything is written to the end of the wire of its connection.
Written(n, msgs, to) ==
  [w \in DOMAIN wire |->
     IF w[1] # n THEN wire[w]
     ELSE wire[w] \o Picked(msgs, {i \in DOMAIN msgs : to[i] = Con(n, w[2])})]

\* A write to a connection that is gone fails and removes it.
SendTo(n, msgs, to) ==
  LET gone == {c \in Range(to) : ~IsLive(n, c)}
  IN  /\ wire' = Written(n, msgs, to)
      /\ conns' = ConnsWithout(n, gone)
      /\ minerConns' = MinerConnsWithout(n, gone)
      /\ dropped' = dropped \cup
           {msgs[i].block : i \in {j \in DOMAIN msgs :
                                    msgs[j].type = "block" /\ to[j] \in gone}}

\* send_msg_random for each message: to one miner, none if there is none.
SendRandom(n, msgs) ==
  IF minerConns[n] = {} \/ msgs = <<>> THEN UNCHANGED netVars
  ELSE \E to \in [DOMAIN msgs -> minerConns[n]] :
         /\ \A i, j \in DOMAIN msgs :
              i # j /\ to[i] = to[j] => IsLive(n, to[i])
         /\ SendTo(n, msgs, to)

Hello(n)        == [type |-> "hello", isMiner |-> n \in Miners]
GetBlock(b)     == [type |-> "getBlock", from |-> b]
BlockInfo(b)    == [type |-> "block", block |-> b]
Inv(bs)         == [type |-> "inv", blocks |-> bs]
NoJob           == [kind |-> "none"]

-----------------------------------------------------------------------------
(* connect_block. *)

PathTo[b \in Blocks] ==
  IF Parent[b] = NoBlock THEN <<b>> ELSE Append(PathTo[Parent[b]], b)

OnChain(n) == Range(chain[n])
Known(n) == OnChain(n) \cup side[n]
Tip(n) == IF chain[n] = <<>> THEN NoBlock ELSE Last(chain[n])

\* A block without a previous one is taken for one on the tip.
Extends(n, b) == Parent[b] \in {NoBlock, Tip(n)}

\* connect_block returns at once: it has the block, or throws it out.
Ignored(n, b) == b \in Known(n) \cup Refused[n]

IsOrphan(n, b) == ~Extends(n, b) /\ Parent[b] \notin Known(n)
Accepted(n, b) == ~Ignored(n, b) /\ ~IsOrphan(n, b)

\* The blocks from the fork to b, and the chain with them.
Branch(n, b) ==
  LET path  == PathTo[b]
      first == CHOOSE i \in 2..Len(path) : /\ path[i - 1] \in OnChain(n)
                                           /\ path[i] \notin OnChain(n)
  IN  SubSeq(path, first, Len(path))
Rival(n, b) ==
  LET fork == Parent[Branch(n, b)[1]]
      at   == CHOOSE i \in DOMAIN chain[n] : chain[n][i] = fork
  IN  SubSeq(chain[n], 1, at) \o Branch(n, b)

Reorganises(n, b) == ~Extends(n, b) /\ Len(Rival(n, b)) > Len(chain[n])

\* The active chain once b is connected.
ChainWith(n, b) ==
  IF Extends(n, b) THEN Append(chain[n], b)
  ELSE IF Reorganises(n, b) THEN Rival(n, b)
  ELSE chain[n]

\* Mutant of SideWith: an adopted branch stays in side_branches.
SideWithAll(n, b) == side[n] \cup {b}

\* Its side branches: everything known that is not on that chain.
SideWith(n, b) == (Known(n) \cup {b}) \ Range(ChainWith(n, b))

\* Every block of the branch as it connects, then b, again.
Announced(n, b) ==
  (IF Reorganises(n, b)
   THEN [i \in DOMAIN Branch(n, b) |-> BlockInfo(Branch(n, b)[i])] ELSE <<>>)
    \o <<BlockInfo(b)>>

\* The parent of a new orphan is asked for, once.
OrphanRequest(n, b) ==
  IF b \in orphans[n] THEN <<>> ELSE <<GetBlock(Parent[b])>>

Released(n, b) == {o \in orphans[n] : Parent[o] = b}

\* What connect_block does with b; back is what the caller has yet to try.
Connect(n, b, back) ==
  \/ /\ Ignored(n, b)
     /\ calls' = [calls EXCEPT ![n] = back]
     /\ UNCHANGED <<chain, side, orphans, netVars>>
  \/ /\ ~Ignored(n, b) /\ IsOrphan(n, b)
     /\ orphans' = [orphans EXCEPT ![n] = @ \cup {b}]
     /\ SendRandom(n, OrphanRequest(n, b))
     /\ calls' = [calls EXCEPT ![n] = back]
     /\ UNCHANGED <<chain, side>>
  \/ /\ Accepted(n, b)
     /\ chain' = [chain EXCEPT ![n] = ChainWith(n, b)]
     /\ side' = [side EXCEPT ![n] = SideWith(n, b)]
     /\ orphans' = [orphans EXCEPT ![n] = @ \ Released(n, b)]
     /\ SendRandom(n, Announced(n, b))
     /\ \E kids \in SetToSeqs(Released(n, b)) :
          calls' = [calls EXCEPT ![n] = kids \o back]

\* save_to_disk writes from height 1; with no block at all, what no load reads.
Save(n, blocks) ==
  file' = [file EXCEPT ![n] = IF blocks = <<>> THEN <<>> ELSE Tail(blocks)]

\* Chain::mutex is free.
Unlocked(n) == calls[n] = <<>> /\ loading[n] = <<>>

\* try_connect_orphans, in whichever thread.
TryOrphan(n) ==
  /\ calls[n] # <<>>
  /\ LET b == Head(calls[n])
     IN  /\ Connect(n, b, Tail(calls[n]))
         /\ IF Accepted(n, b) THEN Save(n, ChainWith(n, b)) ELSE UNCHANGED file
  /\ UNCHANGED <<mainVars, procVars, logVars, ibdDone, job, loading>>

-----------------------------------------------------------------------------
(* The io thread. *)

\* connect and handle_accept: both ends list the connection and say hello.
Listed(n) ==
  [m \in Nodes |->
     IF m = n THEN {Con(n, p) : p \in running}
     ELSE conns[m] \cup IF m \in running THEN {Con(m, n)} ELSE {}]

Boot(n) ==
  /\ n \notin running
  /\ running' = running \cup {n}
  /\ conns' = Listed(n)
  /\ wire' = [w \in DOMAIN wire |->
                IF \/ w[1] = n /\ w[2] \in running
                   \/ w[2] = n /\ w[1] \in running
                THEN <<Hello(w[1])>> ELSE wire[w]]
  /\ phase' = [phase EXCEPT ![n] = IF n \in Miners THEN "load" ELSE "shell"]
  /\ UNCHANGED <<boots, minerConns, dropped, chainVars, askFrom, retry, logVars,
                 file, ibdDone, job, loading>>

\* A process dies: only the file is left, and its peers have still to notice.
Crash(n) ==
  /\ n \in running \ Steady /\ boots[n] < MaxCrashes
  /\ running' = running \ {n}
  /\ boots' = [boots EXCEPT ![n] = @ + 1]
  /\ conns' = [conns EXCEPT ![n] = {}]
  /\ minerConns' = [minerConns EXCEPT ![n] = {}]
  /\ wire' = [w \in DOMAIN wire |-> IF n \in {w[1], w[2]} THEN <<>> ELSE wire[w]]
  /\ chain' = [chain EXCEPT ![n] = <<Genesis>>]
  /\ side' = [side EXCEPT ![n] = {}]
  /\ orphans' = [orphans EXCEPT ![n] = {}]
  /\ calls' = [calls EXCEPT ![n] = <<>>]
  /\ loading' = [loading EXCEPT ![n] = <<>>]
  /\ job' = [job EXCEPT ![n] = NoJob]
  /\ ibdDone' = [ibdDone EXCEPT ![n] = FALSE]
  /\ phase' = [phase EXCEPT ![n] = "off"]
  /\ askFrom' = [askFrom EXCEPT ![n] = NoBlock]
  /\ retry' = [retry EXCEPT ![n] = 0]
  /\ cleared' = cleared \ {n}
  /\ UNCHANGED <<file, dropped, found>>

\* A read from a connection that is gone ends in an error.
ReadError(n) ==
  /\ job[n] = NoJob
  /\ \E c \in conns[n] :
       /\ ~IsLive(n, c)
       /\ conns' = ConnsWithout(n, {c})
       /\ minerConns' = MinerConnsWithout(n, {c})
  /\ UNCHANGED <<wire, dropped, chainVars, mainVars, procVars, logVars, file, ibdDone,
                 job, loading>>

\* The io thread takes the next message of a connection it still has.
Take(n, p, type) ==
  /\ n \in running /\ job[n] = NoJob
  /\ Con(n, p) \in conns[n]
  /\ wire[<<p, n>>] # <<>>
  /\ Head(wire[<<p, n>>]).type = type
  /\ wire' = [wire EXCEPT ![<<p, n>>] = Tail(@)]

HandleHello(n, p) ==
  /\ Take(n, p, "hello")
  /\ minerConns' =
       IF Head(wire[<<p, n>>]).isMiner
       THEN [minerConns EXCEPT ![n] = @ \cup {Con(n, p)}] ELSE minerConns
  /\ UNCHANGED <<conns, dropped, chainVars, mainVars, procVars, logVars, file, ibdDone,
                 job, loading>>

HandleBlockInfo(n, p) ==
  /\ Take(n, p, "block")
  /\ job' = [job EXCEPT ![n] =
               [kind |-> "block", con |-> Con(n, p), any |-> FALSE,
                rest |-> <<Head(wire[<<p, n>>]).block>>]]
  /\ UNCHANGED <<listVars, dropped, chainVars, mainVars, procVars, logVars,
                 file, ibdDone, loading>>

NewIn(n, bs) == Picked(bs, {i \in DOMAIN bs : bs[i] \notin Known(n)})

\* Mutant of NothingNew: only a running download is ended.
EndsOnce(n, bs) == NewIn(n, bs) = <<>> /\ ~ibdDone[n]

NothingNew(n, bs) == NewIn(n, bs) = <<>>

\* An InvMsg without a new block ends the initial download.
HandleInv(n, p) ==
  /\ Take(n, p, "inv") /\ Unlocked(n)
  /\ LET sent == Head(wire[<<p, n>>]).blocks
     IN  IF NothingNew(n, sent)
         THEN /\ ibdDone' = [ibdDone EXCEPT ![n] = TRUE]
              /\ Save(n, chain[n])
              /\ UNCHANGED job
         ELSE /\ job' = [job EXCEPT ![n] =
                           [kind |-> "inv", con |-> Con(n, p), any |-> FALSE,
                            rest |-> NewIn(n, sent)]]
              /\ UNCHANGED <<file, ibdDone>>
  /\ UNCHANGED <<listVars, dropped, chainVars, mainVars, procVars, logVars,
                 loading>>

\* Mutant of AnswerFrom: an unknown block is taken for the tip.
AnswerFromTip(n, b) == Len(chain[n]) + 1

\* Position in the chain after the block asked for; height 1 is position 2.
AnswerFrom(n, b) ==
  IF b \in OnChain(n)
  THEN 1 + CHOOSE i \in DOMAIN chain[n] : chain[n][i] = b ELSE 2

\* The block is located in one critical section ...
HandleGetBlock(n, p) ==
  /\ Take(n, p, "getBlock") /\ Unlocked(n)
  /\ job' = [job EXCEPT ![n] =
               [kind |-> "answer", con |-> Con(n, p),
                from |-> AnswerFrom(n, Head(wire[<<p, n>>]).from)]]
  /\ UNCHANGED <<listVars, dropped, chainVars, mainVars, procVars, logVars,
                 file, ibdDone, loading>>

\* ... and those after it are copied in another.
Answer(n) ==
  /\ job[n].kind = "answer" /\ Unlocked(n)
  /\ LET from == job[n].from
         to   == Min({from + CHUNK_SIZE - 1, Len(chain[n])})
     IN  SendTo(n, <<Inv(SubSeq(chain[n], from, to))>>, <<job[n].con>>)
  /\ job' = [job EXCEPT ![n] = NoJob]
  /\ UNCHANGED <<chainVars, mainVars, procVars, logVars, file, ibdDone, loading>>

\* The next block of the message; the mutex is free between two of them.
ConnectReceived(n) ==
  /\ job[n].kind \in {"block", "inv"} /\ job[n].rest # <<>>
  /\ Unlocked(n)
  /\ LET b == Head(job[n].rest)
     IN  /\ Connect(n, b, <<>>)
         /\ job' = [job EXCEPT ![n].rest = Tail(@),
                               ![n].any = @ \/ Accepted(n, b)]
  /\ UNCHANGED <<mainVars, procVars, logVars, file, ibdDone, loading>>

\* The save, and after an InvMsg the request for what follows the new tip.
FinishReceived(n) ==
  /\ job[n].kind \in {"block", "inv"} /\ job[n].rest = <<>>
  /\ Unlocked(n)
  /\ IF job[n].any THEN Save(n, chain[n]) ELSE UNCHANGED file
  /\ IF job[n].kind = "inv" /\ chain[n] # <<>>
     THEN SendTo(n, <<GetBlock(Tip(n))>>, <<job[n].con>>)
     ELSE UNCHANGED netVars
  /\ job' = [job EXCEPT ![n] = NoJob]
  /\ UNCHANGED <<chainVars, mainVars, procVars, logVars, ibdDone, loading>>

-----------------------------------------------------------------------------
(* The main thread of a miner: mine_forever. *)

\* load_from_disk, with no file or with one.
StartLoad(n) ==
  /\ phase[n] = "load" /\ Unlocked(n)
  /\ loading' = [loading EXCEPT ![n] = file[n]]
  /\ phase' = [phase EXCEPT ![n] = "loaded"]
  /\ UNCHANGED <<netVars, chainVars, askFrom, retry, procVars, logVars, file,
                 ibdDone, job>>

LoadNext(n) ==
  /\ loading[n] # <<>> /\ calls[n] = <<>>
  /\ LET b == Head(loading[n])
     IN  /\ Accepted(n, b) /\ Extends(n, b)
         /\ Connect(n, b, <<>>)
  /\ loading' = [loading EXCEPT ![n] = Tail(@)]
  /\ UNCHANGED <<mainVars, procVars, logVars, file, ibdDone, job>>

\* A block does not come on the active chain: back to the genesis block, with
\* the blocks of peers that came beside the load.
LoadFails(n) ==
  /\ loading[n] # <<>> /\ calls[n] = <<>>
  /\ LET b == Head(loading[n])
     IN  /\ ~(Accepted(n, b) /\ Extends(n, b))
         /\ IF ~Ignored(n, b) /\ IsOrphan(n, b)
            THEN /\ orphans' = [orphans EXCEPT ![n] = @ \cup {b}]
                 /\ SendRandom(n, OrphanRequest(n, b))
            ELSE UNCHANGED <<orphans, netVars>>
  /\ chain' = [chain EXCEPT ![n] = <<Genesis>>]
  /\ side' = [side EXCEPT ![n] = {}]
  /\ loading' = [loading EXCEPT ![n] = <<>>]
  /\ cleared' = cleared \cup {n}
  /\ UNCHANGED <<calls, mainVars, procVars, found, file, ibdDone, job>>

StartDownload(n) ==
  /\ phase[n] = "loaded" /\ Unlocked(n)
  /\ phase' = [phase EXCEPT ![n] = "ask"]
  /\ askFrom' = [askFrom EXCEPT ![n] = Tip(n)]
  /\ UNCHANGED <<netVars, chainVars, retry, procVars, logVars, file, ibdDone,
                 job, loading>>

\* Nobody to ask: 5 seconds later it is tried again.
AskNobody(n) ==
  /\ phase[n] = "ask" /\ ~ibdDone[n] /\ retry[n] < MAX_RETRIES
  /\ minerConns[n] = {}
  /\ retry' = [retry EXCEPT ![n] = @ + 1]
  /\ UNCHANGED <<netVars, chainVars, phase, askFrom, procVars, logVars, file,
                 ibdDone, job, loading>>

Ask(n) ==
  /\ phase[n] = "ask" /\ ~ibdDone[n] /\ retry[n] < MAX_RETRIES
  /\ minerConns[n] # {}
  /\ SendRandom(n, <<GetBlock(askFrom[n])>>)
  /\ phase' = [phase EXCEPT ![n] = "wait"]
  /\ UNCHANGED <<chainVars, askFrom, retry, procVars, logVars, file, ibdDone,
                 job, loading>>

\* 30 seconds without a higher chain.
Stall(n) ==
  /\ phase[n] = "wait" /\ ~ibdDone[n] /\ Unlocked(n)
  /\ retry' = [retry EXCEPT ![n] = @ + 1]
  /\ askFrom' = [askFrom EXCEPT ![n] = IF chain[n] = <<>> THEN @ ELSE Tip(n)]
  /\ phase' = [phase EXCEPT ![n] = "ask"]
  /\ UNCHANGED <<netVars, chainVars, procVars, logVars, file, ibdDone, job,
                 loading>>

\* Mutant of Downloading: the flag is not read again before the next try.
OnlyWaiting == {"wait"}

\* The loops are left, and their variables with them.
LeaveLoops(n) ==
  /\ phase' = [phase EXCEPT ![n] = "mine"]
  /\ askFrom' = [askFrom EXCEPT ![n] = NoBlock]
  /\ retry' = [retry EXCEPT ![n] = 0]

\* Both loops end when the flag is set.
Downloading == {"ask", "wait"}

DownloadDone(n) ==
  /\ phase[n] \in Downloading /\ ibdDone[n]
  /\ LeaveLoops(n)
  /\ UNCHANGED <<netVars, chainVars, procVars, logVars, file, ibdDone, job,
                 loading>>

\* Chain::reset leaves no block, not even the genesis block.
GiveUp(n) ==
  /\ phase[n] = "ask" /\ ~ibdDone[n] /\ retry[n] = MAX_RETRIES
  /\ Unlocked(n)
  /\ chain' = [chain EXCEPT ![n] = <<>>]
  /\ side' = [side EXCEPT ![n] = {}]
  /\ orphans' = [orphans EXCEPT ![n] = {}]
  /\ ibdDone' = [ibdDone EXCEPT ![n] = TRUE]
  /\ LeaveLoops(n)
  /\ cleared' = cleared \cup {n}
  /\ UNCHANGED <<netVars, calls, procVars, found, file, job, loading>>

\* A block on the tip is found, connected and announced ...
MineBlock(n) ==
  /\ phase[n] = "mine" /\ Unlocked(n)
  /\ \E b \in Blocks \ (found \cup {Genesis}) :
       /\ Finder[b] = n /\ Parent[b] = Tip(n)
       /\ found' = found \cup {b}
       /\ Connect(n, b, <<>>)
  /\ phase' = [phase EXCEPT ![n] = "save"]
  /\ UNCHANGED <<askFrom, retry, procVars, cleared, file, ibdDone, job, loading>>

\* ... and the chain, whatever it is by then, is saved.
SaveMined(n) ==
  /\ phase[n] = "save" /\ Unlocked(n)
  /\ Save(n, chain[n])
  /\ phase' = [phase EXCEPT ![n] = "mine"]
  /\ UNCHANGED <<netVars, chainVars, askFrom, retry, procVars, logVars, ibdDone,
                 job, loading>>

-----------------------------------------------------------------------------
Init ==
  /\ file \in Files
  /\ running = Ready /\ boots = [n \in Nodes |-> 0]
  /\ conns = [n \in Nodes |-> {}] /\ minerConns = [n \in Nodes |-> {}]
  /\ dropped = {}
  /\ wire = [w \in {x \in Nodes \X Nodes : x[1] # x[2]} |-> <<>>]
  /\ chain = [n \in Nodes |->
                <<Genesis>> \o IF n \in Ready THEN file[n] ELSE <<>>]
  /\ side = [n \in Nodes |-> {}] /\ orphans = [n \in Nodes |-> {}]
  /\ ibdDone = [n \in Nodes |-> n \in Ready]
  /\ phase = [n \in Nodes |-> IF n \in Ready THEN "mine" ELSE "off"]
  /\ askFrom = [n \in Nodes |-> NoBlock] /\ retry = [n \in Nodes |-> 0]
  /\ job = [n \in Nodes |-> NoJob]
  /\ calls = [n \in Nodes |-> <<>>] /\ loading = [n \in Nodes |-> <<>>]
  /\ found = UNION {Range(f[n]) : f \in Files, n \in Nodes} /\ cleared = {}

Handle(n, p) ==
  \/ HandleHello(n, p) \/ HandleBlockInfo(n, p)
  \/ HandleInv(n, p) \/ HandleGetBlock(n, p)

IoThread(n) ==
  \/ \E p \in Nodes \ {n} : Handle(n, p)
  \/ ReadError(n)
  \/ Answer(n) \/ ConnectReceived(n) \/ FinishReceived(n)
  \/ TryOrphan(n)

Download(n) ==
  \/ StartLoad(n) \/ LoadNext(n) \/ LoadFails(n)
  \/ StartDownload(n) \/ AskNobody(n) \/ Ask(n) \/ Stall(n)
  \/ DownloadDone(n) \/ GiveUp(n)

MainThread(n) == Download(n) \/ SaveMined(n)

Next ==
  \E n \in Nodes :
    Boot(n) \/ Crash(n) \/ IoThread(n) \/ MainThread(n) \/ MineBlock(n)

Spec == Init /\ [][Next]_vars

(***************************************************************************)
(* The threads go on, and who starts a node starts it again.  Nothing is   *)
(* assumed of mining.                                                      *)
(***************************************************************************)
FairSpec ==
  /\ Spec
  /\ \A n \in Nodes :
       WF_vars(IoThread(n)) /\ WF_vars(MainThread(n)) /\ WF_vars(Boot(n))

-----------------------------------------------------------------------------
(* What the theorems about chains and files assume. *)

(***************************************************************************)
(* Every block but the first follows another one, and the files of the     *)
(* nodes hold chains on it.  No miner has then a block for an empty chain. *)
(***************************************************************************)
ChainOnGenesis(f) ==
  \A i \in DOMAIN f : Parent[f[i]] = IF i = 1 THEN Genesis ELSE f[i - 1]

Rooted ==
  /\ \A b \in Blocks : Parent[b] = NoBlock <=> b = Genesis
  /\ \A f \in Files : \A n \in Nodes : ChainOnGenesis(f[n])

-----------------------------------------------------------------------------
(* Properties. *)

Connections == [peer : Nodes, gen : Nat]

\* Every variable keeps its type (net_client.hpp:34, chain.hpp, pow.cpp:162).
TypeOK ==
  /\ running \subseteq Nodes /\ boots \in [Nodes -> Nat]
  /\ \A n \in Nodes : conns[n] \cup minerConns[n] \subseteq Connections
  /\ \A w \in DOMAIN wire :
       \A i \in DOMAIN wire[w] :
         wire[w][i].type \in {"hello", "getBlock", "block", "inv"}
  /\ \A n \in Nodes : Range(chain[n]) \subseteq Blocks
  /\ \A n \in Nodes : side[n] \cup orphans[n] \subseteq Blocks \ Range(chain[n])
  /\ file \in [Nodes -> Seq(Blocks)] /\ dropped \subseteq Blocks
  /\ ibdDone \in [Nodes -> BOOLEAN]
  /\ phase \in [Nodes -> {"off", "load", "loaded", "ask", "wait", "mine", "save",
                      "shell"}]
  /\ askFrom \in [Nodes -> Blocks \cup {NoBlock}]
  /\ retry \in [Nodes -> 0..MAX_RETRIES]
  /\ \A n \in Nodes : job[n].kind \in {"none", "block", "inv", "answer"}
  /\ calls \in [Nodes -> Seq(Blocks)] /\ loading \in [Nodes -> Seq(Blocks)]
  /\ found \subseteq Blocks /\ cleared \subseteq Nodes

(***************************************************************************)
(* A connection that has been removed is never written to again: whichever *)
(* thread notices that it is gone, and however late a hello is handled, it *)
(* leaves both lists (net_client.cpp:427, peer_hello_msg.cpp:19).          *)
(***************************************************************************)
MinersConnected == \A n \in Nodes : minerConns[n] \subseteq conns[n]

(***************************************************************************)
(* A file that is saved can be loaded again: its first block is one on the *)
(* genesis block (chain.cpp:652, 713).                                     *)
(***************************************************************************)
Restorable ==
  \A n \in Nodes : file[n] # <<>> => Parent[file[n][1]] = Genesis

\* Nothing is under way and no thread has anything left to do but to mine.
AtRest ==
  /\ running = Nodes
  /\ \A w \in DOMAIN wire : wire[w] = <<>>
  /\ \A n \in Nodes : job[n] = NoJob /\ Unlocked(n)
  /\ \A n \in Nodes : phase[n] \in {"mine", "shell"}

\* One has a block on its chain that the other throws out.
AtOdds(n, p) ==
  \/ OnChain(n) \cap Refused[p] # {}
  \/ OnChain(p) \cap Refused[n] # {}

\* A tip the other does not have, no lower than what an answer from height 1
\* reaches (chain begins with the genesis block).
Apart(n, p) ==
  Len(chain[n]) > CHUNK_SIZE /\ ~IsPrefix(chain[n], chain[p])

(***************************************************************************)
(* However often a node is started again, whatever it loads, mines or      *)
(* misses meanwhile and in whatever order it hears of blocks: when nothing *)
(* is under way any more its chain is no shorter than that of a node that  *)
(* stays up (inv_msg.cpp:12, get_block_msg.cpp:14, chain.cpp:303).  It may *)
(* stay behind only if, since it was started, it gave the download up or   *)
(* its load failed, for answers under way then may end the download that   *)
(* follows; if it refuses a block of the other; if the other's last block  *)
(* was announced into a dead connection, until the next one comes; or if   *)
(* the other does not have its tip and that is CHUNK_SIZE blocks high or   *)
(* more: the answer to an unknown tip starts at height 1 and brings        *)
(* nothing heavier, however much the two share.                            *)
(***************************************************************************)
CatchUp ==
  AtRest =>
    \A n \in Miners \ cleared, s \in Steady :
      \/ Len(chain[n]) >= Len(chain[s])
      \/ AtOdds(n, s) \/ Tip(s) \in dropped \/ Apart(n, s)

(***************************************************************************)
(* Requests and answers do not go on for ever: when no more blocks are     *)
(* mined the wires fall silent (inv_msg.cpp:29, chain.cpp:301), but for    *)
(* those between two nodes one of which refuses a block that the other has *)
(* on its chain: such a block is new in every InvMsg, so it is asked for   *)
(* and refused again and again (inv_msg.cpp:42, 58).                       *)
(***************************************************************************)
Silence ==
  <>[](\A w \in DOMAIN wire : wire[w] = <<>> \/ AtOdds(w[1], w[2]))

(***************************************************************************)
(* Every miner comes to mine, with peers or without, whatever they answer  *)
(* or fail to answer (pow.cpp:180).                                        *)
(***************************************************************************)
StartsMining == \A n \in Miners \ Ready : <>(phase[n] = "mine")

=============================================================================
