------------------------------- MODULE Wallet -------------------------------
(***************************************************************************)
(* A wallet node: the commands of tiny-sandbox/src/main.cpp as wallet.cpp  *)
(* carries them out, the HD wallet of wallet/hd_wallet.cpp, and the        *)
(* questions to miners, whose answers the io thread leaves in the slots of *)
(* net/msg_cache.cpp.                                                      *)
(*                                                                         *)
(* The miners are external: each has a pool and the transactions of this   *)
(* wallet it has mined.  A transaction is numbered by the order of its     *)
(* making, and its number is also the name of its change coin.             *)
(***************************************************************************)
EXTENDS Integers, FiniteSets, SequencesExt

CONSTANTS Peers,          \* the miners
          BaseCoins,      \* coins mined before: value and address
          Amounts,        \* values that are sent
          FeeEst,         \* total_fee_est
          CostOfChange,   \* cost_of_change
          LOOKAHEAD,
          MAX_AWAIT,      \* MAX_MSG_AWAIT_TIME_IN_SECS, in ticks
          Scripts,        \* bound: what the user does, command by command
          MaxTxs,         \* bound: transactions made
          MaxFaults       \* bound: crashes of the wallet node and of miners

ASSUME WalletAssumption ==
  /\ DOMAIN BaseCoins \subseteq Nat /\ DOMAIN BaseCoins \cap 1..MaxTxs = {}
  /\ IsFiniteSet(DOMAIN BaseCoins)
  /\ \A c \in DOMAIN BaseCoins : BaseCoins[c].value \in Nat \ {0}
  /\ Amounts \subseteq Nat
  /\ {FeeEst, CostOfChange, LOOKAHEAD, MAX_AWAIT} \subseteq Nat
  /\ Scripts \subseteq
       Seq({"status", "rbf", "balance", "send", "sendHd", "address"})
  /\ {MaxTxs, MaxFaults} \subseteq Nat

VARIABLES
  made,      \* the transactions built
  pool,      \* Mempool::map of each miner
  mined,     \* what each miner has on its chain
  alive,     \* miners whose process runs
  conns,     \* NetClient::miner_connections of the wallet node
  inbox,     \* what is under way to each miner
  outbox,    \* what is under way from each miner
  slot,      \* MsgCache: the last answer of each kind
  command,   \* what the main thread does, and where it is
  todo,      \* the commands the user has still to give
  waited,    \* time since the last question
  heard,     \* miners whose answers the running tx_status has taken
  status,    \* the TxStatus printed last
  lapsed,    \* miners that did not hold the transaction asked for
  returned,  \* miners that took it off their chain, back into the pool
  givenUp,   \* kinds of questions whose wait ran out
  hd,        \* HDWallet: the seed and the two next indices
  file,      \* the HD wallet file
  given,     \* addresses given out or broadcast
  extra,     \* addresses given out on request
  crashes, losses,
  torn       \* the process died while it wrote the file

netVars   == <<conns, inbox, outbox, alive>>
worldVars == <<made, pool, mined>>
askVars   == <<slot, command, todo, waited>>
statVars  == <<heard, status, lapsed, returned, givenUp>>
keyVars   == <<hd, file, given, extra>>
faultVars == <<crashes, losses, torn>>
vars == <<netVars, worldVars, askVars, statVars, keyVars, faultVars>>

-----------------------------------------------------------------------------
(* Addresses. *)

Main == [seed |-> 0, chain |-> "main", index |-> 0]
Hd(seed, chain, index) == [seed |-> seed, chain |-> chain, index |-> index]
Indices(n) == 0..(n - 1)

\* A file that is missing or has just been truncated.
NoFile == [seed |-> 0, ext |-> 0, int |-> 0]

\* Mutant of Cached: change addresses are not derived ahead.
CachedGiven(w) ==
  {Hd(w.seed, "ext", i) : i \in Indices(w.ext + LOOKAHEAD)}
    \cup {Hd(w.seed, "int", i) : i \in Indices(w.int)}

\* address_cache_, as init_from_seed and fill_lookahead leave it.
Cached(w) ==
  {Hd(w.seed, "ext", i) : i \in Indices(w.ext + LOOKAHEAD)}
    \cup {Hd(w.seed, "int", i) : i \in Indices(w.int + LOOKAHEAD)}

-----------------------------------------------------------------------------
(* Coins. *)

CoinOf(c) == IF c \in DOMAIN BaseCoins
               THEN BaseCoins[c]
               ELSE [value |-> made[c].change, addr |-> made[c].to]

ValueOf(cs) == MapThenSumSet(LAMBDA c : CoinOf(c).value, cs)

\* UTXO::map of a miner, as far as it can be this wallet's.
Utxos(p) ==
  (DOMAIN BaseCoins \cup {t \in mined[p] : made[t].change > 0})
    \ UNION {made[t].ins : t \in mined[p]}

\* Larger, or as large and numbered before it.
Ahead(d, c) ==
  \/ CoinOf(d).value > CoinOf(c).value
  \/ CoinOf(d).value = CoinOf(c).value /\ d < c

\* Largest first.
Sorted(cs) ==
  CHOOSE s \in [1..Cardinality(cs) -> cs] :
    \A i, j \in DOMAIN s : i < j => Ahead(s[i], s[j])

\* Mutant of Reaches: a sum that is exactly the target does not do.
Exceeds(value, target) == value > target

\* Whether what is chosen and all that is left make up the target.
Reaches(value, target) == value >= target

Total(vals, S) == MapThenSumSet(LAMBDA k : vals[k], S)

\* The search of branch_and_bound_select over values in falling order: the
\* selections of positions it meets, in turn.  Depth d decides on value d,
\* first for it; a branch ends at the target, or where what is left cannot
\* make it up.  MAX_TRIES is out of reach.
Met(vals, target) ==
  LET Open(S, d) == Reaches(Total(vals, S \cup d..Len(vals)), target)
      from[d \in 1..(Len(vals) + 1)] ==
        [S \in SUBSET (1..Len(vals)) |->
           IF d > Len(vals) THEN <<>>
           ELSE LET T == S \cup {d}
                IN  (IF Total(vals, T) >= target THEN <<T>>
                     ELSE IF Open(T, d + 1) THEN from[d + 1][T] ELSE <<>>)
                    \o (IF Open(S, d + 1) THEN from[d + 1][S] ELSE <<>>)]
  IN  from[1][{}]

\* The place of the first that has the least sum; 0 if none was met.
FirstBest(vals, met) ==
  SelectInSeq(met, LAMBDA S : \A R \in Range(met) :
                                Total(vals, S) <= Total(vals, R))

\* The first of the best, unless it wastes more than a change output costs.
Best(vals, target) ==
  [met \in Seq(SUBSET Nat) |->
     LET i == FirstBest(vals, met)
     IN  IF i = 0 THEN {}
         ELSE IF Total(vals, met[i]) > target + CostOfChange THEN {} ELSE met[i]]

BranchAndBound(target) ==
  [vals \in Seq(Nat) |-> Best(vals, target)[Met(vals, target)]]

\* The largest coins up to the first sum above the target; none if they are
\* not enough.
LargestFirst(target) ==
  [vals \in Seq(Nat) |->
     LET enough == {n \in 1..Len(vals) : Total(vals, 1..n) > target}
     IN  IF enough = {} THEN {} ELSE 1..Min(enough)]

\* build_tx_from_utxos and build_tx_from_utxos_hd: a selection that comes
\* near the target makes no change, any other always does.
Built(offered, amount, to) ==
  LET target == amount + FeeEst
      coins == Sorted(offered)
      vals == [k \in DOMAIN coins |-> CoinOf(coins[k]).value]
      exact == BranchAndBound(target)[vals]
      ins == IF exact # {} THEN exact ELSE LargestFirst(target)[vals]
  IN  [offered |-> offered, amount |-> amount, to |-> to,
       ins |-> {coins[k] : k \in ins},
       change |-> IF exact # {} \/ ins = {} THEN 0 ELSE Total(vals, ins) - target]

-----------------------------------------------------------------------------
(* Questions. *)

NoAnswer == [from |-> "nobody", has |-> {}]
Get(of) == [kind |-> of, tx |-> 0]
TxInfo(t) == [kind |-> "tx", tx |-> t]
Idle == [kind |-> "none", at |-> "idle", of |-> "pool", arg |-> 0]

\* send_msg_random: a write that fails takes the connection off the list.
SendRandom(msg) ==
  IF conns = {} THEN UNCHANGED netVars
  ELSE \E p \in conns :
         /\ inbox' = IF p \in alive THEN [inbox EXCEPT ![p] = Append(@, msg)]
                                    ELSE inbox
         /\ conns' = IF p \in alive THEN conns ELSE conns \ {p}
         /\ UNCHANGED <<outbox, alive>>

\* The slot is emptied, the question sent, and the wait begins; without a
\* connection the command is over.
Ask(c, of) ==
  /\ slot' = [slot EXCEPT ![of] = NoAnswer]
  /\ SendRandom(Get(of))
  /\ waited' = 0
  /\ command' = IF conns = {} THEN Idle ELSE [c EXCEPT !.at = "wait", !.of = of]

\* Mutant of StatusOrder: the chain is asked for first.
ChainFirst == <<"chain", "pool">>

\* get_tx_status asks for the pool, then for the chain.
StatusOrder == <<"pool", "chain">>

\* The commands, and the first question of each.
FirstAsked(kind) ==
  CASE kind = "status" -> StatusOrder[1]
    [] kind = "rbf" -> "pool"
    [] kind \in {"balance", "send", "sendHd"} -> "utxos"

\* The next line the user types.
Types(kind) ==
  /\ command = Idle /\ todo # <<>> /\ kind = Head(todo)
  /\ todo' = Tail(todo)

StartCommand(kind, arg) ==
  /\ Types(kind)
  /\ Ask([Idle EXCEPT !.kind = kind, !.arg = arg], FirstAsked(kind))
  /\ heard' = <<>>
  /\ status' = IF kind = "status" /\ conns = {} THEN "NotFound" ELSE "none"
  /\ lapsed' = IF kind = "status"
                 THEN {p \in Peers : arg \notin pool[p] \cup mined[p]} ELSE {}
  /\ returned' = {}
  /\ UNCHANGED <<worldVars, givenUp, keyVars, faultVars>>

\* The function returns; its clock goes with it.
Return == command' = Idle /\ waited' = 0

Answered(kinds) ==
  /\ command.at = "wait" /\ command.kind \in kinds
  /\ slot[command.of] # NoAnswer

\* tx_status: found where it looks, or on to the chain, or not found.
TakeStatus ==
  LET answer == slot[command.of]
      isFirst == command.of = StatusOrder[1]
  IN  /\ Answered({"status"})
      /\ heard' = Append(heard, answer.from)
      /\ IF command.arg \notin answer.has /\ isFirst
           THEN /\ Ask(command, StatusOrder[2])
                /\ todo' = todo
                /\ status' = IF conns = {} THEN "NotFound" ELSE status
           ELSE /\ Return
                /\ status' = IF command.arg \notin answer.has THEN "NotFound"
                             ELSE IF command.of = "pool" THEN "Mempool"
                             ELSE "Mined"
                /\ UNCHANGED <<netVars, slot, todo>>
      /\ UNCHANGED <<worldVars, lapsed, returned, givenUp, keyVars, faultVars>>

\* balance adds up; rbf_tx then wants the transaction in the pool of the
\* wallet node itself, which nobody sends transactions to.
TakeOther ==
  /\ Answered({"balance", "rbf"})
  /\ Return
  /\ UNCHANGED <<netVars, worldVars, slot, todo, statVars, keyVars,
                 faultVars>>

\* Mutant of Passed: the wait starts anew at every look.
NeverPassed == 0

\* Utils::get_unix_timestamp() - start.
Passed == waited + 1

Tick ==
  /\ command.at = "wait" /\ waited <= MAX_AWAIT
  /\ waited' = Passed
  /\ UNCHANGED <<netVars, worldVars, slot, command, todo, statVars, keyVars,
                 faultVars>>

\* The default of TxStatusResponse is NotFound.
Timeout ==
  /\ command.at = "wait" /\ slot[command.of] = NoAnswer
  /\ waited > MAX_AWAIT
  /\ Return
  /\ status' = IF command.kind = "status" THEN "NotFound" ELSE status
  /\ givenUp' = givenUp \cup {command.of}
  /\ UNCHANGED <<netVars, worldVars, slot, todo, heard, lapsed, returned,
                 keyVars, faultVars>>

-----------------------------------------------------------------------------
(* Sending. *)

\* find_utxos_for_address and find_utxos_for_hd_wallet.
Offered(own) == {c \in slot["utxos"].has : CoinOf(c).addr \in own}

Broadcast(tx) ==
  /\ made' = Append(made, tx)
  /\ SendRandom(TxInfo(Len(made) + 1))

\* send_value.
SendValue ==
  /\ Answered({"send"})
  /\ \E tx \in {Built(Offered({Main}), command.arg, Main)} :
       IF tx.ins = {} THEN UNCHANGED <<netVars, made>> ELSE Broadcast(tx)
  /\ Return
  /\ UNCHANGED <<pool, mined, slot, todo, statVars, keyVars,
                 faultVars>>

\* send_value_hd up to the broadcast: an index is used up even when no change
\* is made.
SendValueHd ==
  LET change == Hd(hd.seed, "int", hd.int)
  IN  /\ Answered({"sendHd"})
      /\ \E tx \in {Built(Offered(Cached(hd)), command.arg, change)} :
           IF tx.ins = {}
             THEN /\ Return
                  /\ UNCHANGED <<netVars, made, hd, given>>
             ELSE /\ Broadcast(tx)
                  /\ hd' = [hd EXCEPT !.int = @ + 1]
                  /\ given' = given \cup (IF tx.change > 0 THEN {change} ELSE {})
                  /\ command' = [command EXCEPT !.at = "save"]
                  /\ waited' = 0
      /\ UNCHANGED <<pool, mined, slot, todo, statVars, file, extra,
                     faultVars>>

\* save opens the file, which empties it, and writes it.
Truncate ==
  /\ command.at = "save"
  /\ file' = NoFile
  /\ command' = [command EXCEPT !.at = "write"]
  /\ UNCHANGED <<netVars, worldVars, slot, todo, waited, statVars, hd, given,
                 extra, faultVars>>

Write ==
  /\ command.at = "write"
  /\ file' = hd
  /\ Return
  /\ UNCHANGED <<netVars, worldVars, slot, todo, statVars, hd, given,
                 extra, faultVars>>

\* get_new_address leaves the file as it is.
NewAddress ==
  /\ Types("address")
  /\ given' = given \cup {Hd(hd.seed, "ext", hd.ext)}
  /\ hd' = [hd EXCEPT !.ext = @ + 1]
  /\ extra' = extra + 1
  /\ UNCHANGED <<netVars, worldVars, slot, command, waited, statVars, file,
                 faultVars>>

-----------------------------------------------------------------------------
(* The process. *)

\* init_hd_wallet: a file that does not load is taken for none, and a new
\* seed replaces it.  The first address is not saved.
Boot ==
  LET loaded == IF file # NoFile THEN file
                ELSE [seed |-> crashes + 2, ext |-> 0, int |-> 0]
  IN  /\ command.at = "down"
      /\ hd' = IF loaded.ext = 0 THEN [loaded EXCEPT !.ext = 1] ELSE loaded
      /\ given' = given \cup {Hd(loaded.seed, "ext", 0)}
      /\ file' = loaded
      /\ conns' = alive
      /\ command' = Idle
      /\ UNCHANGED <<inbox, outbox, alive, worldVars, slot, todo, waited,
                     statVars, extra, faultVars>>

\* The messages of these that ask for no answer.
TxsOnly(msgs) ==
  FoldLeft(LAMBDA kept, m : IF m.kind = "tx" THEN Append(kept, m) ELSE kept,
           <<>>, msgs)

\* The process dies.  The miners may still read what it has sent, but their
\* answers go nowhere.
Crash ==
  /\ command.at # "down" /\ crashes + losses < MaxFaults
  /\ crashes' = crashes + 1
  /\ torn' = (torn \/ file = NoFile)
  /\ command' = [Idle EXCEPT !.at = "down"]
  /\ conns' = {}
  /\ slot' = [of \in DOMAIN slot |-> NoAnswer]
  /\ outbox' = [p \in Peers |-> <<>>]
  /\ \/ inbox' = [p \in Peers |-> <<>>]
     \/ inbox' = [p \in Peers |-> TxsOnly(inbox[p])]
  /\ heard' = <<>> /\ status' = "none" /\ waited' = 0
  /\ lapsed' = {} /\ returned' = {} /\ givenUp' = {}
  /\ UNCHANGED <<alive, worldVars, todo, keyVars, losses>>

\* Mutant of SlotOf: the coins are put where the chain belongs.
SlotShared(kind) == IF kind = "utxos" THEN "chain" ELSE kind

\* Each kind of answer has a slot of its own.
SlotOf(kind) == kind

\* The io thread: SendMempoolMsg, SendActiveChainMsg and SendUTXOsMsg.
HandleAnswer(p) ==
  /\ command.at # "down" /\ outbox[p] # <<>>
  /\ LET m == Head(outbox[p])
     IN  slot' = [slot EXCEPT ![SlotOf(m.kind)] = [from |-> p, has |-> m.has]]
  /\ outbox' = [outbox EXCEPT ![p] = Tail(@)]
  /\ UNCHANGED <<conns, inbox, alive, worldVars, command, todo, waited,
                 statVars, keyVars, faultVars>>

ReadError(p) ==
  /\ p \in conns \ alive
  /\ conns' = conns \ {p}
  /\ UNCHANGED <<inbox, outbox, alive, worldVars, askVars, statVars, keyVars,
                 faultVars>>

-----------------------------------------------------------------------------
(* The miners. *)

\* These are what the running tx_status asks for.
AskedFor(ts) == command.kind = "status" /\ command.arg \in ts

\* The miner does not hold these transactions for the whole of the query.
Lapse(p, ts) ==
  lapsed' = IF AskedFor(ts) THEN lapsed \cup {p} ELSE lapsed

Has(p, of) == CASE of = "pool" -> pool[p] [] of = "chain" -> mined[p]
                [] of = "utxos" -> Utxos(p)

\* GetMempoolMsg, GetActiveChainMsg and GetUTXOsMsg.
PeerAnswers(p) ==
  /\ p \in alive /\ inbox[p] # <<>> /\ Head(inbox[p]).kind # "tx"
  /\ LET m == Head(inbox[p])
     IN  outbox' = [outbox EXCEPT ![p] =
                      Append(@, [kind |-> m.kind, has |-> Has(p, m.kind)])]
  /\ inbox' = [inbox EXCEPT ![p] = Tail(@)]
  /\ UNCHANGED <<conns, alive, worldVars, askVars, statVars, keyVars,
                 faultVars>>

\* A transaction comes into the pool, perhaps in place of others.
Pools(p, t) ==
  LET rivals == {u \in pool[p] : made[u].ins \cap made[t].ins # {}}
  IN  /\ t \notin pool[p] \cup mined[p]
      /\ made[t].ins \subseteq Utxos(p)
      /\ pool' = [pool EXCEPT ![p] = (@ \ rivals) \cup {t}]
      /\ Lapse(p, rivals)

\* TxInfoMsg: accepted, or refused.
PeerTakesTx(p) ==
  /\ p \in alive /\ inbox[p] # <<>> /\ Head(inbox[p]).kind = "tx"
  /\ inbox' = [inbox EXCEPT ![p] = Tail(@)]
  /\ Pools(p, Head(inbox[p]).tx) \/ UNCHANGED <<pool, lapsed>>
  /\ UNCHANGED <<conns, outbox, alive, made, mined, askVars, heard, status,
                 returned, givenUp, keyVars, faultVars>>

PeerHearsTx(p, q) ==
  /\ p \in alive
  /\ \E t \in pool[q] : Pools(p, t)
  /\ UNCHANGED <<netVars, made, mined, askVars, heard, status, returned,
                 givenUp, keyVars, faultVars>>

\* A block with a transaction that is pending here, or mined elsewhere.
PeerMines(p) ==
  /\ p \in alive
  /\ \E t \in (pool[p] \cup UNION {mined[q] : q \in Peers}) \ mined[p] :
       /\ made[t].ins \subseteq Utxos(p)
       /\ mined' = [mined EXCEPT ![p] = @ \cup {t}]
       /\ pool' = [pool EXCEPT ![p] = @ \ {t}]
  /\ UNCHANGED <<netVars, made, askVars, statVars, keyVars, faultVars>>

\* A reorganisation takes it back into the pool: disconnect_block puts it
\* there before the block leaves the chain, so the miner holds it throughout.
PeerUnmines(p) ==
  /\ p \in alive
  /\ \E t \in mined[p] :
       /\ \A u \in mined[p] : t \notin made[u].ins
       /\ mined' = [mined EXCEPT ![p] = @ \ {t}]
       /\ pool' = [pool EXCEPT ![p] = @ \cup {t}]
       /\ returned' = IF AskedFor({t}) THEN returned \cup {p} ELSE returned
  /\ UNCHANGED <<netVars, made, askVars, heard, status, lapsed, givenUp,
                 keyVars, faultVars>>

PeerDies(p) ==
  /\ p \in alive /\ crashes + losses < MaxFaults
  /\ alive' = alive \ {p}
  /\ inbox' = [inbox EXCEPT ![p] = <<>>]
  /\ outbox' = [outbox EXCEPT ![p] = <<>>]
  /\ losses' = losses + 1
  /\ UNCHANGED <<conns, worldVars, askVars, statVars, keyVars, crashes, torn>>

-----------------------------------------------------------------------------

\* The HD wallet exists and its first address has been paid.
Init ==
  /\ made = <<>>
  /\ pool = [p \in Peers |-> {}] /\ mined = [p \in Peers |-> {}]
  /\ alive = Peers /\ conns = Peers
  /\ inbox = [p \in Peers |-> <<>>] /\ outbox = [p \in Peers |-> <<>>]
  /\ slot = [of \in {"pool", "chain", "utxos"} |-> NoAnswer]
  /\ command = Idle /\ todo \in Scripts /\ waited = 0
  /\ heard = <<>> /\ status = "none"
  /\ lapsed = {} /\ returned = {} /\ givenUp = {}
  /\ file = [seed |-> 1, ext |-> 0, int |-> 0]
  /\ hd = [file EXCEPT !.ext = 1]
  /\ given = {Hd(1, "ext", 0)} /\ extra = 0
  /\ crashes = 0 /\ losses = 0 /\ torn = FALSE

Command ==
  \/ \E t \in DOMAIN made : StartCommand("status", t) \/ StartCommand("rbf", t)
  \/ StartCommand("balance", 0)
  \/ /\ Len(made) < MaxTxs
     /\ \E v \in Amounts : StartCommand("send", v) \/ StartCommand("sendHd", v)

MainThread ==
  TakeStatus \/ TakeOther \/ SendValue \/ SendValueHd \/ Truncate \/ Write
    \/ Timeout

Peer(p) ==
  PeerAnswers(p) \/ PeerTakesTx(p) \/ PeerMines(p) \/ PeerUnmines(p)
    \/ PeerDies(p) \/ \E q \in Peers : PeerHearsTx(p, q)

Next ==
  \/ Command \/ NewAddress \/ MainThread \/ Tick
  \/ Boot \/ Crash
  \/ \E p \in Peers : HandleAnswer(p) \/ ReadError(p) \/ Peer(p)

Spec == Init /\ [][Next]_vars

\* The main thread gets its turn and time passes; no miner need answer.
FairSpec == Spec /\ WF_vars(MainThread) /\ WF_vars(Tick)

-----------------------------------------------------------------------------
(* Properties. *)

Address == [seed : Nat, chain : {"main", "ext", "int"}, index : Nat]

TypeOK ==
  /\ \A t \in DOMAIN made :
       /\ made[t].ins \subseteq made[t].offered
       /\ made[t].change \in Nat /\ made[t].to \in Address
  /\ \A p \in Peers : pool[p] \cup mined[p] \subseteq DOMAIN made
  /\ \A p \in Peers : pool[p] \cap mined[p] = {}
  /\ conns \subseteq Peers /\ alive \subseteq Peers
  /\ \A p \in Peers \ alive : inbox[p] = <<>> /\ outbox[p] = <<>>
  /\ command.at \in {"down", "idle", "wait", "save", "write"}
  /\ command.at = "idle" => command = Idle
  /\ slot["pool"].has \cup slot["chain"].has \subseteq DOMAIN made
  /\ slot["utxos"].has \subseteq DOMAIN made \cup DOMAIN BaseCoins
  /\ status \in {"none", "Mempool", "Mined", "NotFound"}
  /\ waited \in 0..(MAX_AWAIT + 1)
  /\ given \subseteq Address
  /\ \A c \in {"ext", "int"} : hd[c] \in Nat /\ file[c] \in Nat

\* tx_status says "not found" after two answers of one miner only if that
\* miner let go of the transaction meanwhile, or moved it from the chain to the
\* pool: the pool is asked for before the chain, so that a block between the
\* two does not hide it, and each slot is emptied before the question, so that
\* the answer to an earlier command is not taken for this one's.  The code
\* does not keep more than that: a reorganisation between the two answers does
\* hide a transaction held throughout, a late answer to a question that was
\* given up is taken for the present one's, and two miners need not agree.
StatusHonest ==
  /\ command.at = "idle" /\ status = "NotFound"
  /\ Len(heard) = 2 /\ heard[1] = heard[2]
  /\ givenUp \cap {"pool", "chain"} = {}
  => heard[1] \in lapsed \cup returned

\* Whenever the process dies, the HD wallet it loads again knows every
\* address it has given out or sent change to, although the index reaches
\* the file only after the broadcast, or not at all.  Left out: a process
\* that dies between the two halves of a save loses its seed.
CoinsVisible ==
  ~torn /\ file # NoFile => given \subseteq Cached(file)

\* A transaction without change wastes at most what change would cost, and
\* no selection of the coins offered wastes less; with change, no selection
\* would have done without.
SelectionOptimal ==
  \A t \in DOMAIN made :
    LET target == made[t].amount + FeeEst
        value == ValueOf(made[t].ins)
        waste == {ValueOf(S) - target : S \in (SUBSET made[t].offered) \ {{}}}
                   \cap Nat
    IN  IF made[t].change = 0
          THEN /\ value - target \in 0..CostOfChange
               /\ \A w \in waste : value - target <= w
          ELSE /\ value = target + made[t].change
               /\ \A w \in waste : w > CostOfChange

\* Every command ends, whatever becomes of the miners and their answers.
CommandsEnd ==
  command.at \in {"wait", "save", "write"} ~> command.at \in {"idle", "down"}

=============================================================================
