---------------------------- MODULE WalletProofs ----------------------------
(***************************************************************************)
(* Proofs about Wallet for every number of miners, commands and crashes.   *)
(*                                                                         *)
(* Two invariants, each inductive by itself.  KeyInv relates the indices   *)
(* of the HD wallet in memory, in its file and in the addresses it has     *)
(* given out, from one half of a save to the other.  QueryInv follows a    *)
(* tx_status through its two questions: what each answer on its way says   *)
(* of the transaction, as long as the miner that gave it has not let go    *)
(* of the transaction.                                                     *)
(*                                                                         *)
(* WalletInv adds to both what is known of the coins: every message and    *)
(* every slot names transactions that were made, so what is offered to the *)
(* coin selection is known, and what was built of it is optimal and stays  *)
(* so.  That the selection is optimal at all is proved of the search: by   *)
(* induction over its depth it meets, of the selections below a branch,    *)
(* each that reaches the target or one that is not larger.                 *)
(***************************************************************************)
EXTENDS Wallet, DataProofs

-----------------------------------------------------------------------------
(* The keys of the HD wallet. *)

Keys == [seed : Nat, ext : Nat, int : Nat]
Stages == {"down", "idle", "wait", "save", "write"}

\* The change addresses used so far: what the file does not have yet is the
\* one of the transaction just broadcast.
LastChange == IF command.at = "write" THEN hd.int - 1 ELSE file.int

KeyTyped ==
  /\ hd \in Keys /\ file \in Keys
  /\ extra \in Nat /\ crashes \in Nat /\ torn \in BOOLEAN
  /\ "at" \in DOMAIN command /\ command.at \in Stages

\* Memory is at most one change address and the requested addresses ahead.
KeysAhead ==
  /\ hd.ext <= extra + 1 /\ file.ext <= extra + 1
  /\ hd.seed # 0
  /\ IF command.at = "write" THEN file = NoFile ELSE file.seed = hd.seed
  /\ command.at \in {"idle", "wait"} => hd.int = file.int
  /\ command.at = "save" => hd.int = file.int + 1

GivenBehind ==
  \A a \in given :
    \/ \E i \in 0..extra : a = Hd(hd.seed, "ext", i)
    \/ \E i \in 0..LastChange : a = Hd(hd.seed, "int", i)

KeyInv == KeyTyped /\ (~torn => KeysAhead /\ GivenBehind)

\* A step that has to do with other things.
KeysKept ==
  /\ UNCHANGED <<keyVars, crashes, torn>>
  /\ "at" \in DOMAIN command'
  /\ \/ command'.at = command.at
     \/ {command.at, command'.at} \subseteq {"idle", "wait"}

LEMMA IdleAt == "at" \in DOMAIN Idle /\ Idle.at = "idle"
  BY DEF Idle

LEMMA KeptKeys ==
  ASSUME KeyInv, KeysKept
  PROVE  KeyInv'
<1>1. /\ UNCHANGED <<hd, file, given, extra, crashes, torn>>
      /\ "at" \in DOMAIN command'
      /\ \/ command'.at = command.at
         \/ {command.at, command'.at} \subseteq {"idle", "wait"}
  BY DEF KeysKept, keyVars
<1>2. KeyTyped'
  BY <1>1 DEF KeyInv, KeyTyped, Stages
<1>3. ~torn => KeysAhead'
  BY <1>1 DEF KeyInv, KeyTyped, KeysAhead
<1>4. LastChange' = LastChange
  BY <1>1 DEF LastChange
<1>5. ~torn => GivenBehind'
  BY <1>1, <1>4 DEF KeyInv, GivenBehind
<1> QED
  BY <1>1, <1>2, <1>3, <1>5 DEF KeyInv

LEMMA AskKeeps ==
  ASSUME NEW c, "at" \in DOMAIN c, NEW of, Ask(c, of)
  PROVE  "at" \in DOMAIN command' /\ command'.at \in {"idle", "wait"}
  BY IdleAt DEF Ask

LEMMA InitKeys == Init => KeyInv
<1> SUFFICES ASSUME Init PROVE KeyInv
  OBVIOUS
<1>1. /\ file = [seed |-> 1, ext |-> 0, int |-> 0]
      /\ hd = [seed |-> 1, ext |-> 1, int |-> 0]
      /\ command = Idle /\ extra = 0 /\ crashes = 0 /\ torn = FALSE
      /\ given = {Hd(1, "ext", 0)}
  BY DEF Init
<1>2. KeyTyped
  BY <1>1, IdleAt DEF KeyTyped, Keys, Stages
<1>3. KeysAhead
  BY <1>1, IdleAt DEF KeysAhead
<1>4. GivenBehind
  BY <1>1 DEF GivenBehind
<1> QED
  BY <1>2, <1>3, <1>4 DEF KeyInv

LEMMA SendKeys ==
  ASSUME KeyInv, SendValueHd
  PROVE  KeyInv'
<1> DEFINE change == Hd(hd.seed, "int", hd.int)
           tx == Built(Offered(Cached(hd)), command.arg, change)
<1>1. command.at = "wait" /\ UNCHANGED <<file, extra, crashes, torn>>
  BY DEF SendValueHd, Answered, faultVars
<1>2. CASE tx.ins = {}
  <2>1. UNCHANGED <<hd, given>> /\ command' = Idle
    BY <1>2 DEF SendValueHd, Return
  <2> QED
    BY <1>1, <2>1, IdleAt, KeptKeys DEF KeysKept, keyVars
<1>3. CASE tx.ins # {}
  <2>1. /\ hd' = [hd EXCEPT !.int = @ + 1]
        /\ given' = given \/ given' = given \cup {change}
        /\ command' = [command EXCEPT !.at = "save"]
    BY <1>3 DEF SendValueHd
  <2>2. hd \in Keys /\ file \in Keys
    BY DEF KeyInv, KeyTyped
  <2>3. /\ hd' \in Keys /\ hd'.int = hd.int + 1
        /\ hd'.seed = hd.seed /\ hd'.ext = hd.ext
    BY <2>1, <2>2 DEF Keys
  <2>4. "at" \in DOMAIN command' /\ command'.at = "save"
    BY <2>1 DEF KeyInv, KeyTyped
  <2>5. KeyTyped'
    BY <1>1, <2>3, <2>4 DEF KeyInv, KeyTyped, Stages
  <2>6. ASSUME ~torn
        PROVE  KeysAhead' /\ GivenBehind'
    <3>1. KeysAhead /\ GivenBehind /\ hd.int = file.int /\ LastChange = file.int
      BY <1>1, <2>6 DEF KeyInv, KeysAhead, LastChange
    <3>2. KeysAhead'
      BY <1>1, <2>3, <2>4, <3>1 DEF KeysAhead
    <3>3. LastChange' = file.int
      BY <1>1, <2>4 DEF LastChange
    <3>4. file.int \in 0..file.int
      BY <2>2 DEF Keys
    <3>5. change = Hd(hd'.seed, "int", file.int)
      BY <2>3, <3>1
    <3>6. GivenBehind'
      BY <1>1, <2>1, <2>3, <3>1, <3>3, <3>4, <3>5 DEF GivenBehind
    <3> QED
      BY <3>2, <3>6
  <2> QED
    BY <1>1, <2>5, <2>6 DEF KeyInv
<1> QED
  BY <1>2, <1>3

LEMMA SaveKeys ==
  ASSUME KeyInv, Truncate \/ Write
  PROVE  KeyInv'
<1>1. UNCHANGED <<hd, given, extra, crashes, torn>>
  BY DEF Truncate, Write, faultVars
<1>2. CASE Truncate
  <2>1. /\ command.at = "save" /\ file' = NoFile
        /\ command' = [command EXCEPT !.at = "write"]
    BY <1>2 DEF Truncate
  <2>2. "at" \in DOMAIN command' /\ command'.at = "write"
    BY <2>1 DEF KeyInv, KeyTyped
  <2>3. file' \in Keys /\ file'.ext = 0
    BY <2>1 DEF NoFile, Keys
  <2>4. KeyTyped'
    BY <1>1, <2>2, <2>3 DEF KeyInv, KeyTyped, Stages
  <2>5. ASSUME ~torn
        PROVE  KeysAhead' /\ GivenBehind'
    <3>1. KeysAhead /\ GivenBehind /\ hd.int = file.int + 1
      BY <2>1, <2>5 DEF KeyInv, KeysAhead
    <3>2. hd.int \in Nat /\ file.int \in Nat /\ extra \in Nat
      BY DEF KeyInv, KeyTyped, Keys
    <3>3. LastChange' = LastChange
      BY <1>1, <2>1, <2>2, <3>1, <3>2 DEF LastChange
    <3>4. KeysAhead'
      BY <1>1, <2>1, <2>2, <2>3, <3>1, <3>2 DEF KeysAhead
    <3>5. GivenBehind'
      BY <1>1, <3>1, <3>3 DEF GivenBehind
    <3> QED
      BY <3>4, <3>5
  <2> QED
    BY <1>1, <2>4, <2>5 DEF KeyInv
<1>3. CASE Write
  <2>1. /\ command.at = "write" /\ file' = hd /\ command' = Idle
    BY <1>3 DEF Write, Return
  <2>2. KeyTyped'
    BY <1>1, <2>1, IdleAt DEF KeyInv, KeyTyped, Stages
  <2>3. ASSUME ~torn
        PROVE  KeysAhead' /\ GivenBehind'
    <3>1. KeysAhead /\ GivenBehind /\ LastChange = hd.int - 1
      BY <2>1, <2>3 DEF KeyInv, LastChange
    <3>2. hd.int \in Nat
      BY DEF KeyInv, KeyTyped, Keys
    <3>3. LastChange' = hd.int
      BY <1>1, <2>1, IdleAt DEF LastChange
    <3>4. KeysAhead'
      BY <1>1, <2>1, <3>1, IdleAt DEF KeysAhead
    <3>5. \A i \in 0..LastChange : i \in 0..hd.int
      BY <3>1, <3>2
    <3>6. GivenBehind'
      BY <1>1, <3>1, <3>3, <3>5 DEF GivenBehind
    <3> QED
      BY <3>4, <3>6
  <2> QED
    BY <1>1, <2>2, <2>3 DEF KeyInv
<1> QED
  BY <1>2, <1>3

LEMMA NewAddressKeys ==
  ASSUME KeyInv, NewAddress
  PROVE  KeyInv'
<1>1. /\ given' = given \cup {Hd(hd.seed, "ext", hd.ext)}
      /\ hd' = [hd EXCEPT !.ext = @ + 1]
      /\ extra' = extra + 1
      /\ UNCHANGED <<file, command, crashes, torn>> /\ command = Idle
  BY DEF NewAddress, Types, faultVars
<1>2. hd \in Keys /\ file \in Keys /\ extra \in Nat
  BY DEF KeyInv, KeyTyped
<1>3. /\ hd' \in Keys /\ hd'.ext = hd.ext + 1
      /\ hd'.seed = hd.seed /\ hd'.int = hd.int
      /\ hd.ext \in Nat /\ file.ext \in Nat
  BY <1>1, <1>2 DEF Keys
<1>4. KeyTyped'
  BY <1>1, <1>2, <1>3 DEF KeyInv, KeyTyped
<1>5. ASSUME ~torn
      PROVE  KeysAhead' /\ GivenBehind'
  <2>1. KeysAhead /\ GivenBehind /\ hd.ext <= extra + 1
    BY <1>5 DEF KeyInv, KeysAhead
  <2>2. KeysAhead'
    BY <1>1, <1>2, <1>3, <2>1 DEF KeysAhead
  <2>3. LastChange' = LastChange
    BY <1>1, <1>3 DEF LastChange
  <2>4. /\ \A i \in 0..extra : i \in 0..(extra + 1)
        /\ hd.ext \in 0..(extra + 1)
    BY <1>2, <1>3, <2>1
  <2>5. GivenBehind'
    BY <1>1, <1>3, <2>1, <2>3, <2>4 DEF GivenBehind
  <2> QED
    BY <2>2, <2>5
<1> QED
  BY <1>1, <1>4, <1>5 DEF KeyInv

LEMMA ProcessKeys ==
  ASSUME KeyInv, Boot \/ Crash
  PROVE  KeyInv'
<1>a. hd \in Keys /\ file \in Keys /\ extra \in Nat /\ crashes \in Nat
  BY DEF KeyInv, KeyTyped
<1>1. CASE Crash
  <2>1. /\ UNCHANGED <<hd, file, given, extra>>
        /\ crashes' = crashes + 1 /\ torn' = (torn \/ file = NoFile)
        /\ command' = [Idle EXCEPT !.at = "down"]
    BY <1>1 DEF Crash, keyVars
  <2>2. "at" \in DOMAIN command' /\ command'.at = "down"
    BY <2>1 DEF Idle
  <2>3. KeyTyped'
    BY <2>1, <2>2 DEF KeyInv, KeyTyped, Stages
  <2>4. ASSUME ~torn'
        PROVE  KeysAhead' /\ GivenBehind'
    <3>1. ~torn /\ file # NoFile /\ KeysAhead /\ GivenBehind
      BY <2>1, <2>4 DEF KeyInv
    <3>2. CASE command.at # "write"
      <4>1. LastChange' = LastChange
        BY <2>1, <2>2, <3>2 DEF LastChange
      <4> QED
        BY <2>1, <2>2, <3>1, <3>2, <4>1 DEF KeysAhead, GivenBehind
    <3>3. CASE command.at = "write"
      BY <3>1, <3>3 DEF KeysAhead
    <3> QED
      BY <3>2, <3>3
  <2> QED
    BY <2>3, <2>4 DEF KeyInv
<1>2. CASE Boot
  <2> DEFINE loaded == IF file # NoFile THEN file
                       ELSE [seed |-> crashes + 2, ext |-> 0, int |-> 0]
  <2>1. /\ command.at = "down" /\ command' = Idle
        /\ hd' = IF loaded.ext = 0 THEN [loaded EXCEPT !.ext = 1] ELSE loaded
        /\ given' = given \cup {Hd(loaded.seed, "ext", 0)}
        /\ file' = loaded
        /\ UNCHANGED <<extra, crashes, torn>>
    BY <1>2 DEF Boot, faultVars
  <2>2. loaded \in Keys
    BY <1>a DEF Keys
  <2>3. ~torn => loaded = file
    BY <2>1 DEF KeyInv, KeysAhead, NoFile
  <2> HIDE DEF loaded
  <2>4. /\ hd' \in Keys /\ hd'.seed = loaded.seed /\ hd'.int = loaded.int
        /\ hd'.ext = IF loaded.ext = 0 THEN 1 ELSE loaded.ext
    BY <2>1, <2>2 DEF Keys
  <2>5. KeyTyped'
    BY <2>1, <2>2, <2>4, IdleAt DEF KeyInv, KeyTyped, Stages
  <2>6. ASSUME ~torn
        PROVE  KeysAhead' /\ GivenBehind'
    <3>1. KeysAhead /\ GivenBehind /\ loaded = file /\ file.seed = hd.seed
      BY <2>1, <2>3, <2>6 DEF KeyInv, KeysAhead
    <3>2. KeysAhead'
      BY <1>a, <2>1, <2>4, <3>1, IdleAt DEF KeysAhead
    <3>3. LastChange' = LastChange
      BY <2>1, <3>1, IdleAt DEF LastChange
    <3>4. 0 \in 0..extra
      BY <1>a
    <3>5. GivenBehind'
      BY <2>1, <2>4, <3>1, <3>3, <3>4 DEF GivenBehind
    <3> QED
      BY <3>2, <3>5
  <2> QED
    BY <2>1, <2>5, <2>6 DEF KeyInv
<1> QED
  BY <1>1, <1>2

LEMMA NextKeys == KeyInv /\ [Next]_vars => KeyInv'
<1> SUFFICES ASSUME KeyInv, [Next]_vars PROVE KeyInv'
  OBVIOUS
<1>a. "at" \in DOMAIN command
  BY DEF KeyInv, KeyTyped
<1>1. ASSUME NEW kind, NEW arg, StartCommand(kind, arg)
      PROVE  KeyInv'
  <2> DEFINE c == [Idle EXCEPT !.kind = kind, !.arg = arg]
  <2>1. /\ Ask(c, FirstAsked(kind)) /\ command = Idle
        /\ UNCHANGED <<keyVars, crashes, torn>>
    BY <1>1 DEF StartCommand, Types, faultVars
  <2>2. "at" \in DOMAIN c
    BY DEF Idle
  <2>3. KeysKept
    BY <2>1, <2>2, IdleAt, AskKeeps DEF KeysKept
  <2> QED
    BY <2>3, KeptKeys
<1>2. CASE TakeStatus
  <2>1. /\ command.at = "wait" /\ UNCHANGED <<keyVars, crashes, torn>>
        /\ Ask(command, StatusOrder[2]) \/ command' = Idle
    BY <1>2 DEF TakeStatus, Answered, Return, faultVars
  <2>2. KeysKept
    BY <1>a, <2>1, IdleAt, AskKeeps DEF KeysKept
  <2> QED
    BY <2>2, KeptKeys
<1>3. CASE TakeOther \/ SendValue \/ Timeout
  <2>1. /\ command.at = "wait" /\ UNCHANGED <<keyVars, crashes, torn>>
        /\ command' = Idle
    BY <1>3 DEF TakeOther, SendValue, Timeout, Answered, Return, faultVars
  <2>2. KeysKept
    BY <2>1, IdleAt DEF KeysKept
  <2> QED
    BY <2>2, KeptKeys
<1>4. CASE SendValueHd \/ Truncate \/ Write \/ NewAddress \/ Boot \/ Crash
  BY <1>4, SendKeys, SaveKeys, NewAddressKeys, ProcessKeys
<1>5. ASSUME NEW p \in Peers, HandleAnswer(p) \/ ReadError(p) \/ Peer(p)
      PROVE  KeyInv'
  <2>1. UNCHANGED <<command, keyVars, crashes, torn>>
    BY <1>5
    DEF HandleAnswer, ReadError, Peer, PeerAnswers, PeerTakesTx, PeerMines,
        PeerUnmines, PeerDies, PeerHearsTx, askVars, faultVars
  <2>2. KeysKept
    BY <1>a, <2>1 DEF KeysKept
  <2> QED
    BY <2>2, KeptKeys
<1>6. CASE Tick \/ UNCHANGED vars
  <2>1. UNCHANGED <<command, keyVars, crashes, torn>>
    BY <1>6 DEF Tick, vars, askVars, faultVars
  <2>2. KeysKept
    BY <1>a, <2>1 DEF KeysKept
  <2> QED
    BY <2>2, KeptKeys
<1> QED
  BY <1>1, <1>2, <1>3, <1>4, <1>5, <1>6 DEF Next, Command, MainThread

\* Memory, file and the addresses given out agree as KeyInv says, through
\* crashes and half-written files (hd_wallet.cpp save and load).
THEOREM KeyInvariance == Spec => []KeyInv
  BY InitKeys, NextKeys, PTL DEF Spec

\* After a crash the wallet finds every address it has given out or sent
\* change to among the LOOKAHEAD addresses it derives beyond its file, as long
\* as fewer than LOOKAHEAD addresses have been asked for: a change address may
\* be ahead of the file by one whenever the process dies.
THEOREM GivenAddressesFound == Spec => [](extra < LOOKAHEAD => CoinsVisible)
<1>1. ASSUME KeyInv, extra < LOOKAHEAD
      PROVE  CoinsVisible
  <2>1. SUFFICES ASSUME ~torn, file # NoFile, NEW a \in given
                 PROVE  a \in Cached(file)
    BY DEF CoinsVisible
  <2>2. KeysAhead /\ GivenBehind
    BY <1>1, <2>1 DEF KeyInv
  <2>3. /\ command.at # "write" /\ file.seed = hd.seed /\ LastChange = file.int
    BY <2>1, <2>2 DEF KeysAhead, LastChange
  <2>4. /\ file.ext \in Nat /\ file.int \in Nat /\ extra \in Nat
        /\ LOOKAHEAD \in Nat
    BY <1>1, WalletAssumption DEF KeyInv, KeyTyped, Keys
  <2>5. /\ \A i \in 0..extra : i \in Indices(file.ext + LOOKAHEAD)
        /\ \A i \in 0..file.int : i \in Indices(file.int + LOOKAHEAD)
    BY <1>1, <2>4 DEF Indices
  <2>6. CASE \E i \in 0..extra : a = Hd(hd.seed, "ext", i)
    BY <2>3, <2>5, <2>6 DEF Cached
  <2>7. CASE \E i \in 0..LastChange : a = Hd(hd.seed, "int", i)
    BY <2>3, <2>5, <2>7 DEF Cached
  <2> QED
    BY <2>2, <2>6, <2>7 DEF GivenBehind
<1> QED
  BY <1>1, KeyInvariance, PTL

-----------------------------------------------------------------------------
(* The questions of tx_status. *)

Kinds == {"pool", "chain", "utxos"}
Question == [kind : Kinds \cup {"tx"}, tx : Nat]
Reply == [kind : Kinds, has : SUBSET Nat]
Held == [from : Peers, has : SUBSET Nat] \cup {NoAnswer}

IsCommand(c) ==
  c = [kind |-> c.kind, at |-> c.at, of |-> c.of, arg |-> c.arg]

\* What the question of a tx_status is asked with.
Open == command.kind = "status" /\ command.at = "wait"

\* No question that tx_status asks has been given up.
Prompt == givenUp \cap {"pool", "chain"} = {}

\* The miners that let go of the transaction, or put it back into the pool.
Gone == lapsed \cup returned

\* What an answer says of the transaction that its miner has kept: if it is not
\* in the pool it is on the chain, and then it stays there.
Says(p, has) ==
  IF command.of = "pool"
    THEN command.arg \in has \cup mined[p]
    ELSE heard[1] = p => command.arg \in has

WorldTyped ==
  /\ pool \in [Peers -> SUBSET Nat] /\ mined \in [Peers -> SUBSET Nat]
  /\ \E S : made \in Seq(S)

AskTyped ==
  /\ inbox \in [Peers -> Seq(Question)] /\ outbox \in [Peers -> Seq(Reply)]
  /\ slot \in [Kinds -> Held] /\ heard \in Seq(Peers)
  /\ IsCommand(command) /\ command.at \in Stages
  /\ command.at = "wait" => command.of \in Kinds

\* No message of a kind, and at most one.
None(box, k) == \A i \in 1..Len(box) : box[i].kind # k
One(box, k) ==
  \A i, j \in 1..Len(box) : box[i].kind = k /\ box[j].kind = k => i = j

Waiting(k) == command.at = "wait" /\ command.of = k /\ slot[k] = NoAnswer

Free(p, k) == None(inbox[p], k) /\ None(outbox[p], k)
Alone(p, k) ==
  /\ One(inbox[p], k) /\ One(outbox[p], k)
  /\ None(inbox[p], k) \/ None(outbox[p], k)

\* Unless a question of its kind was given up, what is under way is the present
\* question or its answer, and there is one such message.
OneQuestion ==
  \A k \in Kinds \ givenUp :
    /\ \A p \in Peers : Alone(p, k)
    /\ \A p, r \in Peers : p # r => Free(p, k) \/ Free(r, k)
    /\ ~Waiting(k) => \A p \in Peers : Free(p, k)

\* Each question of a tx_status is asked once, and its answer taken once.
HeardSoFar ==
  /\ command.at # "idle" /\ ~Open => heard = <<>>
  /\ Open => \/ command.of = "pool" /\ heard = <<>>
             \/ command.of = "chain" /\ Len(heard) = 1

\* What the answer on its way, or in the slot, says of the transaction.
Followed ==
  Open /\ Prompt =>
    \A p \in Peers \ Gone :
      /\ command.arg \in pool[p] \cup mined[p]
      /\ command.of = "chain" /\ heard[1] = p => command.arg \in mined[p]
      /\ \A i \in 1..Len(outbox[p]) :
           outbox[p][i].kind = command.of => Says(p, outbox[p][i].has)
      /\ slot[command.of] # NoAnswer /\ slot[command.of].from = p
           => Says(p, slot[command.of].has)

QueryInv ==
  WorldTyped /\ AskTyped /\ OneQuestion /\ HeardSoFar /\ Followed /\ StatusHonest

-----------------------------------------------------------------------------
(* Boxes. *)

\* The new box has no more messages of any kind than the old one.
Calmer(box, new) ==
  \A k \in Kinds : /\ None(box, k) => None(new, k)
                   /\ One(box, k) => One(new, k)

LEMMA EmptyCalm ==
  ASSUME NEW box
  PROVE  Calmer(box, <<>>) /\ \A k : None(<<>>, k)
<1>1. Len(<<>>) = 0 /\ \A i : i \notin 1..0
  BY EmptySeq
<1> QED
  BY <1>1 DEF Calmer, None, One

LEMMA TailCalm ==
  ASSUME NEW Q, NEW box \in Seq(Q), box # <<>>
  PROVE  /\ Calmer(box, Tail(box))
         /\ \A k : One(box, k) /\ Head(box).kind = k => None(Tail(box), k)
<1>1. /\ Len(Tail(box)) = Len(box) - 1
      /\ \A i \in 1..Len(Tail(box)) : Tail(box)[i] = box[i + 1]
      /\ Head(box) = box[1]
  BY HeadTailProperties
<1>2. Len(box) \in Nat /\ Len(box) # 0
  BY LenProperties, EmptySeq
<1>3. /\ \A i \in 1..Len(Tail(box)) : i \in Nat /\ i + 1 \in 1..Len(box) /\ i + 1 # 1
      /\ 1 \in 1..Len(box)
  BY <1>1, <1>2
<1>4. ASSUME NEW k
      PROVE  /\ None(box, k) => None(Tail(box), k)
             /\ One(box, k) => One(Tail(box), k)
             /\ One(box, k) /\ Head(box).kind = k => None(Tail(box), k)
  <2>1. None(box, k) => None(Tail(box), k)
    BY <1>1, <1>3 DEF None
  <2>2. ASSUME One(box, k), NEW i \in 1..Len(Tail(box)),
               NEW j \in 1..Len(Tail(box)),
               Tail(box)[i].kind = k, Tail(box)[j].kind = k
        PROVE  i = j
    <3>1. i + 1 = j + 1
      BY <1>1, <1>3, <2>2 DEF One
    <3> QED
      BY <1>3, <3>1
  <2>3. One(box, k) /\ Head(box).kind = k => None(Tail(box), k)
    BY <1>1, <1>3 DEF One, None
  <2> QED
    BY <2>1, <2>2, <2>3 DEF One
<1> QED
  BY <1>4 DEF Calmer

LEMMA AppendCalm ==
  ASSUME NEW Q, NEW box \in Seq(Q), NEW m \in Q, NEW k
  PROVE  /\ m.kind # k /\ None(box, k) => None(Append(box, m), k)
         /\ m.kind # k /\ One(box, k) => One(Append(box, m), k)
         /\ None(box, k) => One(Append(box, m), k)
<1>1. /\ Len(Append(box, m)) = Len(box) + 1
      /\ \A i \in 1..Len(box) : Append(box, m)[i] = box[i]
      /\ Append(box, m)[Len(box) + 1] = m
  BY AppendProperties
<1>2. Len(box) \in Nat
  BY LenProperties
<1>3. \A i \in 1..(Len(box) + 1) : i \in 1..Len(box) \/ i = Len(box) + 1
  BY <1>2
<1>4. \A i \in 1..Len(Append(box, m)) :
        \/ i \in 1..Len(box) /\ Append(box, m)[i] = box[i]
        \/ i = Len(box) + 1 /\ Append(box, m)[i] = m
  BY <1>1, <1>3
<1>5. m.kind # k /\ None(box, k) => None(Append(box, m), k)
  BY <1>4 DEF None
<1>6. m.kind # k /\ One(box, k) => One(Append(box, m), k)
  BY <1>4 DEF One
<1>7. None(box, k) => One(Append(box, m), k)
  BY <1>4 DEF None, One
<1> QED
  BY <1>5, <1>6, <1>7

\* A step that adds nothing to the boxes, and ends a wait only with an answer
\* in the slot or by giving the question up.
LEMMA BoxesCalm ==
  ASSUME OneQuestion, givenUp \subseteq givenUp',
         \A p \in Peers : /\ Calmer(inbox[p], inbox'[p])
                          /\ Calmer(outbox[p], outbox'[p]),
         \A k \in Kinds \ givenUp' : Waiting(k) => Waiting(k)'
  PROVE  OneQuestion'
<1>1. ASSUME NEW k \in Kinds \ givenUp'
      PROVE  /\ \A p \in Peers : Alone(p, k)'
             /\ \A p, r \in Peers : p # r => Free(p, k)' \/ Free(r, k)'
             /\ ~Waiting(k)' => \A p \in Peers : Free(p, k)'
  <2>1. \A p \in Peers :
          /\ None(inbox[p], k) => None(inbox'[p], k)
          /\ None(outbox[p], k) => None(outbox'[p], k)
          /\ One(inbox[p], k) => One(inbox'[p], k)
          /\ One(outbox[p], k) => One(outbox'[p], k)
    BY <1>1 DEF Calmer
  <2>2. /\ \A p \in Peers : Alone(p, k)
        /\ \A p, r \in Peers : p # r => Free(p, k) \/ Free(r, k)
        /\ ~Waiting(k) => \A p \in Peers : Free(p, k)
        /\ Waiting(k) => Waiting(k)'
    BY <1>1 DEF OneQuestion
  <2>3. \A p \in Peers : /\ Free(p, k) => Free(p, k)'
                         /\ Alone(p, k) => Alone(p, k)'
    BY <2>1 DEF Free, Alone
  <2> QED
    BY <2>2, <2>3
<1> QED
  BY <1>1 DEF OneQuestion

LEMMA SendOne ==
  ASSUME AskTyped, NEW msg \in Question, SendRandom(msg)
  PROVE  /\ inbox' \in [Peers -> Seq(Question)] /\ outbox' = outbox
         /\ \/ inbox' = inbox
            \/ /\ conns # {}
               /\ \E b \in Peers : \A p \in Peers :
                    inbox'[p] = IF p = b THEN Append(inbox[p], msg) ELSE inbox[p]
<1>1. inbox \in [Peers -> Seq(Question)]
  BY DEF AskTyped
<1>2. outbox' = outbox
  BY DEF SendRandom, netVars
<1>3. \/ inbox' = inbox
      \/ conns # {} /\ \E b : inbox' = [inbox EXCEPT ![b] = Append(@, msg)]
  BY DEF SendRandom, netVars
<1>4. ASSUME NEW b \in Peers, inbox' = [inbox EXCEPT ![b] = Append(@, msg)]
      PROVE  /\ inbox' \in [Peers -> Seq(Question)]
             /\ \A p \in Peers :
                  inbox'[p] = IF p = b THEN Append(inbox[p], msg) ELSE inbox[p]
  <2>1. Append(inbox[b], msg) \in Seq(Question)
    BY <1>1, AppendProperties
  <2> QED
    BY <1>1, <1>4, <2>1
<1>5. ASSUME NEW b, b \notin Peers, inbox' = [inbox EXCEPT ![b] = Append(@, msg)]
      PROVE  inbox' = inbox
  BY <1>1, <1>5
<1> QED
  BY <1>1, <1>2, <1>3, <1>4, <1>5

\* A transaction that is sent adds no question.
LEMMA SendCalm ==
  ASSUME AskTyped, NEW msg \in Question, msg.kind = "tx", SendRandom(msg)
  PROVE  \A p \in Peers : Calmer(inbox[p], inbox'[p])
<1>1. ASSUME NEW p \in Peers
      PROVE  Calmer(inbox[p], inbox[p])
             /\ Calmer(inbox[p], Append(inbox[p], msg))
  <2>1. inbox[p] \in Seq(Question) /\ \A k \in Kinds : msg.kind # k
    BY DEF AskTyped, Kinds
  <2> QED
    BY <2>1, AppendCalm DEF Calmer
<1>2. \/ inbox' = inbox
      \/ \E b \in Peers : \A p \in Peers :
           inbox'[p] = IF p = b THEN Append(inbox[p], msg) ELSE inbox[p]
  BY SendOne
<1> QED
  BY <1>1, <1>2

\* A question is asked when nothing else is waited for: then there is one
\* message of its kind, and none was left in the boxes before.
LEMMA AskLeaves ==
  ASSUME AskTyped, OneQuestion, \A k \in Kinds : ~Waiting(k),
         NEW c, IsCommand(c), NEW of \in Kinds, Ask(c, of), givenUp' = givenUp
  PROVE  /\ inbox' \in [Peers -> Seq(Question)] /\ outbox' = outbox
         /\ slot' \in [Kinds -> Held] /\ slot'[of] = NoAnswer
         /\ OneQuestion'
         /\ of \notin givenUp => \A p \in Peers : None(outbox[p], of)
         /\ \/ command' = Idle
            \/ /\ IsCommand(command') /\ command'.at = "wait" /\ command'.of = of
               /\ command'.kind = c.kind /\ command'.arg = c.arg
<1>1. /\ slot' = [slot EXCEPT ![of] = NoAnswer]
      /\ SendRandom(Get(of))
      /\ command' = IF conns = {} THEN Idle
                    ELSE [c EXCEPT !.at = "wait", !.of = of]
  BY DEF Ask
<1>2. Get(of) \in Question /\ Get(of).kind = of
  BY DEF Get, Question
<1> DEFINE msg == Get(of)
<1>3. /\ inbox' \in [Peers -> Seq(Question)] /\ outbox' = outbox
      /\ \/ inbox' = inbox
         \/ /\ conns # {}
            /\ \E b \in Peers : \A p \in Peers :
                 inbox'[p] = IF p = b THEN Append(inbox[p], msg) ELSE inbox[p]
  <2>1. SendRandom(msg) /\ msg \in Question
    BY <1>1, <1>2
  <2> HIDE DEF msg
  <2> QED
    BY <2>1, SendOne
<1>4. slot' \in [Kinds -> Held] /\ slot'[of] = NoAnswer
  BY <1>1 DEF AskTyped, Held
<1>5. ASSUME command' = [c EXCEPT !.at = "wait", !.of = of]
      PROVE  /\ IsCommand(command') /\ command'.at = "wait" /\ command'.of = of
             /\ command'.kind = c.kind /\ command'.arg = c.arg
  <2>1. c = [kind |-> c.kind, at |-> c.at, of |-> c.of, arg |-> c.arg]
    BY DEF IsCommand
  <2>2. command' = [kind |-> c.kind, at |-> "wait", of |-> of, arg |-> c.arg]
    BY <1>5, <2>1
  <2>3. /\ command'.kind = c.kind /\ command'.at = "wait"
        /\ command'.of = of /\ command'.arg = c.arg
    BY <2>2
  <2> QED
    BY <2>2, <2>3 DEF IsCommand
<1>6. /\ command' = Idle \/ command' = [c EXCEPT !.at = "wait", !.of = of]
      /\ conns # {} => command' = [c EXCEPT !.at = "wait", !.of = of]
  BY <1>1
<1>7. conns # {} => Waiting(of)'
  BY <1>4, <1>5, <1>6 DEF Waiting
<1>8. \A k \in Kinds \ givenUp : \A p \in Peers : Free(p, k)
  BY DEF OneQuestion
<1>9. ASSUME NEW k \in Kinds \ givenUp
      PROVE  /\ \A p \in Peers : Alone(p, k)'
             /\ \A p, r \in Peers : p # r => Free(p, k)' \/ Free(r, k)'
             /\ ~Waiting(k)' => \A p \in Peers : Free(p, k)'
  <2>1. \A p \in Peers : /\ None(inbox[p], k) /\ None(outbox'[p], k)
                         /\ One(inbox[p], k) /\ One(outbox'[p], k)
    BY <1>3, <1>8 DEF Free, None, One
  <2>2. CASE inbox' = inbox
    BY <2>1, <2>2 DEF Free, Alone
  <2>3. ASSUME NEW b \in Peers, conns # {},
               \A p \in Peers :
                 inbox'[p] = IF p = b THEN Append(inbox[p], msg) ELSE inbox[p]
        PROVE  /\ \A p \in Peers : Alone(p, k)'
               /\ \A p, r \in Peers : p # r => Free(p, k)' \/ Free(r, k)'
               /\ ~Waiting(k)' => \A p \in Peers : Free(p, k)'
    <3>1. inbox[b] \in Seq(Question) /\ msg \in Question /\ msg.kind = of
      BY <1>2 DEF AskTyped
    <3> HIDE DEF msg
    <3>2. /\ One(Append(inbox[b], msg), k)
          /\ of # k => None(Append(inbox[b], msg), k)
      BY <2>1, <3>1, AppendCalm
    <3>3. \A p \in Peers : /\ One(inbox'[p], k)
                           /\ p # b \/ of # k => None(inbox'[p], k)
      BY <2>1, <2>3, <3>2
    <3> QED
      BY <1>7, <2>1, <2>3, <3>3 DEF Free, Alone
  <2> QED
    BY <1>3, <2>2, <2>3
<1>10. OneQuestion'
  BY <1>9 DEF OneQuestion
<1>11. of \notin givenUp => \A p \in Peers : None(outbox[p], of)
  BY <1>8 DEF Free
<1> QED
  BY <1>3, <1>4, <1>5, <1>6, <1>10, <1>11

\* What is left of a box is its transactions.
LEMMA TxsOnlyTxs ==
  ASSUME NEW Q, NEW msgs \in Seq(Q)
  PROVE  TxsOnly(msgs) \in Seq({m \in Q : m.kind = "tx"})
<1> DEFINE op(kept, m) == IF m.kind = "tx" THEN Append(kept, m) ELSE kept
           n == Len(msgs)
           T == {m \in Q : m.kind = "tx"}
           V == Seq(T)
           base == <<>>
           step == [a \in (1..n) \X V |-> op(a[2], msgs[a[1]])]
           Fold(g) == g = [s \in SUBSET (1..n) |->
                             IF s = {} THEN base
                             ELSE op(g[s \ {Max(s)}], msgs[Max(s)])]
           h == CHOOSE g : Fold(g)
<1>1. n \in Nat /\ DOMAIN msgs = 1..n
  BY LenProperties
<1>2. base \in V
  BY EmptySeq
<1>3. ASSUME NEW v \in V, NEW i \in 1..n
      PROVE  op(v, msgs[i]) \in V
  <2>1. msgs[i] \in Q
    BY ElementOfSeq
  <2>2. CASE msgs[i].kind = "tx"
    <3>1. msgs[i] \in T
      BY <2>1, <2>2
    <3> HIDE DEF T
    <3> QED
      BY <2>2, <3>1, AppendProperties
  <2> QED
    BY <2>2
<1>4. TxsOnly(msgs) = h[1..n]
  BY <1>1 DEF TxsOnly, FoldLeft, MapThenFoldSet
<1> HIDE DEF T, V, n, op, base
<1>5. \A i \in 1..n, v \in V :
        step[<<i, v>>] = op(v, msgs[i]) /\ step[<<i, v>>] \in V
  BY <1>3
<1> HIDE DEF step
<1>6. PICK g : FoldsLeft(n, base, step, g)
  BY <1>1, FoldLeftExists
<1>7. \A s \in SUBSET (1..n), v \in V :
        s # {} => /\ step[<<Max(s), v>>] = op(v, msgs[Max(s)])
                  /\ op(v, msgs[Max(s)]) \in V
  BY <1>1, <1>5, MaxInside
<1>8. \A s \in SUBSET (1..n) : g[s] \in V
  <2>1. /\ g[{}] = base
        /\ \A s \in SUBSET (1..n) :
             s # {} => g[s] = step[<<Max(s), g[s \ {Max(s)}]>>]
    BY <1>6 DEF FoldsLeft
  <2>2. ASSUME NEW s \in SUBSET (1..n), s # {}, g[s \ {Max(s)}] \in V
        PROVE  g[s] \in V
    <3> DEFINE v == g[s \ {Max(s)}]
    <3>1. v \in V /\ g[s] = step[<<Max(s), v>>]
      BY <2>1, <2>2, Zenon
    <3> HIDE DEF v
    <3>2. step[<<Max(s), v>>] = op(v, msgs[Max(s)]) /\ op(v, msgs[Max(s)]) \in V
      BY <1>7, <2>2, <3>1, Zenon
    <3> QED
      BY <3>1, <3>2, Zenon
  <2> QED
    BY <1>1, <1>2, <2>1, <2>2, FoldLeftStays
<1>9. Fold(g)
  BY <1>6, <1>7, <1>8 DEF FoldsLeft
<1>10. Fold(h)
  BY <1>9
<1> HIDE DEF h
<1>11. /\ h[{}] = base
       /\ \A s \in SUBSET (1..n) :
            s # {} => h[s] = op(h[s \ {Max(s)}], msgs[Max(s)])
  BY <1>10
<1>12. \A s \in SUBSET (1..n) : h[s] \in V
  <2>1. ASSUME NEW s \in SUBSET (1..n), s # {}, h[s \ {Max(s)}] \in V
        PROVE  h[s] \in V
    BY <1>7, <1>11, <2>1
  <2> QED
    BY <1>1, <1>2, <1>11, <2>1, FoldLeftStays
<1> QED
  BY <1>4, <1>12 DEF T, V

LEMMA TxsOnlyKept ==
  ASSUME NEW Q, NEW msgs \in Seq(Q)
  PROVE  TxsOnly(msgs) \in Seq(Q) /\ \A k \in Kinds : None(TxsOnly(msgs), k)
<1> DEFINE T == {m \in Q : m.kind = "tx"}
           new == TxsOnly(msgs)
<1>1. new \in Seq(T)
  BY TxsOnlyTxs
<1>2. T \subseteq Q /\ \A m \in T, k \in Kinds : m.kind # k
  BY DEF Kinds
<1> HIDE DEF T, new
<1>3. new \in Seq(Q) /\ \A i \in 1..Len(new) : new[i] \in T
  BY <1>1, <1>2, SeqMonotonic, ElementOfSeq
<1>4. \A k \in Kinds : None(new, k)
  BY <1>2, <1>3 DEF None
<1> QED
  BY <1>3, <1>4 DEF new

\* A step that leaves the command and its answers alone: no miner gives an
\* answer it did not give before, and none loses the transaction, or moves it
\* back, unnoticed.
QueryKept ==
  /\ UNCHANGED <<slot, command, heard, status, givenUp>>
  /\ lapsed \subseteq lapsed' /\ returned \subseteq returned'
  /\ WorldTyped'
  /\ inbox' \in [Peers -> Seq(Question)] /\ outbox' \in [Peers -> Seq(Reply)]
  /\ \A p \in Peers : /\ Calmer(inbox[p], inbox'[p])
                      /\ Calmer(outbox[p], outbox'[p])
  /\ \A p \in Peers : \A i \in 1..Len(outbox'[p]) :
       \E j \in 1..Len(outbox[p]) : outbox'[p][i] = outbox[p][j]
  /\ Open => \A p \in Peers \ Gone' :
               /\ command.arg \in mined[p] => command.arg \in mined'[p]
               /\ command.arg \in pool[p] \cup mined[p]
                    => command.arg \in pool'[p] \cup mined'[p]

LEMMA KeptQuery ==
  ASSUME QueryInv, QueryKept
  PROVE  QueryInv'
<1>a. /\ slot' = slot /\ command' = command /\ givenUp' = givenUp
      /\ heard' = heard /\ status' = status
      /\ lapsed \subseteq lapsed' /\ returned \subseteq returned'
      /\ WorldTyped'
      /\ inbox' \in [Peers -> Seq(Question)] /\ outbox' \in [Peers -> Seq(Reply)]
      /\ \A p \in Peers : \A i \in 1..Len(outbox'[p]) :
           \E j \in 1..Len(outbox[p]) : outbox'[p][i] = outbox[p][j]
      /\ Open => \A p \in Peers \ Gone' :
                   /\ command.arg \in mined[p] => command.arg \in mined'[p]
                   /\ command.arg \in pool[p] \cup mined[p]
                        => command.arg \in pool'[p] \cup mined'[p]
  BY DEF QueryKept
<1>1. AskTyped'
  BY <1>a DEF QueryInv, AskTyped
<1>2. OneQuestion'
  <2>1. \A k \in Kinds : Waiting(k) => Waiting(k)'
    BY <1>a DEF Waiting
  <2>2. \A p \in Peers : /\ Calmer(inbox[p], inbox'[p])
                         /\ Calmer(outbox[p], outbox'[p])
    BY DEF QueryKept
  <2> QED
    BY <1>a, <2>1, <2>2, BoxesCalm DEF QueryInv
<1>3. HeardSoFar'
  BY <1>a DEF QueryInv, HeardSoFar, Open
<1>4. Peers \ Gone' \subseteq Peers \ Gone
  BY <1>a DEF Gone
<1>5. Followed'
  <2>1. SUFFICES ASSUME Open', Prompt' PROVE Followed'
    BY DEF Followed
  <2>2. Open /\ Prompt /\ Followed
    BY <1>a, <2>1 DEF QueryInv, Open, Prompt
  <2>3. ASSUME NEW p \in Peers \ Gone', NEW has, Says(p, has)
        PROVE  Says(p, has)'
    BY <1>a, <2>2, <2>3 DEF Says
  <2>4. ASSUME NEW p \in Peers \ Gone'
        PROVE  /\ command'.arg \in pool'[p] \cup mined'[p]
               /\ command'.of = "chain" /\ heard'[1] = p
                    => command'.arg \in mined'[p]
               /\ slot'[command'.of] # NoAnswer /\ slot'[command'.of].from = p
                    => Says(p, slot[command.of].has)'
    <3>1. p \in Peers \ Gone
      BY <1>4
    <3>2. /\ command.arg \in pool[p] \cup mined[p]
          /\ command.of = "chain" /\ heard[1] = p => command.arg \in mined[p]
          /\ slot[command.of] # NoAnswer /\ slot[command.of].from = p
               => Says(p, slot[command.of].has)
      BY <2>2, <3>1 DEF Followed
    <3>3. PICK has : has = slot[command.of].has
      OBVIOUS
    <3>4. Says(p, has) => Says(p, has)'
      BY <2>3
    <3>5. slot[command.of] # NoAnswer /\ slot[command.of].from = p
            => Says(p, slot[command.of].has)'
      BY <1>a, <3>2, <3>3, <3>4 DEF Says
    <3> QED
      BY <1>a, <2>2, <3>2, <3>5
  <2>5. ASSUME NEW p \in Peers \ Gone', NEW i \in 1..Len(outbox'[p]),
               outbox'[p][i].kind = command.of
        PROVE  Says(p, outbox[p][i].has)'
    <3>1. PICK j \in 1..Len(outbox[p]) : outbox'[p][i] = outbox[p][j]
      BY <1>a
    <3>2. Says(p, outbox[p][j].has)
      BY <1>4, <2>2, <2>5, <3>1 DEF Followed
    <3>3. PICK has : has = outbox[p][j].has
      OBVIOUS
    <3>4. Says(p, has)'
      BY <2>3, <3>2, <3>3
    <3> QED
      BY <3>1, <3>3, <3>4 DEF Says
  <2> QED
    BY <1>a, <2>4, <2>5 DEF Followed
<1>6. StatusHonest'
  BY <1>a DEF QueryInv, StatusHonest
<1> QED
  BY <1>a, <1>1, <1>2, <1>3, <1>5, <1>6 DEF QueryInv

\* A step of another command than a tx_status, or one that ends a command.
QueryOver ==
  /\ command.at # "idle"
  /\ UNCHANGED <<slot, heard, outbox>> /\ givenUp \subseteq givenUp'
  /\ \A k \in Kinds \ givenUp' : ~Waiting(k)
  /\ WorldTyped'
  /\ inbox' \in [Peers -> Seq(Question)]
  /\ \A p \in Peers : Calmer(inbox[p], inbox'[p])
  /\ IsCommand(command') /\ command'.at \in Stages \ {"wait"}
  /\ command'.at # "idle" => ~Open

LEMMA OverQuery ==
  ASSUME QueryInv, QueryOver
  PROVE  QueryInv'
<1>a. /\ command.at # "idle"
      /\ slot' = slot /\ heard' = heard /\ outbox' = outbox
      /\ WorldTyped' /\ inbox' \in [Peers -> Seq(Question)]
      /\ IsCommand(command') /\ command'.at \in Stages /\ command'.at # "wait"
      /\ command'.at # "idle" => ~Open
  BY DEF QueryOver
<1>b. AskTyped /\ HeardSoFar
  BY DEF QueryInv
<1>1. AskTyped'
  <2>1. slot \in [Kinds -> Held] /\ heard \in Seq(Peers)
        /\ outbox \in [Peers -> Seq(Reply)]
    BY <1>b DEF AskTyped
  <2> QED
    BY <1>a, <2>1 DEF AskTyped
<1>2. OneQuestion'
  <2>1. \A p \in Peers : /\ Calmer(inbox[p], inbox'[p])
                         /\ Calmer(outbox[p], outbox'[p])
    BY <1>a DEF QueryOver, Calmer
  <2>2. \A k \in Kinds \ givenUp' : Waiting(k) => Waiting(k)'
    BY DEF QueryOver
  <2>3. givenUp \subseteq givenUp'
    BY DEF QueryOver
  <2> QED
    BY <2>1, <2>2, <2>3, BoxesCalm DEF QueryInv
<1>3. ~Open'
  BY <1>a DEF Open
<1>4. HeardSoFar'
  BY <1>a, <1>b, <1>3 DEF HeardSoFar
<1>5. Followed'
  BY <1>3 DEF Followed
<1>6. StatusHonest'
  <2>1. heard = <<>> \/ Len(heard) = 1
    BY <1>a, <1>b DEF HeardSoFar
  <2>2. Len(heard) # 2
    BY <2>1
  <2> QED
    BY <1>a, <2>2 DEF StatusHonest
<1> QED
  BY <1>a, <1>1, <1>2, <1>4, <1>5, <1>6 DEF QueryInv

LEMMA IdleCommand == IsCommand(Idle) /\ Idle.at = "idle"
  BY DEF Idle, IsCommand

\* The boxes as they are.
LEMMA BoxesSame ==
  ASSUME QueryInv
  PROVE  /\ WorldTyped /\ AskTyped
         /\ inbox \in [Peers -> Seq(Question)] /\ outbox \in [Peers -> Seq(Reply)]
         /\ \A box : Calmer(box, box)
  BY DEF QueryInv, AskTyped, Calmer

LEMMA BroadcastKept ==
  ASSUME QueryInv, NEW tx, Broadcast(tx), UNCHANGED <<pool, mined>>
  PROVE  /\ WorldTyped' /\ inbox' \in [Peers -> Seq(Question)]
         /\ \A p \in Peers : Calmer(inbox[p], inbox'[p])
         /\ outbox' = outbox
<1>1. PICK S : made \in Seq(S)
  BY DEF QueryInv, WorldTyped
<1>2. Len(made) \in Nat
  BY <1>1, LenProperties
<1> DEFINE msg == TxInfo(Len(made) + 1)
<1>3. SendRandom(msg) /\ msg \in Question /\ msg.kind = "tx"
  BY <1>2 DEF TxInfo, Question, Broadcast
<1>4. /\ inbox' \in [Peers -> Seq(Question)] /\ outbox' = outbox
      /\ \A p \in Peers : Calmer(inbox[p], inbox'[p])
  <2> HIDE DEF msg
  <2> QED
    BY <1>3, SendOne, SendCalm DEF QueryInv
<1>5. made' \in Seq(S \cup {tx})
  <2>1. made' = Append(made, tx)
    BY DEF Broadcast
  <2>2. made \in Seq(S \cup {tx})
    BY <1>1, SeqMonotonic
  <2> QED
    BY <2>1, <2>2, AppendProperties
<1>6. WorldTyped'
  <2>1. \E R : made' \in Seq(R)
    BY <1>5
  <2> QED
    BY <2>1 DEF QueryInv, WorldTyped
<1> QED
  BY <1>4, <1>6

\* An answer that is taken ends the wait, and so does giving the question up.
LEMMA WaitEnds ==
  ASSUME \/ command.at # "wait"
         \/ slot[command.of] # NoAnswer
         \/ command.of \in givenUp'
  PROVE  \A k \in Kinds \ givenUp' : ~Waiting(k)
  BY DEF Waiting

LEMMA EndsQuery ==
  ASSUME QueryInv,
         TakeOther \/ SendValue \/ Timeout \/ Write \/ Boot
  PROVE  QueryInv'
<1>a. \A k \in Kinds \ givenUp' : ~Waiting(k)
  BY WaitEnds DEF TakeOther, SendValue, Timeout, Write, Boot, Answered
<1>1. CASE TakeOther \/ Timeout \/ Write \/ Boot
  <2>1. /\ command.at # "idle" /\ command' = Idle
        /\ UNCHANGED <<slot, heard, inbox, outbox, made, pool, mined>>
        /\ givenUp \subseteq givenUp'
    BY <1>1 DEF TakeOther, Timeout, Write, Boot, Answered, Return, netVars,
                worldVars, statVars
  <2>2. /\ WorldTyped' /\ inbox' \in [Peers -> Seq(Question)]
        /\ \A p \in Peers : Calmer(inbox[p], inbox'[p])
    BY <2>1, BoxesSame DEF WorldTyped
  <2>3. QueryOver
    BY <1>a, <2>1, <2>2, IdleCommand DEF QueryOver, Stages
  <2> QED
    BY <2>3, OverQuery
<1>2. CASE SendValue
  <2>1. /\ command.at # "idle" /\ command' = Idle
        /\ UNCHANGED <<slot, heard, pool, mined, givenUp>>
        /\ UNCHANGED <<netVars, made>> \/ \E tx : Broadcast(tx)
    BY <1>2 DEF SendValue, Answered, Return, statVars
  <2>2. /\ WorldTyped' /\ inbox' \in [Peers -> Seq(Question)]
        /\ \A p \in Peers : Calmer(inbox[p], inbox'[p])
        /\ outbox' = outbox
    <3>1. CASE UNCHANGED <<netVars, made>>
      BY <2>1, <3>1, BoxesSame DEF WorldTyped, netVars
    <3> QED
      BY <2>1, <3>1, BroadcastKept
  <2>3. QueryOver
    BY <1>a, <2>1, <2>2, IdleCommand DEF QueryOver, Stages
  <2> QED
    BY <2>3, OverQuery
<1> QED
  BY <1>1, <1>2

LEMMA SavesQuery ==
  ASSUME QueryInv, SendValueHd \/ Truncate
  PROVE  QueryInv'
<1>a. IsCommand(command)
  BY DEF QueryInv, AskTyped
<1>b. ASSUME NEW at \in Stages \ {"wait", "idle"},
             command' = [command EXCEPT !.at = at]
      PROVE  IsCommand(command') /\ command'.at = at
  <2>1. command' = [kind |-> command.kind, at |-> at, of |-> command.of,
                    arg |-> command.arg]
    BY <1>a, <1>b DEF IsCommand
  <2> QED
    BY <2>1 DEF IsCommand
<1>c. \A k \in Kinds \ givenUp' : ~Waiting(k)
  BY WaitEnds DEF SendValueHd, Truncate, Answered
<1>1. CASE SendValueHd
  <2> DEFINE tx == Built(Offered(Cached(hd)), command.arg,
                         Hd(hd.seed, "int", hd.int))
  <2>1. /\ command.kind = "sendHd" /\ command.at = "wait"
        /\ UNCHANGED <<slot, heard, pool, mined, givenUp>>
    BY <1>1 DEF SendValueHd, Answered, statVars
  <2>2. CASE tx.ins = {}
    <3>1. command' = Idle /\ UNCHANGED <<inbox, outbox, made>>
      BY <1>1, <2>2 DEF SendValueHd, Return, netVars
    <3>2. /\ WorldTyped' /\ inbox' \in [Peers -> Seq(Question)]
          /\ \A p \in Peers : Calmer(inbox[p], inbox'[p])
      BY <2>1, <3>1, BoxesSame DEF WorldTyped
    <3>3. QueryOver
      BY <1>c, <2>1, <3>1, <3>2, IdleCommand DEF QueryOver, Stages
    <3> QED
      BY <3>3, OverQuery
  <2>3. CASE tx.ins # {}
    <3>1. Broadcast(tx) /\ command' = [command EXCEPT !.at = "save"]
      BY <1>1, <2>3 DEF SendValueHd
    <3>2. /\ WorldTyped' /\ inbox' \in [Peers -> Seq(Question)]
          /\ \A p \in Peers : Calmer(inbox[p], inbox'[p])
          /\ outbox' = outbox
      <4> HIDE DEF tx
      <4> QED
        BY <2>1, <3>1, BroadcastKept
    <3>3. IsCommand(command') /\ command'.at = "save"
      BY <1>b, <3>1 DEF Stages
    <3>4. QueryOver
      BY <1>c, <2>1, <3>2, <3>3 DEF QueryOver, Open, Stages
    <3> QED
      BY <3>4, OverQuery
  <2> QED
    BY <2>2, <2>3
<1>2. CASE Truncate
  <2>1. /\ command.at = "save" /\ command' = [command EXCEPT !.at = "write"]
        /\ UNCHANGED <<slot, heard, givenUp, inbox, outbox, made, pool, mined>>
    BY <1>2 DEF Truncate, netVars, worldVars, statVars
  <2>2. IsCommand(command') /\ command'.at = "write"
    BY <1>b, <2>1 DEF Stages
  <2>3. /\ WorldTyped' /\ inbox' \in [Peers -> Seq(Question)]
        /\ \A p \in Peers : Calmer(inbox[p], inbox'[p])
    BY <2>1, BoxesSame DEF WorldTyped
  <2>4. QueryOver
    BY <1>c, <2>1, <2>2, <2>3 DEF QueryOver, Open, Stages
  <2> QED
    BY <2>4, OverQuery
<1> QED
  BY <1>1, <1>2

CommandKinds == {"status", "rbf", "balance", "send", "sendHd"}

LEMMA AskedFirst ==
  ASSUME NEW kind \in CommandKinds
  PROVE  /\ FirstAsked(kind) \in Kinds
         /\ kind = "status" => FirstAsked(kind) = "pool"
<1>1. CASE kind = "status"
  BY <1>1 DEF FirstAsked, StatusOrder, Kinds
<1>2. CASE kind = "rbf"
  BY <1>2 DEF FirstAsked, Kinds
<1>3. CASE kind \in {"balance", "send", "sendHd"}
  BY <1>3 DEF FirstAsked, Kinds
<1> QED
  BY <1>1, <1>2, <1>3 DEF CommandKinds

LEMMA CommandStarted ==
  ASSUME NEW kind, NEW arg
  PROVE  [Idle EXCEPT !.kind = kind, !.arg = arg]
           = [kind |-> kind, at |-> "idle", of |-> "pool", arg |-> arg]
<1>1. ASSUME NEW d, IsCommand(d)
      PROVE  [d EXCEPT !.kind = kind, !.arg = arg]
               = [kind |-> kind, at |-> d.at, of |-> d.of, arg |-> arg]
  <2>1. d = [kind |-> d.kind, at |-> d.at, of |-> d.of, arg |-> d.arg]
    BY <1>1 DEF IsCommand
  <2>2. PICK e : e = [d EXCEPT !.kind = kind, !.arg = arg]
    OBVIOUS
  <2>3. e = [kind |-> kind, at |-> d.at, of |-> d.of, arg |-> arg]
    BY <2>1, <2>2
  <2> QED
    BY <2>2, <2>3
<1>2. IsCommand(Idle) /\ Idle.at = "idle" /\ Idle.of = "pool"
  BY DEF Idle, IsCommand
<1> QED
  BY <1>1, <1>2

LEMMA StartsQuery ==
  ASSUME QueryInv, NEW kind \in CommandKinds, NEW arg, StartCommand(kind, arg)
  PROVE  QueryInv'
<1> DEFINE c == [Idle EXCEPT !.kind = kind, !.arg = arg]
           of == FirstAsked(kind)
<1>1. /\ Ask(c, of) /\ heard' = <<>> /\ command.at = "idle"
      /\ lapsed' = IF kind = "status"
                     THEN {p \in Peers : arg \notin pool[p] \cup mined[p]}
                     ELSE {}
      /\ UNCHANGED <<made, pool, mined, givenUp>>
  BY IdleCommand DEF StartCommand, Types, worldVars
<1>2. IsCommand(c) /\ c.kind = kind /\ c.arg = arg
  <2>1. c = [kind |-> kind, at |-> "idle", of |-> "pool", arg |-> arg]
    BY CommandStarted
  <2> HIDE DEF c
  <2> QED
    BY <2>1 DEF IsCommand
<1>3. of \in Kinds /\ (kind = "status" => of = "pool")
  BY AskedFirst
<1> HIDE DEF c, of
<1>4. \A k \in Kinds : ~Waiting(k)
  BY <1>1 DEF Waiting
<1>5. /\ inbox' \in [Peers -> Seq(Question)] /\ outbox' = outbox
      /\ slot' \in [Kinds -> Held] /\ slot'[of] = NoAnswer
      /\ OneQuestion'
      /\ of \notin givenUp => \A p \in Peers : None(outbox[p], of)
      /\ \/ command' = Idle
         \/ /\ IsCommand(command') /\ command'.at = "wait" /\ command'.of = of
            /\ command'.kind = c.kind /\ command'.arg = c.arg
  BY <1>1, <1>2, <1>3, <1>4, AskLeaves DEF QueryInv
<1>6. AskTyped'
  <2>1. IsCommand(command') /\ command'.at \in Stages
        /\ (command'.at = "wait" => command'.of \in Kinds)
    BY <1>3, <1>5, IdleCommand DEF Stages
  <2>2. heard' \in Seq(Peers)
    BY <1>1, EmptySeq
  <2>3. outbox \in [Peers -> Seq(Reply)]
    BY DEF QueryInv, AskTyped
  <2> QED
    BY <1>5, <2>1, <2>2, <2>3 DEF AskTyped
<1>7. ASSUME Open'
      PROVE  /\ command'.of = "pool" /\ command'.arg = arg
             /\ kind = "status" /\ of = "pool"
  BY <1>2, <1>3, <1>5, <1>7, IdleCommand DEF Open
<1>8. HeardSoFar'
  BY <1>1, <1>7 DEF HeardSoFar
<1>9. Followed'
  <2>1. SUFFICES ASSUME Open', Prompt' PROVE Followed'
    BY DEF Followed
  <2>2. /\ command'.of = "pool" /\ of = "pool" /\ command'.arg = arg
        /\ lapsed' = {p \in Peers : arg \notin pool[p] \cup mined[p]}
        /\ of \notin givenUp
    BY <1>1, <1>7, <2>1 DEF Prompt
  <2>3. slot'[command'.of] = NoAnswer
    BY <1>5, <2>2
  <2>4. \A p \in Peers : \A i \in 1..Len(outbox'[p]) :
          outbox'[p][i].kind # command'.of
    BY <1>5, <2>2 DEF None
  <2>5. \A p \in Peers \ Gone' : command'.arg \in pool'[p] \cup mined'[p]
    BY <1>1, <2>2 DEF Gone
  <2> QED
    BY <2>2, <2>3, <2>4, <2>5 DEF Followed
<1>10. StatusHonest'
  BY <1>1 DEF StatusHonest
<1>11. WorldTyped'
  BY <1>1 DEF QueryInv, WorldTyped
<1> QED
  BY <1>5, <1>6, <1>8, <1>9, <1>10, <1>11 DEF QueryInv

LEMMA TakesQuery ==
  ASSUME QueryInv, TakeStatus
  PROVE  QueryInv'
<1> DEFINE answer == slot[command.of]
           from == answer.from
           has == answer.has
<1>1. /\ command.at = "wait" /\ command.kind = "status" /\ answer # NoAnswer
      /\ heard' = Append(heard, from)
      /\ UNCHANGED <<made, pool, mined, lapsed, returned, givenUp>>
  BY DEF TakeStatus, Answered, worldVars
<1>2. AskTyped /\ IsCommand(command)
  BY DEF QueryInv, AskTyped
<1>3. /\ Open /\ Followed /\ command.of \in Kinds
      /\ \/ command.of = "pool" /\ heard = <<>>
         \/ command.of = "chain" /\ Len(heard) = 1
  BY <1>1 DEF QueryInv, AskTyped, HeardSoFar, Open
<1>4. from \in Peers
  BY <1>1, <1>2, <1>3 DEF AskTyped, Held
\* What the answer says of the miner that gave it.
<1>5. Prompt /\ from \notin Gone => Says(from, has)
  BY <1>1, <1>3, <1>4 DEF Followed
<1> HIDE DEF from
<1>6. /\ heard \in Seq(Peers) /\ heard' \in Seq(Peers)
      /\ Len(heard') = Len(heard) + 1 /\ heard'[Len(heard) + 1] = from
      /\ \A i \in 1..Len(heard) : heard'[i] = heard[i]
  <2>1. heard \in Seq(Peers)
    BY <1>2 DEF AskTyped
  <2> QED
    BY <1>1, <1>4, <2>1, AppendProperties
<1>7. WorldTyped' /\ (Prompt' <=> Prompt) /\ Gone' = Gone
  BY <1>1 DEF QueryInv, WorldTyped, Prompt, Gone
<1>8. \A k \in Kinds : ~Waiting(k)
  BY <1>1 DEF Waiting
<1>9. CASE command.arg \notin has /\ command.of = "pool"
  <2>1. Ask(command, "chain") /\ heard = <<>>
    BY <1>3, <1>9 DEF TakeStatus, StatusOrder
  <2>2. "chain" \in Kinds
    BY DEF Kinds
  <2>3. /\ inbox' \in [Peers -> Seq(Question)] /\ outbox' = outbox
        /\ slot' \in [Kinds -> Held] /\ slot'["chain"] = NoAnswer
        /\ OneQuestion'
        /\ "chain" \notin givenUp => \A p \in Peers : None(outbox[p], "chain")
        /\ \/ command' = Idle
           \/ /\ IsCommand(command') /\ command'.at = "wait"
              /\ command'.of = "chain"
              /\ command'.kind = command.kind /\ command'.arg = command.arg
    BY <1>1, <1>2, <1>8, <2>1, <2>2, AskLeaves DEF QueryInv
  <2>4. AskTyped'
    <3>1. outbox \in [Peers -> Seq(Reply)]
      BY <1>2 DEF AskTyped
    <3>2. IsCommand(command') /\ command'.at \in Stages
          /\ (command'.at = "wait" => command'.of \in Kinds)
      BY <2>2, <2>3, IdleCommand DEF Stages
    <3> QED
      BY <1>6, <2>3, <3>1, <3>2 DEF AskTyped
  <2>5. Len(heard') = 1 /\ heard'[1] = from
    BY <1>6, <2>1
  <2>6. Open' => command'.of = "chain" /\ command'.arg = command.arg
    BY <2>3, IdleCommand DEF Open
  <2>7. HeardSoFar'
    BY <1>1, <2>3, <2>5, <2>6, IdleCommand DEF HeardSoFar, Open
  <2>8. Followed'
    <3>1. SUFFICES ASSUME Open', Prompt' PROVE Followed'
      BY DEF Followed
    <3>2. Prompt /\ slot'[command'.of] = NoAnswer
      BY <1>7, <2>3, <2>6, <3>1
    <3>3. \A p \in Peers : \A i \in 1..Len(outbox'[p]) :
            outbox'[p][i].kind # command'.of
      BY <2>3, <2>6, <3>1, <3>2 DEF None, Prompt
    <3>4. ASSUME NEW p \in Peers \ Gone'
          PROVE  /\ command'.arg \in pool'[p] \cup mined'[p]
                 /\ heard'[1] = p => command'.arg \in mined'[p]
      <4>1. command.arg \in pool[p] \cup mined[p]
        BY <1>3, <1>7, <3>2 DEF Followed
      <4>2. from = p => command.arg \in mined[p]
        BY <1>5, <1>7, <1>9, <3>2 DEF Says
      <4> QED
        BY <1>1, <2>5, <2>6, <3>1, <4>1, <4>2
    <3> QED
      BY <3>2, <3>3, <3>4 DEF Followed
  <2>9. StatusHonest'
    BY <2>5 DEF StatusHonest
  <2> QED
    BY <1>7, <2>3, <2>4, <2>7, <2>8, <2>9 DEF QueryInv
<1>10. CASE ~(command.arg \notin has /\ command.of = "pool")
  <2>1. /\ command' = Idle /\ UNCHANGED <<inbox, outbox, slot>>
        /\ status' = IF command.arg \notin has THEN "NotFound"
                     ELSE IF command.of = "pool" THEN "Mempool" ELSE "Mined"
    BY <1>10 DEF TakeStatus, StatusOrder, Return, netVars
  <2>2. AskTyped'
    BY <1>2, <1>6, <2>1, IdleCommand DEF AskTyped, Stages
  <2>3. OneQuestion'
    <3>1. \A p \in Peers : /\ Calmer(inbox[p], inbox'[p])
                           /\ Calmer(outbox[p], outbox'[p])
      BY <2>1 DEF Calmer
    <3>2. givenUp' = givenUp
      BY <1>1
    <3> QED
      BY <1>8, <3>1, <3>2, BoxesCalm DEF QueryInv
  <2>4. HeardSoFar' /\ Followed'
    BY <2>1, IdleCommand DEF HeardSoFar, Followed, Open
  <2>5. StatusHonest'
    <3>1. SUFFICES ASSUME status' = "NotFound", Len(heard') = 2,
                          heard'[1] = heard'[2], Prompt',
                          heard'[1] \notin Gone'
                   PROVE  FALSE
      BY DEF StatusHonest, Prompt, Gone
    <3>2. command.arg \notin has /\ command.of = "chain"
      BY <1>3, <1>10, <2>1, <3>1
    <3>3. Len(heard) = 1 /\ heard'[1] = heard[1] /\ heard'[2] = from
      <4>1. Len(heard) = 1 /\ 1 \in 1..1 /\ 1 + 1 = 2
        BY <1>3, <3>2
      <4> QED
        BY <1>6, <4>1
    <3>4. Says(from, has)
      BY <1>5, <1>7, <3>1, <3>3
    <3> QED
      BY <3>1, <3>2, <3>3, <3>4 DEF Says
  <2> QED
    BY <1>7, <2>2, <2>3, <2>4, <2>5 DEF QueryInv
<1> QED
  BY <1>9, <1>10

LEMMA HandlesQuery ==
  ASSUME QueryInv, NEW p \in Peers, HandleAnswer(p)
  PROVE  QueryInv'
<1> DEFINE m == Head(outbox[p])
           new == [from |-> p, has |-> m.has]
<1>1. /\ outbox[p] # <<>> /\ slot' = [slot EXCEPT ![m.kind] = new]
      /\ outbox' = [outbox EXCEPT ![p] = Tail(@)]
      /\ UNCHANGED <<inbox, made, pool, mined, command, heard, status,
                     lapsed, returned, givenUp>>
  BY DEF HandleAnswer, SlotOf, worldVars, statVars
<1>2. AskTyped /\ OneQuestion /\ Followed
  BY DEF QueryInv
<1>3. outbox \in [Peers -> Seq(Reply)] /\ slot \in [Kinds -> Held]
      /\ outbox[p] \in Seq(Reply)
  BY <1>2 DEF AskTyped
<1>4. /\ Len(outbox[p]) \in Nat
      /\ 1 \in 1..Len(outbox[p]) /\ m = outbox[p][1]
      /\ Tail(outbox[p]) \in Seq(Reply)
      /\ Len(Tail(outbox[p])) = Len(outbox[p]) - 1
      /\ \A i \in 1..Len(Tail(outbox[p])) :
           i + 1 \in 1..Len(outbox[p]) /\ Tail(outbox[p])[i] = outbox[p][i + 1]
  <2>1. /\ Tail(outbox[p]) \in Seq(Reply)
        /\ Len(Tail(outbox[p])) = Len(outbox[p]) - 1
        /\ \A i \in 1..Len(Tail(outbox[p])) :
             Tail(outbox[p])[i] = outbox[p][i + 1]
    BY <1>1, <1>3, HeadTailProperties
  <2>2. Len(outbox[p]) \in Nat /\ Len(outbox[p]) # 0
    BY <1>1, <1>3, LenProperties, EmptySeq
  <2>3. m = outbox[p][1]
    BY <1>1, <1>3
  <2> QED
    BY <2>1, <2>2, <2>3
<1>5. /\ Calmer(outbox[p], Tail(outbox[p]))
      /\ \A k : One(outbox[p], k) /\ m.kind = k => None(Tail(outbox[p]), k)
  BY <1>1, <1>3, TailCalm
<1>6. m \in Reply
  BY <1>3, <1>4, ElementOfSeq
<1>7. m.kind \in Kinds /\ new \in Held /\ new.from = p /\ new.has = m.has
  BY <1>6 DEF Reply, Held
<1> HIDE DEF m, new
<1>8. slot' \in [Kinds -> Held]
      /\ \A k \in Kinds : slot'[k] = IF k = m.kind THEN new ELSE slot[k]
  BY <1>1, <1>3, <1>7
<1>9. outbox' \in [Peers -> Seq(Reply)]
      /\ \A r \in Peers :
           outbox'[r] = IF r = p THEN Tail(outbox[p]) ELSE outbox[r]
  BY <1>1, <1>3, <1>4
<1>10. \A r \in Peers : \A i \in 1..Len(outbox'[r]) :
         \E j \in 1..Len(outbox[r]) : outbox'[r][i] = outbox[r][j]
  BY <1>4, <1>9
<1>11. AskTyped'
  BY <1>1, <1>2, <1>8, <1>9 DEF AskTyped, IsCommand
<1>12. OneQuestion'
  <2>1. ASSUME NEW k \in Kinds \ givenUp
        PROVE  /\ \A r \in Peers : Alone(r, k)'
               /\ \A r, q \in Peers : r # q => Free(r, k)' \/ Free(q, k)'
               /\ ~Waiting(k)' => \A r \in Peers : Free(r, k)'
    <3>1. /\ \A r \in Peers : Alone(r, k)
          /\ \A r, q \in Peers : r # q => Free(r, k) \/ Free(q, k)
          /\ ~Waiting(k) => \A r \in Peers : Free(r, k)
      BY <1>2, <2>1 DEF OneQuestion
    <3>2. \A r \in Peers :
            /\ None(outbox[r], k) => None(outbox'[r], k)
            /\ One(outbox[r], k) => One(outbox'[r], k)
      BY <1>5, <1>9, <2>1 DEF Calmer
    <3>3. \A r \in Peers : /\ Free(r, k) => Free(r, k)'
                           /\ Alone(r, k) => Alone(r, k)'
      BY <1>1, <3>2 DEF Free, Alone
    <3>4. CASE k # m.kind
      <4>1. Waiting(k)' <=> Waiting(k)
        BY <1>1, <1>8, <2>1, <3>4 DEF Waiting
      <4> QED
        BY <3>1, <3>3, <4>1
    <3>5. CASE k = m.kind
      <4>1. ~None(outbox[p], k)
        BY <1>4, <3>5 DEF None
      <4>2. \A r \in Peers : r # p => Free(r, k)
        BY <3>1, <4>1 DEF Free
      <4>3. None(inbox[p], k) /\ None(outbox'[p], k)
        BY <1>5, <1>9, <3>1, <3>5, <4>1 DEF Alone
      <4>4. \A r \in Peers : Free(r, k)'
        BY <1>1, <3>3, <4>2, <4>3 DEF Free
      <4> QED
        BY <3>1, <3>3, <4>4
    <3> QED
      BY <3>4, <3>5
  <2> QED
    BY <1>1, <2>1 DEF OneQuestion
<1>13. HeardSoFar' /\ WorldTyped'
  BY <1>1 DEF QueryInv, HeardSoFar, Open, WorldTyped
<1>14. Followed'
  <2>1. SUFFICES ASSUME Open', Prompt' PROVE Followed'
    BY DEF Followed
  <2>2. Open /\ Prompt /\ command.of \in Kinds /\ Gone' = Gone
    BY <1>1, <1>2, <2>1 DEF Open, Prompt, AskTyped, Gone
  <2>3. \A r, has : Says(r, has)' <=> Says(r, has)
    BY <1>1 DEF Says
  <2>4. ASSUME NEW r \in Peers \ Gone, NEW i \in 1..Len(outbox'[r]),
               outbox'[r][i].kind = command.of
        PROVE  Says(r, outbox'[r][i].has)
    <3>1. PICK j \in 1..Len(outbox[r]) : outbox'[r][i] = outbox[r][j]
      BY <1>10
    <3> QED
      BY <1>2, <2>2, <2>4, <3>1 DEF Followed
  <2>5. ASSUME NEW r \in Peers \ Gone,
               slot'[command.of] # NoAnswer, slot'[command.of].from = r
        PROVE  Says(r, slot'[command.of].has)
    <3>1. CASE command.of = m.kind
      <4>1. r = p /\ slot'[command.of].has = m.has
        BY <1>7, <1>8, <2>2, <2>5, <3>1
      <4> QED
        BY <1>2, <1>4, <2>2, <3>1, <4>1 DEF Followed
    <3>2. CASE command.of # m.kind
      BY <1>2, <1>8, <2>2, <2>5, <3>2 DEF Followed
    <3> QED
      BY <3>1, <3>2
  <2>6. \A r \in Peers \ Gone :
          /\ command.arg \in pool[r] \cup mined[r]
          /\ command.of = "chain" /\ heard[1] = r => command.arg \in mined[r]
    BY <1>2, <2>2 DEF Followed
  <2> QED
    BY <1>1, <2>2, <2>3, <2>4, <2>5, <2>6, ZenonT(40) DEF Followed
<1>15. StatusHonest'
  BY <1>1 DEF QueryInv, StatusHonest
<1> QED
  BY <1>11, <1>12, <1>13, <1>14, <1>15 DEF QueryInv

\* The miner has taken the first message.
LEMMA InboxTail ==
  ASSUME AskTyped, NEW p \in Peers, inbox[p] # <<>>,
         inbox' = [inbox EXCEPT ![p] = Tail(@)]
  PROVE  /\ inbox' \in [Peers -> Seq(Question)]
         /\ \A r \in Peers :
              inbox'[r] = IF r = p THEN Tail(inbox[p]) ELSE inbox[r]
         /\ \A r \in Peers : Calmer(inbox[r], inbox'[r])
         /\ \A k : /\ One(inbox[p], k) /\ Head(inbox[p]).kind = k
                        => None(inbox'[p], k)
                   /\ None(inbox[p], k) => Head(inbox[p]).kind # k
         /\ Head(inbox[p]) \in Question
<1>1. inbox \in [Peers -> Seq(Question)] /\ inbox[p] \in Seq(Question)
  BY DEF AskTyped
<1>2. Tail(inbox[p]) \in Seq(Question) /\ Head(inbox[p]) \in Question
      /\ Head(inbox[p]) = inbox[p][1]
  BY <1>1, HeadTailProperties
<1>3. /\ inbox' \in [Peers -> Seq(Question)]
      /\ \A r \in Peers :
           inbox'[r] = IF r = p THEN Tail(inbox[p]) ELSE inbox[r]
  BY <1>1, <1>2
<1>4. /\ Calmer(inbox[p], Tail(inbox[p])) /\ \A box : Calmer(box, box)
      /\ \A k : One(inbox[p], k) /\ Head(inbox[p]).kind = k
                  => None(Tail(inbox[p]), k)
  BY <1>1, TailCalm DEF Calmer
<1>5. 1 \in 1..Len(inbox[p])
  <2>1. Len(inbox[p]) \in Nat /\ Len(inbox[p]) # 0
    BY <1>1, LenProperties, EmptySeq
  <2> QED
    BY <2>1
<1>6. \A k : None(inbox[p], k) => Head(inbox[p]).kind # k
  BY <1>2, <1>5 DEF None
<1>7. \A r \in Peers : Calmer(inbox[r], inbox'[r])
  BY <1>3, <1>4
<1>8. \A k : One(inbox[p], k) /\ Head(inbox[p]).kind = k => None(inbox'[p], k)
  BY <1>3, <1>4
<1> QED
  BY <1>2, <1>3, <1>6, <1>7, <1>8

LEMMA UtxosTyped ==
  ASSUME WorldTyped, NEW p \in Peers
  PROVE  Utxos(p) \subseteq Nat
<1>1. DOMAIN BaseCoins \subseteq Nat /\ mined[p] \subseteq Nat
  BY WalletAssumption DEF WorldTyped
<1> QED
  BY <1>1 DEF Utxos

LEMMA AnswersQuery ==
  ASSUME QueryInv, NEW p \in Peers, PeerAnswers(p)
  PROVE  QueryInv'
<1> DEFINE q == Head(inbox[p])
           m == [kind |-> q.kind, has |-> Has(p, q.kind)]
<1>1. /\ inbox[p] # <<>> /\ q.kind # "tx"
      /\ outbox' = [outbox EXCEPT ![p] = Append(@, m)]
      /\ inbox' = [inbox EXCEPT ![p] = Tail(@)]
      /\ UNCHANGED <<made, pool, mined, slot, command, heard, status,
                     lapsed, returned, givenUp>>
  BY DEF PeerAnswers, worldVars, askVars, statVars
<1>2. AskTyped /\ OneQuestion /\ Followed /\ WorldTyped /\ HeardSoFar
  BY DEF QueryInv
<1>3. /\ inbox' \in [Peers -> Seq(Question)] /\ q \in Question
      /\ \A r \in Peers : Calmer(inbox[r], inbox'[r])
      /\ \A k : /\ One(inbox[p], k) /\ q.kind = k => None(inbox'[p], k)
                /\ None(inbox[p], k) => q.kind # k
  BY <1>1, <1>2, InboxTail
<1>4. m \in Reply /\ m.kind \in Kinds /\ m.has = Has(p, m.kind) /\ m.kind = q.kind
  <2>1. q.kind \in Kinds
    BY <1>1, <1>3 DEF Question
  <2>2. Has(p, q.kind) \in SUBSET Nat
    <3>1. pool[p] \subseteq Nat /\ mined[p] \subseteq Nat /\ Utxos(p) \subseteq Nat
      BY <1>2, UtxosTyped DEF WorldTyped
    <3>2. CASE q.kind = "pool"
      BY <3>1, <3>2 DEF Has
    <3>3. CASE q.kind = "chain"
      BY <3>1, <3>3 DEF Has
    <3>4. CASE q.kind = "utxos"
      BY <3>1, <3>4 DEF Has
    <3> QED
      BY <2>1, <3>2, <3>3, <3>4 DEF Kinds
  <2> DEFINE has == Has(p, q.kind)
  <2> HIDE DEF q, has
  <2>3. m \in Reply /\ m.kind = q.kind /\ m.has = has
    BY <2>1, <2>2 DEF Reply, has
  <2> HIDE DEF m
  <2> QED
    BY <2>1, <2>3 DEF has
<1> HIDE DEF m, q
<1>5. /\ outbox \in [Peers -> Seq(Reply)] /\ outbox[p] \in Seq(Reply)
      /\ Len(outbox[p]) \in Nat
  BY <1>2, LenProperties DEF AskTyped
<1>6. /\ Append(outbox[p], m) \in Seq(Reply)
      /\ Len(Append(outbox[p], m)) = Len(outbox[p]) + 1
      /\ \A i \in 1..Len(outbox[p]) : Append(outbox[p], m)[i] = outbox[p][i]
      /\ Append(outbox[p], m)[Len(outbox[p]) + 1] = m
  BY <1>4, <1>5, AppendProperties
<1>7. outbox' \in [Peers -> Seq(Reply)]
      /\ \A r \in Peers :
           outbox'[r] = IF r = p THEN Append(outbox[p], m) ELSE outbox[r]
  BY <1>1, <1>5, <1>6
<1>8. \A i \in 1..(Len(outbox[p]) + 1) :
        i \in 1..Len(outbox[p]) \/ i = Len(outbox[p]) + 1
  BY <1>5
<1>9. \A r \in Peers : \A i \in 1..Len(outbox'[r]) :
        \/ i \in 1..Len(outbox[r]) /\ outbox'[r][i] = outbox[r][i]
        \/ r = p /\ outbox'[r][i] = m
  BY <1>6, <1>7, <1>8
<1>10. AskTyped'
  BY <1>1, <1>2, <1>3, <1>7 DEF AskTyped, IsCommand
<1>11. OneQuestion'
  <2>1. ASSUME NEW k \in Kinds \ givenUp
        PROVE  /\ \A r \in Peers : Alone(r, k)'
               /\ \A r, s \in Peers : r # s => Free(r, k)' \/ Free(s, k)'
               /\ ~Waiting(k)' => \A r \in Peers : Free(r, k)'
    <3>1. /\ \A r \in Peers : Alone(r, k)
          /\ \A r, s \in Peers : r # s => Free(r, k) \/ Free(s, k)
          /\ ~Waiting(k) => \A r \in Peers : Free(r, k)
      BY <1>2, <2>1 DEF OneQuestion
    <3>2. Waiting(k)' <=> Waiting(k)
      BY <1>1 DEF Waiting
    <3>3. \A r \in Peers : /\ None(inbox[r], k) => None(inbox'[r], k)
                           /\ One(inbox[r], k) => One(inbox'[r], k)
      BY <1>3, <2>1 DEF Calmer
    <3>4. /\ m.kind # k /\ None(outbox[p], k) => None(outbox'[p], k)
          /\ m.kind # k /\ One(outbox[p], k) => One(outbox'[p], k)
          /\ None(outbox[p], k) => One(outbox'[p], k)
      <4>1. outbox'[p] = Append(outbox[p], m)
        BY <1>7
      <4>2. outbox[p] \in Seq(Reply) /\ m \in Reply
        BY <1>4, <1>5
      <4> QED
        BY <4>1, <4>2, AppendCalm
    <3>5. \A r \in Peers : r # p => outbox'[r] = outbox[r]
      BY <1>7
    <3>6. \A r \in Peers : r # p => /\ Free(r, k) => Free(r, k)'
                                    /\ Alone(r, k) => Alone(r, k)'
      BY <3>3, <3>5 DEF Free, Alone
    <3>7. CASE m.kind # k
      <4>1. (Free(p, k) => Free(p, k)') /\ (Alone(p, k) => Alone(p, k)')
        BY <3>3, <3>4, <3>7 DEF Free, Alone
      <4> QED
        BY <3>1, <3>2, <3>6, <4>1
    <3>8. CASE m.kind = k
      <4>1. ~None(inbox[p], k) /\ None(inbox'[p], k)
        BY <1>3, <1>4, <3>1, <3>8 DEF Alone
      <4>2. None(outbox[p], k) /\ One(inbox[p], k)
        BY <3>1, <4>1 DEF Alone
      <4>3. Alone(p, k)'
        BY <3>3, <3>4, <4>1, <4>2 DEF Alone
      <4>4. ~Free(p, k)
        BY <4>1 DEF Free
      <4>5. Waiting(k)' /\ \A r \in Peers : r # p => Free(r, k)'
        BY <3>1, <3>2, <3>6, <4>4
      <4> QED
        BY <3>1, <3>6, <4>3, <4>5
    <3> QED
      BY <3>7, <3>8
  <2> QED
    BY <1>1, <2>1 DEF OneQuestion
<1>12. HeardSoFar' /\ WorldTyped'
  BY <1>1, <1>2 DEF HeardSoFar, Open, WorldTyped
<1>13. StatusHonest'
  BY <1>1 DEF QueryInv, StatusHonest
<1>14. Followed'
  <2>1. SUFFICES ASSUME Open', Prompt' PROVE Followed'
    BY DEF Followed
  <2>2. Open /\ Prompt /\ Gone' = Gone
    BY <1>1, <2>1 DEF Open, Prompt, Gone
  <2>3. \A r, has : Says(r, has)' <=> Says(r, has)
    BY <1>1 DEF Says
  <2>4. ASSUME p \notin Gone, m.kind = command.of
        PROVE  Says(p, m.has)
    <3>1. /\ command.arg \in pool[p] \cup mined[p]
          /\ command.of = "chain" /\ heard[1] = p => command.arg \in mined[p]
      BY <1>2, <2>2, <2>4 DEF Followed
    <3>2. CASE command.of = "pool"
      <4>1. m.has = pool[p]
        BY <1>4, <2>4, <3>2 DEF Has
      <4> QED
        BY <3>1, <3>2, <4>1 DEF Says
    <3>3. CASE command.of = "chain"
      <4>1. m.has = mined[p]
        BY <1>4, <2>4, <3>3 DEF Has
      <4> QED
        BY <3>1, <3>3, <4>1 DEF Says
    <3> QED
      BY <1>2, <2>2, <3>2, <3>3 DEF HeardSoFar
  <2>5. ASSUME NEW r \in Peers \ Gone, NEW i \in 1..Len(outbox'[r]),
               outbox'[r][i].kind = command.of
        PROVE  Says(r, outbox'[r][i].has)
    <3>1. CASE i \in 1..Len(outbox[r]) /\ outbox'[r][i] = outbox[r][i]
      BY <1>2, <2>2, <2>5, <3>1 DEF Followed
    <3>2. CASE r = p /\ outbox'[r][i] = m
      BY <2>4, <2>5, <3>2
    <3> QED
      BY <1>9, <3>1, <3>2
  <2>6. \A r \in Peers \ Gone :
          /\ command.arg \in pool[r] \cup mined[r]
          /\ command.of = "chain" /\ heard[1] = r => command.arg \in mined[r]
          /\ slot[command.of] # NoAnswer /\ slot[command.of].from = r
               => Says(r, slot[command.of].has)
    BY <1>2, <2>2 DEF Followed
  <2> QED
    BY <1>1, <2>2, <2>3, <2>5, <2>6 DEF Followed
<1> QED
  BY <1>10, <1>11, <1>12, <1>13, <1>14 DEF QueryInv

\* What a step of a miner does to the pools, the blocks and the questions.
LEMMA WorldQuery ==
  ASSUME QueryInv, NEW p \in Peers,
         \/ PeerTakesTx(p) \/ PeerMines(p) \/ PeerUnmines(p) \/ PeerDies(p)
         \/ \E q \in Peers : PeerHearsTx(p, q)
  PROVE  QueryInv'
<1>a. /\ WorldTyped /\ AskTyped
      /\ inbox \in [Peers -> Seq(Question)] /\ outbox \in [Peers -> Seq(Reply)]
      /\ \A box : Calmer(box, box)
      /\ pool \in [Peers -> SUBSET Nat] /\ mined \in [Peers -> SUBSET Nat]
  BY BoxesSame DEF WorldTyped
<1>b. \A r \in Peers : \A i \in 1..Len(outbox[r]) :
        \E j \in 1..Len(outbox[r]) : outbox[r][i] = outbox[r][j]
  OBVIOUS
\* A transaction comes into the pool.
<1>1. ASSUME NEW t \in Nat, Pools(p, t), UNCHANGED <<mined, command, returned>>
      PROVE  /\ pool' \in [Peers -> SUBSET Nat] /\ lapsed \subseteq lapsed'
             /\ Open => \A r \in Peers \ Gone' :
                          command.arg \in pool[r] \cup mined[r]
                            => command.arg \in pool'[r] \cup mined'[r]
  <2> DEFINE rivals == {u \in pool[p] : made[u].ins \cap made[t].ins # {}}
  <2>1. pool' = [pool EXCEPT ![p] = (@ \ rivals) \cup {t}] /\ Lapse(p, rivals)
    BY <1>1 DEF Pools
  <2> HIDE DEF rivals
  <2>2. pool' \in [Peers -> SUBSET Nat]
    BY <1>a, <2>1
  <2>3. \A r \in Peers : pool'[r] = IF r = p THEN (pool[p] \ rivals) \cup {t}
                                    ELSE pool[r]
    BY <1>a, <2>1
  <2>4. lapsed \subseteq lapsed'
        /\ (Open /\ command.arg \in rivals => p \in Gone')
    BY <2>1 DEF Lapse, AskedFor, Open, Gone
  <2> QED
    BY <1>1, <2>2, <2>3, <2>4
<1>2. CASE PeerTakesTx(p)
  <2> DEFINE t == Head(inbox[p]).tx
  <2>1. /\ inbox[p] # <<>> /\ inbox' = [inbox EXCEPT ![p] = Tail(@)]
        /\ Pools(p, t) \/ UNCHANGED <<pool, lapsed>>
        /\ UNCHANGED <<outbox, made, mined, slot, command, heard, status,
                       returned, givenUp>>
    BY <1>2 DEF PeerTakesTx, askVars
  <2>2. /\ inbox' \in [Peers -> Seq(Question)] /\ t \in Nat
        /\ \A r \in Peers : Calmer(inbox[r], inbox'[r])
    BY <1>a, <2>1, InboxTail DEF Question
  <2>3. /\ pool' \in [Peers -> SUBSET Nat] /\ lapsed \subseteq lapsed'
        /\ Open => \A r \in Peers \ Gone' :
                     command.arg \in pool[r] \cup mined[r]
                       => command.arg \in pool'[r] \cup mined'[r]
    BY <1>1, <1>a, <2>1, <2>2
  <2>4. WorldTyped'
    BY <1>a, <2>1, <2>3 DEF WorldTyped
  <2>5. QueryKept
    BY <1>a, <1>b, <2>1, <2>2, <2>3, <2>4 DEF QueryKept
  <2> QED
    BY <2>5, KeptQuery
<1>3. ASSUME NEW q \in Peers, PeerHearsTx(p, q)
      PROVE  QueryInv'
  <2>1. PICK t \in pool[q] : Pools(p, t)
    BY <1>3 DEF PeerHearsTx
  <2>2. UNCHANGED <<inbox, outbox, made, mined, slot, command, heard,
                    status, returned, givenUp>>
    BY <1>3 DEF PeerHearsTx, netVars, askVars
  <2>3. t \in Nat
    BY <1>a
  <2>4. /\ pool' \in [Peers -> SUBSET Nat] /\ lapsed \subseteq lapsed'
        /\ Open => \A r \in Peers \ Gone' :
                     command.arg \in pool[r] \cup mined[r]
                       => command.arg \in pool'[r] \cup mined'[r]
    BY <1>1, <2>1, <2>2, <2>3
  <2>5. WorldTyped'
    BY <1>a, <2>2, <2>4 DEF WorldTyped
  <2>6. QueryKept
    BY <1>a, <1>b, <2>2, <2>4, <2>5 DEF QueryKept
  <2> QED
    BY <2>6, KeptQuery
<1>4. CASE PeerMines(p)
  <2>1. PICK t \in (pool[p] \cup UNION {mined[q] : q \in Peers}) \ mined[p] :
          /\ mined' = [mined EXCEPT ![p] = @ \cup {t}]
          /\ pool' = [pool EXCEPT ![p] = @ \ {t}]
    BY <1>4 DEF PeerMines
  <2>2. UNCHANGED <<inbox, outbox, made, slot, command, heard, status,
                    lapsed, returned, givenUp>>
    BY <1>4 DEF PeerMines, netVars, askVars, statVars
  <2>3. t \in Nat
    BY <1>a
  <2>4. /\ mined' \in [Peers -> SUBSET Nat] /\ pool' \in [Peers -> SUBSET Nat]
        /\ \A r \in Peers :
             /\ mined'[r] = IF r = p THEN mined[p] \cup {t} ELSE mined[r]
             /\ pool'[r] = IF r = p THEN pool[p] \ {t} ELSE pool[r]
    BY <1>a, <2>1, <2>3
  <2>5. WorldTyped'
    BY <1>a, <2>2, <2>4 DEF WorldTyped
  <2>6. \A r \in Peers \ Gone' :
          /\ command.arg \in mined[r] => command.arg \in mined'[r]
          /\ command.arg \in pool[r] \cup mined[r]
               => command.arg \in pool'[r] \cup mined'[r]
    BY <2>4
  <2>7. QueryKept
    BY <1>a, <1>b, <2>2, <2>5, <2>6 DEF QueryKept
  <2> QED
    BY <2>7, KeptQuery
<1>5. CASE PeerUnmines(p)
  <2>1. PICK t \in mined[p] :
          /\ mined' = [mined EXCEPT ![p] = @ \ {t}]
          /\ pool' = [pool EXCEPT ![p] = @ \cup {t}]
          /\ returned' = IF AskedFor({t}) THEN returned \cup {p} ELSE returned
    BY <1>5 DEF PeerUnmines
  <2>2. UNCHANGED <<inbox, outbox, made, slot, command, heard, status, lapsed,
                    givenUp>>
    BY <1>5 DEF PeerUnmines, netVars, askVars
  <2>3. t \in Nat
    BY <1>a
  <2>4. /\ mined' \in [Peers -> SUBSET Nat] /\ pool' \in [Peers -> SUBSET Nat]
        /\ \A r \in Peers :
             /\ mined'[r] = IF r = p THEN mined[p] \ {t} ELSE mined[r]
             /\ pool'[r] = IF r = p THEN pool[p] \cup {t} ELSE pool[r]
    BY <1>a, <2>1, <2>3
  <2>5. WorldTyped'
    BY <1>a, <2>2, <2>4 DEF WorldTyped
  <2>6. returned \subseteq returned' /\ (Open /\ command.arg = t => p \in Gone')
    BY <2>1 DEF AskedFor, Open, Gone
  <2>7. Open => \A r \in Peers \ Gone' :
          /\ command.arg \in mined[r] => command.arg \in mined'[r]
          /\ command.arg \in pool[r] \cup mined[r]
               => command.arg \in pool'[r] \cup mined'[r]
    BY <2>4, <2>6
  <2>8. QueryKept
    BY <1>a, <1>b, <2>2, <2>5, <2>6, <2>7 DEF QueryKept
  <2> QED
    BY <2>8, KeptQuery
<1>6. CASE PeerDies(p)
  <2>1. /\ inbox' = [inbox EXCEPT ![p] = <<>>]
        /\ outbox' = [outbox EXCEPT ![p] = <<>>]
        /\ UNCHANGED <<made, pool, mined, slot, command, heard, status,
                       lapsed, returned, givenUp>>
    BY <1>6 DEF PeerDies, worldVars, askVars, statVars
  <2>2. /\ <<>> \in Seq(Question) /\ <<>> \in Seq(Reply)
        /\ \A i \in 1..Len(<<>>) : FALSE
        /\ \A box : Calmer(box, <<>>)
    BY EmptySeq, EmptyCalm
  <2>3. /\ outbox' \in [Peers -> Seq(Reply)]
        /\ \A r \in Peers : outbox'[r] = IF r = p THEN <<>> ELSE outbox[r]
    BY <1>a, <2>1, <2>2
  <2>4. /\ inbox' \in [Peers -> Seq(Question)]
        /\ \A r \in Peers : inbox'[r] = IF r = p THEN <<>> ELSE inbox[r]
    BY <1>a, <2>1, <2>2
  <2>5. WorldTyped'
    BY <1>a, <2>1 DEF WorldTyped
  <2>6. \A r \in Peers : \A i \in 1..Len(outbox'[r]) :
          \E j \in 1..Len(outbox[r]) : outbox'[r][i] = outbox[r][j]
    BY <2>2, <2>3
  <2>7. \A r \in Peers : /\ Calmer(inbox[r], inbox'[r])
                         /\ Calmer(outbox[r], outbox'[r])
    BY <1>a, <2>2, <2>3, <2>4
  <2>8. QueryKept
    BY <1>a, <2>1, <2>3, <2>4, <2>5, <2>6, <2>7 DEF QueryKept
  <2> QED
    BY <2>8, KeptQuery
<1> QED
  BY <1>2, <1>3, <1>4, <1>5, <1>6

LEMMA CrashQuery ==
  ASSUME QueryInv, Crash
  PROVE  QueryInv'
<1>1. /\ command' = [Idle EXCEPT !.at = "down"] /\ heard' = <<>>
      /\ slot' = [of \in DOMAIN slot |-> NoAnswer]
      /\ outbox' = [p \in Peers |-> <<>>]
      /\ \/ inbox' = [p \in Peers |-> <<>>]
         \/ inbox' = [p \in Peers |-> TxsOnly(inbox[p])]
      /\ UNCHANGED <<made, pool, mined>>
  BY DEF Crash, worldVars
<1>2. /\ inbox \in [Peers -> Seq(Question)] /\ WorldTyped
      /\ slot \in [Kinds -> Held]
  BY DEF QueryInv, AskTyped
<1>3. /\ <<>> \in Seq(Question) /\ <<>> \in Seq(Reply) /\ <<>> \in Seq(Peers)
      /\ Len(<<>>) = 0 /\ \A k : None(<<>>, k)
  BY EmptySeq, EmptyCalm
<1>4. \A p \in Peers : /\ TxsOnly(inbox[p]) \in Seq(Question)
                       /\ \A k \in Kinds : None(TxsOnly(inbox[p]), k)
  BY <1>2, TxsOnlyKept
<1>5. /\ inbox' \in [Peers -> Seq(Question)]
      /\ \A p \in Peers : \A k \in Kinds : None(inbox'[p], k)
  BY <1>1, <1>3, <1>4
<1>6. IsCommand(command') /\ command'.at = "down"
  <2>1. command' = [kind |-> Idle.kind, at |-> "down", of |-> Idle.of,
                    arg |-> Idle.arg]
    BY <1>1, IdleCommand DEF IsCommand
  <2> QED
    BY <2>1 DEF IsCommand
<1>7. slot' \in [Kinds -> Held]
  BY <1>1, <1>2 DEF Held
<1>8. /\ outbox' \in [Peers -> Seq(Reply)]
      /\ \A p \in Peers : \A k \in Kinds : None(outbox'[p], k)
  BY <1>1, <1>3
<1>9. AskTyped'
  BY <1>1, <1>3, <1>5, <1>6, <1>7, <1>8 DEF AskTyped, Stages
<1>10. OneQuestion'
  <2>1. \A p \in Peers : \A k \in Kinds : Free(p, k)' /\ Alone(p, k)'
    BY <1>5, <1>8 DEF Free, Alone, None, One
  <2> QED
    BY <2>1 DEF OneQuestion
<1>11. ~Open'
  BY <1>6 DEF Open
<1> QED
  BY <1>1, <1>2, <1>3, <1>6, <1>9, <1>10, <1>11
  DEF QueryInv, WorldTyped, HeardSoFar, Followed, StatusHonest

LEMMA SameQuery ==
  ASSUME QueryInv, UNCHANGED <<inbox, outbox, worldVars, slot, command, statVars>>
  PROVE  QueryInv'
<1>1. UNCHANGED <<inbox, outbox, made, pool, mined, slot, command, heard,
                  status, lapsed, returned, givenUp>>
  BY DEF worldVars, statVars
<1>2. QueryKept
  BY <1>1, BoxesSame DEF QueryKept, WorldTyped
<1> QED
  BY <1>2, KeptQuery

LEMMA InitQuery == Init => QueryInv
<1> SUFFICES ASSUME Init PROVE QueryInv
  OBVIOUS
<1>1. /\ made = <<>> /\ pool = [p \in Peers |-> {}]
      /\ mined = [p \in Peers |-> {}]
      /\ inbox = [p \in Peers |-> <<>>] /\ outbox = [p \in Peers |-> <<>>]
      /\ slot = [of \in Kinds |-> NoAnswer]
      /\ command = Idle /\ heard = <<>>
  BY DEF Init, Kinds
<1>2. /\ <<>> \in Seq(Question) /\ <<>> \in Seq(Reply) /\ <<>> \in Seq(Peers)
      /\ Len(<<>>) = 0 /\ \A k : None(<<>>, k)
      /\ <<>> \in Seq({})
  BY EmptySeq, EmptyCalm
<1>3. WorldTyped
  BY <1>1, <1>2 DEF WorldTyped
<1>4. AskTyped
  BY <1>1, <1>2, IdleCommand DEF AskTyped, Stages, Held
<1>5. OneQuestion
  <2>1. \A p \in Peers : \A k \in Kinds : Free(p, k) /\ Alone(p, k)
    BY <1>1, <1>2 DEF Free, Alone, None, One
  <2> QED
    BY <2>1 DEF OneQuestion
<1>6. ~Open /\ command.at = "idle" /\ Len(heard) # 2
  BY <1>1, <1>2, IdleCommand DEF Open
<1> QED
  BY <1>3, <1>4, <1>5, <1>6 DEF QueryInv, HeardSoFar, Followed, StatusHonest

LEMMA NextQuery == QueryInv /\ [Next]_vars => QueryInv'
<1> SUFFICES ASSUME QueryInv, [Next]_vars PROVE QueryInv'
  OBVIOUS
<1>1. CASE Command
  <2>1. \E kind \in CommandKinds : \E arg : StartCommand(kind, arg)
    BY <1>1 DEF Command, CommandKinds
  <2> QED
    BY <2>1, StartsQuery
<1>2. CASE MainThread
  BY <1>2, TakesQuery, EndsQuery, SavesQuery DEF MainThread
<1>3. CASE NewAddress \/ Tick \/ UNCHANGED vars
  <2>1. UNCHANGED <<inbox, outbox, worldVars, slot, command, statVars>>
    BY <1>3 DEF NewAddress, Tick, vars, netVars, askVars
  <2> QED
    BY <2>1, SameQuery
<1>4. CASE Boot \/ Crash
  BY <1>4, EndsQuery, CrashQuery
<1>5. ASSUME NEW p \in Peers, HandleAnswer(p) \/ ReadError(p) \/ Peer(p)
      PROVE  QueryInv'
  <2>1. CASE ReadError(p)
    <3>1. UNCHANGED <<inbox, outbox, worldVars, slot, command, statVars>>
      BY <2>1 DEF ReadError, askVars
    <3> QED
      BY <3>1, SameQuery
  <2>2. CASE HandleAnswer(p) \/ PeerAnswers(p)
    BY <2>2, HandlesQuery, AnswersQuery
  <2> QED
    BY <1>5, <2>1, <2>2, WorldQuery DEF Peer
<1> QED
  BY <1>1, <1>2, <1>3, <1>4, <1>5 DEF Next

\* The messages under way, the answers on their way to a tx_status and those it
\* has taken are what QueryInv states.
THEOREM QueryInvariance == Spec => []QueryInv
  BY InitQuery, NextQuery, PTL DEF Spec

\* When tx_status has asked one miner for its pool and then for its chain, no
\* question was given up before, and it says "not found", the miner let go of
\* the transaction meanwhile or took it off its chain: a block between the two
\* answers does not hide it, and no answer to an earlier command is taken for
\* the present one's, whatever the commands, miners, losses and crashes
\* (wallet.cpp get_tx_status, msg_cache.cpp).
THEOREM NotFoundIsHonest == Spec => []StatusHonest
<1>1. QueryInv => StatusHonest
  BY DEF QueryInv
<1> QED
  BY <1>1, QueryInvariance, PTL

-----------------------------------------------------------------------------
(* The search of the coin selection. *)

LEMMA TotalIsSum ==
  ASSUME NEW vals, NEW S
  PROVE  Total(vals, S) = SumOver(vals, S)
  BY DEF Total, SumOver

LEMMA TotalTyped ==
  ASSUME NEW vals \in Seq(Nat), NEW S \in SUBSET (1..Len(vals))
  PROVE  /\ IsFiniteSet(S) /\ Total(vals, S) \in Nat
         /\ \A T \in SUBSET S : Total(vals, T) <= Total(vals, S)
<1>1. Len(vals) \in Nat /\ \A k \in 1..Len(vals) : vals[k] \in Nat
  BY LenProperties, ElementOfSeq
<1>2. IsFiniteSet(S) /\ \A k \in S : vals[k] \in Nat
  <2>1. IsFiniteSet(1..Len(vals))
    BY <1>1, FS_Interval
  <2> QED
    BY <1>1, <2>1, FS_Subset
<1> QED
  BY <1>2, TotalIsSum, SumTyped, SumGrows

\* What the search meets at depth d with the selection S, if g tells it of the
\* next depth.
Branch(vals, target, d, S, g) ==
  IF d > Len(vals) THEN <<>>
  ELSE (IF Total(vals, S \cup {d}) >= target THEN <<S \cup {d}>>
        ELSE IF Total(vals, (S \cup {d}) \cup (d + 1)..Len(vals)) >= target
               THEN g[d + 1][S \cup {d}] ELSE <<>>)
       \o (IF Total(vals, S \cup (d + 1)..Len(vals)) >= target
             THEN g[d + 1][S] ELSE <<>>)

Searches(vals, target, g) ==
  g = [d \in 1..(Len(vals) + 1) |->
         [S \in SUBSET (1..Len(vals)) |-> Branch(vals, target, d, S, g)]]

LEMMA MetIsSearch ==
  ASSUME NEW vals \in Seq(Nat), NEW target \in Nat
  PROVE  Met(vals, target) = (CHOOSE g : Searches(vals, target, g))[1][{}]
  BY DEF Met, Searches, Branch, Reaches

LEMMA BestIs ==
  ASSUME NEW vals \in Seq(Nat), NEW target \in Nat,
         Met(vals, target) \in Seq(SUBSET Nat)
  PROVE  BranchAndBound(target)[vals] =
           LET i == FirstBest(vals, Met(vals, target))
           IN  IF i = 0 THEN {}
               ELSE IF Total(vals, Met(vals, target)[i]) > target + CostOfChange
                      THEN {} ELSE Met(vals, target)[i]
  BY DEF BranchAndBound, Best

LEMMA LargestIs ==
  ASSUME NEW vals \in Seq(Nat), NEW target \in Nat
  PROVE  LargestFirst(target)[vals] =
           LET enough == {n \in 1..Len(vals) : Total(vals, 1..n) > target}
           IN  IF enough = {} THEN {} ELSE 1..Min(enough)
  BY DEF LargestFirst

\* What is so of n + 1, and of d whenever it is so of d + 1, is so from 1 on.
LEMMA DownToOne ==
  ASSUME NEW n \in Nat, NEW Good, n + 1 \in Good,
         \A d \in 1..n : d + 1 \in Good => d \in Good
  PROVE  \A d \in 1..(n + 1) : d \in Good
<1> DEFINE Bad == {m \in 0..n : n + 1 - m \notin Good}
<1>1. ASSUME NEW m \in Bad
      PROVE  \E k \in Bad : k < m
  <2>1. m \in 0..n /\ n + 1 - m \notin Good
    OBVIOUS
  <2>2. m # 0
    BY <2>1
  <2>3. n + 1 - m \in 1..n /\ (n + 1 - m) + 1 = n + 1 - (m - 1)
    BY <2>1, <2>2
  <2>4. n + 1 - (m - 1) \notin Good
    BY <2>1, <2>3
  <2>5. m - 1 \in Bad /\ m - 1 < m
    BY <2>1, <2>2, <2>4
  <2> QED
    BY <2>5
<1>2. Bad = {}
  <2>1. Bad \in SUBSET Nat
    OBVIOUS
  <2> HIDE DEF Bad
  <2> QED
    BY <1>1, <2>1, NoLeast
<1>3. ASSUME NEW d \in 1..(n + 1)
      PROVE  d \in Good
  <2>1. n + 1 - d \in 0..n /\ n + 1 - (n + 1 - d) = d
    OBVIOUS
  <2>2. n + 1 - d \notin Bad
    BY <1>2
  <2>3. n + 1 - (n + 1 - d) \in Good
    BY <2>1, <2>2
  <2> QED
    BY <2>1, <2>3
<1> QED
  BY <1>3

LEMMA SearchExists ==
  ASSUME NEW vals \in Seq(Nat), NEW target \in Nat
  PROVE  \E g : Searches(vals, target, g)
<1> DEFINE n == Len(vals)
           Row(d, g) == [S \in SUBSET (1..n) |-> Branch(vals, target, d, S, g)]
           From(d, g) == \A e \in d..(n + 1) : g[e] = Row(e, g)
           Good == {d \in 1..(n + 1) : \E g : From(d, g)}
<1>1. n \in Nat
  BY LenProperties
<1>2. ASSUME NEW e \in 1..(n + 1), NEW g, NEW h, e \in 1..n => g[e + 1] = h[e + 1]
      PROVE  Row(e, g) = Row(e, h)
  <2>1. \A S \in SUBSET (1..n) :
          Branch(vals, target, e, S, g) = Branch(vals, target, e, S, h)
    <3>1. CASE e > n
      BY <3>1 DEF Branch
    <3>2. CASE ~ (e > n)
      <4>1. g[e + 1] = h[e + 1]
        BY <1>1, <1>2, <3>2
      <4> QED
        BY <4>1 DEF Branch
    <3> QED
      BY <3>1, <3>2
  <2> QED
    BY <2>1
<1> HIDE DEF Row
<1>3. n + 1 \in Good
  <2> DEFINE g == [d \in 1..(n + 1) |-> Row(d, <<>>)]
  <2>1. n + 1 \in 1..(n + 1) /\ \A e \in (n + 1)..(n + 1) : e = n + 1
    BY <1>1
  <2>2. g[n + 1] = Row(n + 1, <<>>)
    BY <2>1
  <2>3. Row(n + 1, <<>>) = Row(n + 1, g)
    <3> HIDE DEF g
    <3>1. n + 1 \notin 1..n
      BY <1>1
    <3> HIDE DEF n
    <3> QED
      BY <1>2, <2>1, <3>1
  <2>4. From(n + 1, g)
    <3> HIDE DEF g
    <3> QED
      BY <2>1, <2>2, <2>3
  <2> QED
    BY <2>1, <2>4
<1>4. ASSUME NEW d \in 1..n, d + 1 \in Good
      PROVE  d \in Good
  <2>1. PICK g : From(d + 1, g)
    BY <1>4
  <2> DEFINE h == [e \in 1..(n + 1) |-> IF e = d THEN Row(d, g) ELSE g[e]]
  <2>2. /\ d \in 1..(n + 1)
        /\ \A e \in d..(n + 1) : e \in 1..(n + 1) /\ (e # d => e \in (d + 1)..(n + 1))
        /\ \A e \in d..(n + 1) : e \in 1..n => e + 1 \in (d + 1)..(n + 1)
    BY <1>1
  <2>3. \A e \in (d + 1)..(n + 1) : h[e] = g[e]
    BY <1>1
  <2>4. h[d] = Row(d, g)
    BY <2>2
  <2> HIDE DEF h
  <2>5. ASSUME NEW e \in d..(n + 1)
        PROVE  h[e] = Row(e, h)
    <3>1. Row(e, g) = Row(e, h)
      <4> HIDE DEF n
      <4> QED
        BY <1>2, <2>2, <2>3
    <3>2. h[e] = Row(e, g)
      BY <2>1, <2>2, <2>3, <2>4
    <3> QED
      BY <3>1, <3>2
  <2>6. From(d, h)
    BY <2>5
  <2> QED
    BY <2>2, <2>6
<1>5. 1 \in Good
  <2> HIDE DEF Good
  <2>1. 1 \in 1..(n + 1)
    BY <1>1
  <2> QED
    BY <1>1, <1>3, <1>4, <2>1, DownToOne
<1>6. PICK g : From(1, g)
  BY <1>5
<1>7. Searches(vals, target, [e \in 1..(n + 1) |-> g[e]])
  <2> DEFINE h == [e \in 1..(n + 1) |-> g[e]]
  <2>1. \A e \in 1..(n + 1) : h[e] = Row(e, h)
    <3>1. \A e \in 1..(n + 1) : e \in 1..n => e + 1 \in 1..(n + 1)
      BY <1>1
    <3>2. \A e \in 1..(n + 1) : h[e] = g[e]
      OBVIOUS
    <3> HIDE DEF h, n
    <3> QED
      BY <1>2, <1>6, <3>1, <3>2
  <2>2. h = [e \in 1..(n + 1) |-> Row(e, h)]
    BY <2>1
  <2> HIDE DEF h
  <2> QED
    BY <2>2 DEF Searches, Row, h
<1> QED
  BY <1>7

\* Whatever selection reaches the target, from S and what is decided from
\* depth d on, the search meets one that does with no larger sum.
Complete(vals, target, d, S, met) ==
  /\ met \in Seq(SUBSET (1..Len(vals)))
  /\ \A i \in 1..Len(met) : met[i] # {} /\ Total(vals, met[i]) >= target
  /\ S = {} \/ Total(vals, S) < target =>
       \A U \in SUBSET (d..Len(vals)) :
         S \cup U # {} /\ Total(vals, S \cup U) >= target
           => \E i \in 1..Len(met) : Total(vals, met[i]) <= Total(vals, S \cup U)

LEMMA SearchComplete ==
  ASSUME NEW vals \in Seq(Nat), NEW target \in Nat
  PROVE  Complete(vals, target, 1, {}, Met(vals, target))
<1> DEFINE n == Len(vals)
           g == CHOOSE f : Searches(vals, target, f)
           Good == {d \in 1..(n + 1) :
                      \A S \in SUBSET (1..(d - 1)) :
                        Complete(vals, target, d, S, g[d][S])}
<1>1. n \in Nat
  BY LenProperties
<1>2. \A d \in 1..(n + 1), S \in SUBSET (1..n) :
        g[d][S] = Branch(vals, target, d, S, g)
  <2>1. Searches(vals, target, g)
    BY SearchExists
  <2> HIDE DEF g
  <2>2. g = [d \in 1..(n + 1) |->
               [S \in SUBSET (1..n) |-> Branch(vals, target, d, S, g)]]
    BY <2>1 DEF Searches
  <2>3. \A d \in 1..(n + 1) :
          g[d] = [S \in SUBSET (1..n) |-> Branch(vals, target, d, S, g)]
    BY <2>2, Zenon
  <2> QED
    BY <2>3, Zenon
<1>3. \A S \in SUBSET (1..n) : Total(vals, S) \in Nat /\ \A T \in SUBSET S : Total(vals, T) <= Total(vals, S)
  BY TotalTyped
<1> HIDE DEF g
<1>4. n + 1 \in Good
  <2>1. ASSUME NEW S \in SUBSET (1..n)
        PROVE  Complete(vals, target, n + 1, S, g[n + 1][S])
    <3>1. g[n + 1][S] = <<>>
      <4>1. n + 1 \in 1..(n + 1) /\ n + 1 > n
        BY <1>1
      <4> QED
        BY <1>2, <4>1 DEF Branch
    <3>2. \A U \in SUBSET ((n + 1)..n) : S \cup U = S
      <4>1. (n + 1)..n = {}
        BY <1>1
      <4> QED
        BY <4>1
    <3>3. <<>> \in Seq(SUBSET (1..n)) /\ Len(<<>>) = 0
          /\ \A i \in 1..Len(<<>>) : FALSE
      BY EmptySeq
    <3>4. Total(vals, S) \in Nat
      BY <1>3
    <3>5. S = {} \/ Total(vals, S) < target =>
            \A U \in SUBSET ((n + 1)..n) :
              ~ (S \cup U # {} /\ Total(vals, S \cup U) >= target)
      <4>1. ~ (Total(vals, S) >= target /\ Total(vals, S) < target)
        BY <3>4
      <4> QED
        BY <3>2, <4>1
    <3> QED
      BY <3>1, <3>3, <3>5 DEF Complete
  <2>2. n + 1 \in 1..(n + 1) /\ (n + 1) - 1 = n
    BY <1>1
  <2> QED
    BY <2>1, <2>2
<1>5. ASSUME NEW d \in 1..n, d + 1 \in Good, NEW S \in SUBSET (1..(d - 1))
      PROVE  Complete(vals, target, d, S, g[d][S])
  <2> DEFINE T == S \cup {d}
             rest == (d + 1)..n
             with == IF Total(vals, T) >= target THEN <<T>>
                     ELSE IF Total(vals, T \cup rest) >= target THEN g[d + 1][T]
                     ELSE <<>>
             without == IF Total(vals, S \cup rest) >= target THEN g[d + 1][S]
                        ELSE <<>>
             Sels == SUBSET (1..n)
  <2>1. /\ d \in 1..(n + 1) /\ ~ (d > n) /\ (d + 1) - 1 = d
        /\ S \in Sels /\ T \in Sels /\ T # {}
        /\ T \in SUBSET (1..d) /\ S \in SUBSET (1..d)
        /\ T \cup rest \in Sels /\ S \cup rest \in Sels
    <3> HIDE DEF n
    <3>1. /\ d \in 1..(n + 1) /\ ~ (d > n) /\ (d + 1) - 1 = d
          /\ \A k \in 1..(d - 1) : k \in 1..n /\ k \in 1..d
          /\ d \in 1..d
          /\ \A k \in (d + 1)..n : k \in 1..n
      BY <1>1
    <3> QED
      BY <3>1
  <2>2. g[d][S] = with \o without
    BY <1>2, <2>1 DEF Branch
  <2>3. \A R \in SUBSET (1..d) : Complete(vals, target, d + 1, R, g[d + 1][R])
    BY <1>5, <2>1
  <2>4. /\ with \in Seq(Sels)
        /\ \A i \in 1..Len(with) : with[i] # {} /\ Total(vals, with[i]) >= target
    <3>1. CASE Total(vals, T) >= target
      <4>1. <<T>> \in Seq(Sels) /\ Len(<<T>>) = 1 /\ <<T>>[1] = T
        <5> HIDE DEF T, Sels
        <5> QED
          BY <2>1
      <4> HIDE DEF T, Sels
      <4> QED
        BY <2>1, <3>1, <4>1
    <3>2. CASE ~ (Total(vals, T) >= target)
      <4>1. <<>> \in Seq(Sels) /\ \A i \in 1..Len(<<>>) : FALSE
        BY EmptySeq
      <4>2. /\ g[d + 1][T] \in Seq(Sels)
            /\ \A i \in 1..Len(g[d + 1][T]) :
                 g[d + 1][T][i] # {} /\ Total(vals, g[d + 1][T][i]) >= target
        BY <2>1, <2>3 DEF Complete
      <4>3. with = <<>> \/ with = g[d + 1][T]
        BY <3>2
      <4> HIDE DEF with, T, Sels
      <4> QED
        BY <4>1, <4>2, <4>3
    <3> QED
      BY <3>1, <3>2
  <2>5. /\ without \in Seq(Sels)
        /\ \A i \in 1..Len(without) :
             without[i] # {} /\ Total(vals, without[i]) >= target
    <3>1. <<>> \in Seq(Sels) /\ \A i \in 1..Len(<<>>) : FALSE
      BY EmptySeq
    <3>2. /\ g[d + 1][S] \in Seq(Sels)
          /\ \A i \in 1..Len(g[d + 1][S]) :
               g[d + 1][S][i] # {} /\ Total(vals, g[d + 1][S][i]) >= target
      BY <2>1, <2>3 DEF Complete
    <3>3. without = <<>> \/ without = g[d + 1][S]
      OBVIOUS
    <3> HIDE DEF without, Sels
    <3> QED
      BY <3>1, <3>2, <3>3
  <2>6. ASSUME S = {} \/ Total(vals, S) < target,
               NEW U \in SUBSET (d..n), S \cup U # {},
               Total(vals, S \cup U) >= target
        PROVE  \/ \E i \in 1..Len(with) :
                    Total(vals, with[i]) <= Total(vals, S \cup U)
               \/ \E i \in 1..Len(without) :
                    Total(vals, without[i]) <= Total(vals, S \cup U)
    <3>a. S \cup U \in Sels /\ Total(vals, S \cup U) \in Nat
      <4>1. S \cup U \in Sels
        BY <1>1
      <4> QED
        BY <1>3, <4>1
    <3>1. CASE d \notin U
      <4>1. U \in SUBSET rest /\ S \cup U \in SUBSET (S \cup rest)
        BY <1>1, <3>1
      <4>2. Total(vals, S \cup U) <= Total(vals, S \cup rest)
            /\ Total(vals, S \cup rest) \in Nat
        BY <1>3, <2>1, <4>1
      <4>3. without = g[d + 1][S]
        BY <2>6, <3>a, <4>2
      <4> QED
        BY <2>1, <2>3, <2>6, <4>1, <4>3 DEF Complete
    <3>2. CASE d \in U /\ Total(vals, T) >= target
      <4>1. T \in SUBSET (S \cup U)
        BY <3>2
      <4>2. Total(vals, T) <= Total(vals, S \cup U)
        BY <1>3, <3>a, <4>1
      <4>3. with = <<T>>
        BY <3>2
      <4>4. 1 \in 1..Len(with) /\ with[1] = T
        <5> HIDE DEF T, with
        <5>1. Len(<<T>>) = 1 /\ <<T>>[1] = T
          OBVIOUS
        <5> QED
          BY <4>3, <5>1
      <4> HIDE DEF with, T
      <4> QED
        BY <4>2, <4>4, Zenon
    <3>3. CASE d \in U /\ ~ (Total(vals, T) >= target)
      <4> DEFINE V == U \ {d}
      <4>1. /\ V \in SUBSET rest /\ T \cup V = S \cup U
            /\ S \cup U \in SUBSET (T \cup rest)
        BY <1>1, <3>3
      <4>2. /\ Total(vals, S \cup U) <= Total(vals, T \cup rest)
            /\ Total(vals, T \cup rest) \in Nat /\ Total(vals, T) \in Nat
        BY <1>3, <2>1, <4>1
      <4>3. with = g[d + 1][T] /\ Total(vals, T) < target
        BY <2>6, <3>a, <3>3, <4>2
      <4>4. Complete(vals, target, d + 1, T, g[d + 1][T])
        BY <2>1, <2>3
      <4>5. \E i \in 1..Len(g[d + 1][T]) :
              Total(vals, g[d + 1][T][i]) <= Total(vals, T \cup V)
        <5> HIDE DEF T, V
        <5> QED
          BY <2>6, <4>1, <4>3, <4>4 DEF Complete
      <4> QED
        BY <4>1, <4>3, <4>5
    <3> QED
      BY <3>1, <3>2, <3>3
  <2> HIDE DEF with, without, Sels
  <2>7. /\ with \o without \in Seq(Sels)
        /\ Len(with \o without) = Len(with) + Len(without)
        /\ \A i \in 1..(Len(with) + Len(without)) :
             (with \o without)[i] = IF i <= Len(with) THEN with[i]
                                    ELSE without[i - Len(with)]
        /\ Len(with) \in Nat /\ Len(without) \in Nat
    BY <2>4, <2>5, ConcatProperties, LenProperties
  <2> DEFINE met == with \o without
  <2>8. ASSUME NEW i \in 1..Len(met)
        PROVE  \/ i \in 1..Len(with) /\ met[i] = with[i]
               \/ i - Len(with) \in 1..Len(without)
                  /\ met[i] = without[i - Len(with)]
    BY <2>7
  <2>9. /\ \A i \in 1..Len(with) : i \in 1..Len(met) /\ met[i] = with[i]
        /\ \A i \in 1..Len(without) :
             Len(with) + i \in 1..Len(met) /\ met[Len(with) + i] = without[i]
    BY <2>7
  <2> HIDE DEF met
  <2>10. \A i \in 1..Len(met) : met[i] # {} /\ Total(vals, met[i]) >= target
    BY <2>4, <2>5, <2>8
  <2>11. S = {} \/ Total(vals, S) < target =>
           \A U \in SUBSET (d..n) :
             S \cup U # {} /\ Total(vals, S \cup U) >= target
               => \E i \in 1..Len(met) :
                    Total(vals, met[i]) <= Total(vals, S \cup U)
    <3>1. SUFFICES ASSUME S = {} \/ Total(vals, S) < target,
                          NEW U \in SUBSET (d..n), S \cup U # {},
                          Total(vals, S \cup U) >= target
                   PROVE  \E i \in 1..Len(met) :
                            Total(vals, met[i]) <= Total(vals, S \cup U)
      OBVIOUS
    <3>2. CASE \E i \in 1..Len(with) :
                 Total(vals, with[i]) <= Total(vals, S \cup U)
      BY <2>9, <3>2
    <3>3. CASE \E i \in 1..Len(without) :
                 Total(vals, without[i]) <= Total(vals, S \cup U)
      BY <2>9, <3>3
    <3> QED
      BY <2>6, <3>1, <3>2, <3>3
  <2>12. met \in Seq(SUBSET (1..n)) /\ g[d][S] = met
    BY <2>2, <2>7 DEF met, Sels
  <2> QED
    BY <2>10, <2>11, <2>12 DEF Complete
<1>6. 1 \in Good
  <2>1. \A d \in 1..n : d + 1 \in Good => d \in Good
    <3>1. \A d \in 1..n : d \in 1..(n + 1)
      BY <1>1
    <3> QED
      BY <1>5, <3>1
  <2>2. 1 \in 1..(n + 1)
    BY <1>1
  <2> HIDE DEF Good
  <2> QED
    BY <1>1, <1>4, <2>1, <2>2, DownToOne
<1>7. {} \in SUBSET (1..(1 - 1))
  OBVIOUS
<1>8. Complete(vals, target, 1, {}, g[1][{}])
  BY <1>6, <1>7
<1> QED
  BY <1>8, MetIsSearch DEF g

-----------------------------------------------------------------------------
(* What is selected. *)

LEMMA FirstBestFound ==
  ASSUME NEW vals \in Seq(Nat), NEW met \in Seq(SUBSET (1..Len(vals)))
  PROVE  IF met = <<>>
           THEN FirstBest(vals, met) = 0
           ELSE /\ FirstBest(vals, met) \in 1..Len(met)
                /\ \A i \in 1..Len(met) :
                     Total(vals, met[FirstBest(vals, met)]) <= Total(vals, met[i])
<1> DEFINE I == {i \in 1..Len(met) : \A R \in Range(met) :
                                       Total(vals, met[i]) <= Total(vals, R)}
           sums == {Total(vals, met[i]) : i \in 1..Len(met)}
<1>1. FirstBest(vals, met) = IF I # {} THEN Min(I) ELSE 0
  BY DEF FirstBest, SelectInSeq
<1>2. /\ Len(met) \in Nat /\ DOMAIN met = 1..Len(met)
      /\ \A i \in 1..Len(met) : Total(vals, met[i]) \in Nat
  <2>1. \A i \in 1..Len(met) : met[i] \in SUBSET (1..Len(vals))
    BY ElementOfSeq
  <2> QED
    BY <2>1, LenProperties, TotalTyped
<1>3. Range(met) = {met[i] : i \in 1..Len(met)}
  BY <1>2 DEF Range
<1>4. CASE met = <<>>
  <2>1. Len(met) = 0
    BY <1>4, EmptySeq
  <2>2. I = {}
    BY <2>1
  <2> QED
    BY <1>1, <1>4, <2>2
<1>5. CASE met # <<>>
  <2>1. 1 \in 1..Len(met)
    BY <1>5, EmptySeq
  <2>2. sums \in SUBSET Nat /\ sums # {}
    BY <1>2, <2>1
  <2>3. PICK least \in sums : \A s \in sums : least <= s
    <3>1. Min(sums) \in sums /\ \A s \in sums : Min(sums) <= s
      <4> HIDE DEF sums
      <4> QED
        BY <2>2, MinInside
    <3> QED
      BY <3>1
  <2>4. PICK k \in 1..Len(met) : least = Total(vals, met[k])
    OBVIOUS
  <2>5. k \in I
    BY <1>3, <2>3, <2>4
  <2>6. I \in SUBSET Nat
    OBVIOUS
  <2>7. Min(I) \in I
    <3> HIDE DEF I
    <3> QED
      BY <2>5, <2>6, MinInside
  <2>8. /\ FirstBest(vals, met) \in 1..Len(met)
        /\ \A R \in Range(met) :
             Total(vals, met[FirstBest(vals, met)]) <= Total(vals, R)
    BY <1>1, <2>5, <2>7
  <2> QED
    BY <1>3, <1>5, <2>8
<1> QED
  BY <1>4, <1>5

\* branch_and_bound_select: no selection of coins that reaches the target has
\* a smaller sum than its result; if it has none, all of them waste too much.
LEMMA BoundedSelection ==
  ASSUME NEW vals \in Seq(Nat), NEW target \in Nat
  PROVE  LET R == BranchAndBound(target)[vals]
             Sums(U) == U # {} /\ Total(vals, U) >= target
         IN  /\ R \in SUBSET (1..Len(vals))
             /\ R # {} => /\ Total(vals, R) >= target
                          /\ Total(vals, R) <= target + CostOfChange
                          /\ \A U \in SUBSET (1..Len(vals)) :
                               Sums(U) => Total(vals, R) <= Total(vals, U)
             /\ R = {} => \A U \in SUBSET (1..Len(vals)) :
                            Sums(U) => Total(vals, U) > target + CostOfChange
<1> DEFINE met == Met(vals, target)
           i == FirstBest(vals, met)
           R == BranchAndBound(target)[vals]
<1>1. /\ met \in Seq(SUBSET (1..Len(vals)))
      /\ \A k \in 1..Len(met) : met[k] # {} /\ Total(vals, met[k]) >= target
      /\ \A U \in SUBSET (1..Len(vals)) :
           U # {} /\ Total(vals, U) >= target
             => \E k \in 1..Len(met) : Total(vals, met[k]) <= Total(vals, U)
  <2>1. \A U : {} \cup U = U
    OBVIOUS
  <2> QED
    BY <2>1, SearchComplete DEF Complete
<1>2. met \in Seq(SUBSET Nat)
  <2>1. SUBSET (1..Len(vals)) \subseteq SUBSET Nat
    OBVIOUS
  <2> HIDE DEF met
  <2> QED
    BY <1>1, <2>1, SeqMonotonic
<1>3. R = IF i = 0 THEN {}
          ELSE IF Total(vals, met[i]) > target + CostOfChange THEN {} ELSE met[i]
  BY <1>2, BestIs
<1>4. \A k \in 1..Len(met) : met[k] \in SUBSET (1..Len(vals))
                             /\ Total(vals, met[k]) \in Nat
  <2> HIDE DEF met
  <2> QED
    BY <1>1, ElementOfSeq, TotalTyped
<1>5. \A U \in SUBSET (1..Len(vals)) : Total(vals, U) \in Nat
  BY TotalTyped
<1>6. CostOfChange \in Nat
  BY WalletAssumption
<1> HIDE DEF met, R
<1>7. IF met = <<>> THEN i = 0
      ELSE i \in 1..Len(met)
           /\ \A k \in 1..Len(met) : Total(vals, met[i]) <= Total(vals, met[k])
  BY <1>1, FirstBestFound
<1> HIDE DEF i
<1>8. CASE met = <<>>
  <2>1. R = {}
    BY <1>3, <1>7, <1>8
  <2>2. Len(met) = 0
    BY <1>8, EmptySeq
  <2>3. \A U \in SUBSET (1..Len(vals)) : ~ (U # {} /\ Total(vals, U) >= target)
    BY <1>1, <2>2
  <2> QED
    BY <2>1, <2>3 DEF R
<1>9. CASE met # <<>>
  <2>1. /\ i \in 1..Len(met) /\ i # 0
        /\ \A k \in 1..Len(met) : Total(vals, met[i]) <= Total(vals, met[k])
    BY <1>7, <1>9
  <2>2. /\ met[i] \in SUBSET (1..Len(vals)) /\ Total(vals, met[i]) \in Nat
        /\ met[i] # {} /\ Total(vals, met[i]) >= target
    BY <1>1, <1>4, <2>1
  <2>3. ASSUME NEW U \in SUBSET (1..Len(vals)), U # {}, Total(vals, U) >= target
        PROVE  Total(vals, met[i]) <= Total(vals, U)
    <3>1. PICK k \in 1..Len(met) : Total(vals, met[k]) <= Total(vals, U)
      BY <1>1, <2>3
    <3>2. Total(vals, met[i]) <= Total(vals, met[k])
      BY <2>1
    <3>3. Total(vals, met[k]) \in Nat /\ Total(vals, U) \in Nat
      BY <1>4, <1>5
    <3> QED
      BY <2>2, <3>1, <3>2, <3>3
  <2>4. CASE Total(vals, met[i]) > target + CostOfChange
    <3>1. R = {}
      BY <1>3, <2>1, <2>4
    <3>2. \A U \in SUBSET (1..Len(vals)) :
            U # {} /\ Total(vals, U) >= target
              => Total(vals, U) > target + CostOfChange
      BY <1>5, <1>6, <2>2, <2>3, <2>4, SMTT(40)
    <3> QED
      BY <3>1, <3>2 DEF R
  <2>5. CASE ~ (Total(vals, met[i]) > target + CostOfChange)
    <3>1. R = met[i]
      BY <1>3, <2>1, <2>5
    <3>2. Total(vals, R) <= target + CostOfChange
      BY <1>6, <2>2, <2>5, <3>1
    <3> QED
      BY <2>2, <2>3, <3>1, <3>2 DEF R
  <2> QED
    BY <2>4, <2>5
<1> QED
  BY <1>8, <1>9

LEMMA LargestSelection ==
  ASSUME NEW vals \in Seq(Nat), NEW target \in Nat
  PROVE  LET R == LargestFirst(target)[vals]
         IN  /\ R \in SUBSET (1..Len(vals))
             /\ R # {} => Total(vals, R) > target
<1> DEFINE enough == {n \in 1..Len(vals) : Total(vals, 1..n) > target}
           R == LargestFirst(target)[vals]
<1>1. R = IF enough = {} THEN {} ELSE 1..Min(enough)
  BY LargestIs
<1>2. CASE enough = {}
  BY <1>1, <1>2
<1>3. CASE enough # {}
  <2>1. enough \in SUBSET Nat
    OBVIOUS
  <2>2. Min(enough) \in enough
    <3> HIDE DEF enough
    <3> QED
      BY <1>3, <2>1, MinInside
  <2>3. Min(enough) \in 1..Len(vals) /\ Total(vals, 1..Min(enough)) > target
    BY <2>2
  <2>4. Len(vals) \in Nat
    BY LenProperties
  <2>5. 1..Min(enough) \in SUBSET (1..Len(vals))
    <3> DEFINE m == Min(enough)
    <3>1. m \in 1..Len(vals)
      BY <2>3
    <3> HIDE DEF m
    <3>2. \A k \in 1..m : k \in 1..Len(vals)
      BY <2>4, <3>1
    <3> QED
      BY <3>2 DEF m
  <2> QED
    BY <1>1, <1>3, <2>3, <2>5
<1> QED
  BY <1>2, <1>3

-----------------------------------------------------------------------------
(* Coins in order. *)

Known == DOMAIN made \cup DOMAIN BaseCoins

\* What the coins known are worth.
Worth == [c \in Known |-> CoinOf(c).value]

\* How many of the coins are ahead, and one.
Place(c, cs) == Cardinality({d \in cs : Ahead(d, c)}) + 1

InOrder(s) == \A i, j \in DOMAIN s : i < j => Ahead(s[i], s[j])

\* Ahead orders the coins strictly and completely.
LEMMA AheadOrders ==
  ASSUME NEW cs \in SUBSET Nat, \A c \in cs : CoinOf(c).value \in Nat
  PROVE  /\ \A c \in cs : ~ Ahead(c, c)
         /\ \A c, d \in cs : c # d => Ahead(c, d) \/ Ahead(d, c)
         /\ \A c, d, e \in cs : Ahead(c, d) /\ Ahead(d, e) => Ahead(c, e)
  BY DEF Ahead

LEMMA PlaceOrders ==
  ASSUME NEW cs \in SUBSET Nat, IsFiniteSet(cs),
         \A c \in cs : CoinOf(c).value \in Nat
  PROVE  /\ \A c \in cs : Place(c, cs) \in 1..Cardinality(cs)
         /\ \A c, d \in cs : Ahead(c, d) => Place(c, cs) < Place(d, cs)
<1> DEFINE Before(c) == {d \in cs : Ahead(d, c)}
<1>1. \A c \in cs : IsFiniteSet(Before(c)) /\ Cardinality(Before(c)) \in Nat
  <2>1. ASSUME NEW c \in cs
        PROVE  IsFiniteSet(Before(c)) /\ Cardinality(Before(c)) \in Nat
    <3>1. Before(c) \in SUBSET cs
      OBVIOUS
    <3> HIDE DEF Before
    <3> QED
      BY <3>1, FS_Subset, FS_CardinalityType
  <2> QED
    BY <2>1
<1>2. ASSUME NEW c \in cs, NEW D \in SUBSET cs, Before(c) \subseteq D, c \in D
      PROVE  Cardinality(Before(c)) + 1 <= Cardinality(D)
  <2>1. c \notin Before(c)
    BY AheadOrders
  <2>2. IsFiniteSet(D) /\ IsFiniteSet(Before(c) \cup {c})
        /\ Cardinality(Before(c) \cup {c}) = Cardinality(Before(c)) + 1
    <3> HIDE DEF Before
    <3> QED
      BY <1>1, <2>1, FS_Subset, FS_AddElement
  <2>3. Before(c) \cup {c} \in SUBSET D
    BY <1>2
  <2>4. Cardinality(Before(c) \cup {c}) <= Cardinality(D)
    <3> HIDE DEF Before
    <3> QED
      BY <2>2, <2>3, FS_Subset
  <2> QED
    BY <2>2, <2>4
<1>3. Cardinality(cs) \in Nat
  BY FS_CardinalityType
<1>4. \A c \in cs : Place(c, cs) = Cardinality(Before(c)) + 1
  BY DEF Place
<1>5. \A c \in cs : Place(c, cs) \in 1..Cardinality(cs)
  <2>1. ASSUME NEW c \in cs
        PROVE  Place(c, cs) \in 1..Cardinality(cs)
    <3>1. Before(c) \subseteq cs /\ cs \in SUBSET cs
      OBVIOUS
    <3> HIDE DEF Before
    <3>2. Cardinality(Before(c)) + 1 <= Cardinality(cs)
      BY <1>2, <3>1
    <3> QED
      BY <1>1, <1>3, <1>4, <3>2
  <2> QED
    BY <2>1
<1>6. ASSUME NEW c \in cs, NEW d \in cs, Ahead(c, d)
      PROVE  Place(c, cs) < Place(d, cs)
  <2>1. Before(c) \subseteq Before(d) /\ c \in Before(d) /\ Before(d) \in SUBSET cs
    BY <1>6, AheadOrders
  <2> HIDE DEF Before
  <2>2. Cardinality(Before(c)) + 1 <= Cardinality(Before(d))
    BY <1>2, <2>1
  <2> QED
    BY <1>1, <1>4, <2>2
<1> QED
  BY <1>5, <1>6

LEMMA SortedFound ==
  ASSUME NEW cs \in SUBSET Nat, IsFiniteSet(cs),
         \A c \in cs : CoinOf(c).value \in Nat
  PROVE  /\ Cardinality(cs) \in Nat
         /\ Sorted(cs) \in Bijection(1..Cardinality(cs), cs)
<1> DEFINE n == Cardinality(cs)
           place == [c \in cs |-> Place(c, cs)]
           Right(s) == s \in [1..n -> cs] /\ InOrder(s)
<1>1. n \in Nat /\ IsFiniteSet(1..n) /\ Cardinality(1..n) = n
  <2>1. n \in Nat
    BY FS_CardinalityType
  <2> HIDE DEF n
  <2>2. IsFiniteSet(1..n) /\ Cardinality(1..n) = IF 1 > n THEN 0 ELSE n - 1 + 1
    BY <2>1, FS_Interval
  <2> QED
    BY <2>1, <2>2
<1>2. /\ \A c \in cs : place[c] \in 1..n
      /\ \A c, d \in cs : Ahead(c, d) => place[c] < place[d]
  BY PlaceOrders
<1>3. place \in Injection(cs, 1..n)
  <2>1. place \in [cs -> 1..n]
    BY <1>2
  <2>2. ASSUME NEW c \in cs, NEW d \in cs, place[c] = place[d]
        PROVE  c = d
    <3> HIDE DEF place
    <3> QED
      BY <1>2, <2>2, AheadOrders
  <2> HIDE DEF place
  <2> QED
    BY <2>1, <2>2 DEF Injection, IsInjective
<1>4. \A k \in 1..n : \E c \in cs : place[c] = k
  <2> HIDE DEF place
  <2>1. place \in Surjection(cs, 1..n)
    <3>1. Cardinality(cs) = Cardinality(1..n)
      BY <1>1 DEF n
    <3> HIDE DEF n
    <3> QED
      BY <1>1, <1>3, <3>1, FS_Injection
  <2> QED
    BY <2>1 DEF Surjection
<1>5. \E s : Right(s)
  <2> DEFINE s == [k \in 1..n |-> CHOOSE c \in cs : place[c] = k]
  <2> HIDE DEF place
  <2>1. \A k \in 1..n : s[k] \in cs /\ place[s[k]] = k
    BY <1>4
  <2>2. s \in [1..n -> cs]
    BY <2>1
  <2>3. DOMAIN s = 1..n
    OBVIOUS
  <2> HIDE DEF s
  <2>4. ASSUME NEW i \in 1..n, NEW j \in 1..n, i < j
        PROVE  Ahead(s[i], s[j])
    <3>1. /\ s[i] \in cs /\ s[j] \in cs
          /\ place[s[i]] = i /\ place[s[j]] = j /\ ~ (j < i)
      BY <2>1, <2>4
    <3>2. s[i] # s[j]
      BY <2>4, <3>1
    <3>3. ~ Ahead(s[j], s[i])
      BY <1>2, <3>1
    <3> QED
      BY <3>1, <3>2, <3>3, AheadOrders
  <2> QED
    BY <2>2, <2>3, <2>4 DEF InOrder
<1>6. Right(Sorted(cs))
  <2>1. Sorted(cs) = CHOOSE s \in [1..n -> cs] : InOrder(s)
    BY DEF Sorted, InOrder
  <2> QED
    BY <1>5, <2>1
<1>7. Sorted(cs) \in Injection(1..n, cs)
  <2> DEFINE s == Sorted(cs)
  <2> HIDE DEF s
  <2>1. s \in [1..n -> cs] /\ DOMAIN s = 1..n /\ InOrder(s)
    BY <1>6 DEF s
  <2>2. ASSUME NEW i \in 1..n, NEW j \in 1..n, s[i] = s[j]
        PROVE  i = j
    <3>1. s[i] \in cs /\ ~ Ahead(s[i], s[i])
      BY <2>1, AheadOrders
    <3>2. ~ (i < j) /\ ~ (j < i)
      BY <2>1, <2>2, <3>1 DEF InOrder
    <3> QED
      BY <3>2
  <2> QED
    BY <2>1, <2>2 DEF s, Injection, IsInjective
<1>8. Sorted(cs) \in Surjection(1..n, cs)
  <2>1. Cardinality(cs) = Cardinality(1..n)
    BY <1>1 DEF n
  <2> HIDE DEF n
  <2> QED
    BY <1>7, <2>1, FS_Injection
<1> QED
  BY <1>1, <1>7, <1>8 DEF Bijection

LEMMA ValueIsSum ==
  ASSUME NEW cs, IsFiniteSet(cs), NEW v, \A c \in cs : v[c] = CoinOf(c).value
  PROVE  ValueOf(cs) = SumOver(v, cs)
<1> DEFINE Fold(g) == g = [s \in SUBSET cs |->
                             IF s = {} THEN 0
                             ELSE CoinOf(First(s)).value + g[Others(s)]]
           h == CHOOSE g : Fold(g)
<1>1. ValueOf(cs) = h[cs]
  BY DEF ValueOf, MapThenSumSet, MapThenFoldSet, First, Others
<1>2. \A s \in SUBSET cs : s # {} => v[First(s)] = CoinOf(First(s)).value
  BY FirstInside
<1>3. ASSUME NEW g
      PROVE  Fold(g) <=> Folds(v, cs, g)
  BY <1>2 DEF Folds
<1>4. Fold(h)
  BY <1>3, FoldsExist
<1> HIDE DEF h, Fold
<1> QED
  BY <1>1, <1>3, <1>4, FoldIsSum

\* A sum over positions is the sum over what is there.
LEMMA SumMoved ==
  ASSUME NEW P, IsFiniteSet(P), NEW C, NEW s \in Bijection(P, C), IsFiniteSet(C),
         NEW v, \A c \in C : v[c] \in Nat,
         NEW w, \A k \in P : w[k] = v[s[k]],
         NEW K \in SUBSET P,
         NEW D, \A k \in K : s[k] \in D, \A c \in D : \E k \in K : s[k] = c
  PROVE  SumOver(w, K) = SumOver(v, D)
<1> DEFINE At(L) == {s[k] : k \in L}
           Bad == {L \in SUBSET K : SumOver(w, L) # SumOver(v, At(L))}
<1>1. /\ \A k \in P : s[k] \in C
      /\ \A j, k \in P : s[j] = s[k] => j = k
  BY DEF Bijection, Injection, IsInjective
<1>2. \A L \in SUBSET K : IsFiniteSet(L) /\ IsFiniteSet(At(L)) /\ At(L) \in SUBSET C
  <2>1. \A L \in SUBSET K : At(L) \in SUBSET C /\ L \in SUBSET P
    BY <1>1
  <2> HIDE DEF At
  <2> QED
    BY <2>1, FS_Subset
<1>3. ASSUME NEW L \in Bad
      PROVE  \E M \in Bad : M \subseteq L /\ M # L
  <2>1. L \in SUBSET K /\ SumOver(w, L) # SumOver(v, At(L))
    OBVIOUS
  <2>2. L # {}
    <3>1. At({}) = {}
      OBVIOUS
    <3>2. SumOver(w, {}) = 0 /\ SumOver(v, {}) = 0
      BY SumOfNothing
    <3> QED
      BY <2>1, <3>1, <3>2
  <2>3. PICK k \in L : TRUE
    BY <2>2
  <2> DEFINE M == L \ {k}
  <2>4. /\ M \in SUBSET K /\ M \subseteq L /\ M # L /\ k \in P /\ s[k] \in C
        /\ At(M) = At(L) \ {s[k]} /\ s[k] \in At(L)
    BY <1>1, <2>1, <2>3
  <2>5. SumOver(w, L) = w[k] + SumOver(w, M)
    <3>1. \A j \in L : w[j] \in Nat
      BY <1>1, <2>1
    <3> QED
      BY <1>2, <2>1, <2>3, <3>1, SumRemove
  <2>6. SumOver(v, At(L)) = v[s[k]] + SumOver(v, At(M))
    <3>1. IsFiniteSet(At(L)) /\ \A c \in At(L) : v[c] \in Nat
      BY <1>2, <2>1
    <3>2. SumOver(v, At(L)) = v[s[k]] + SumOver(v, At(L) \ {s[k]})
      <4> HIDE DEF At
      <4> QED
        BY <2>4, <3>1, SumRemove
    <3> QED
      BY <2>4, <3>2
  <2>7. SumOver(w, M) # SumOver(v, At(M))
    BY <2>1, <2>4, <2>5, <2>6
  <2> QED
    BY <2>4, <2>7
<1>4. Bad = {}
  <2>1. IsFiniteSet(K) /\ Bad \in SUBSET SUBSET K
    BY FS_Subset
  <2> HIDE DEF Bad
  <2> QED
    BY <1>3, <2>1, NoSmallest
<1>5. K \in SUBSET K /\ K \notin Bad
  BY <1>4
<1>6. SumOver(w, K) = SumOver(v, At(K)) /\ At(K) = D
  BY <1>5
<1> QED
  BY <1>6

\* SelectionOptimal of one transaction, with v what the coins are worth.
Optimal(tx, v) ==
  LET target == tx.amount + FeeEst
      value == SumOver(v, tx.ins)
      Reaching == {S \in SUBSET tx.offered :
                     S # {} /\ SumOver(v, S) >= target}
  IN  IF tx.change = 0
        THEN /\ value >= target /\ value <= target + CostOfChange
             /\ \A S \in Reaching : value <= SumOver(v, S)
        ELSE /\ value = target + tx.change
             /\ \A S \in Reaching : SumOver(v, S) > target + CostOfChange

LEMMA BuiltOptimal ==
  ASSUME NEW offered, offered \in SUBSET Nat, IsFiniteSet(offered),
         NEW v, \A c \in offered : v[c] = CoinOf(c).value /\ v[c] \in Nat,
         NEW amount \in Nat, NEW to,
         NEW tx, tx = Built(offered, amount, to)
  PROVE  /\ tx = [offered |-> offered, amount |-> amount, to |-> to,
                  ins |-> tx.ins, change |-> tx.change]
         /\ tx.ins \in SUBSET offered /\ tx.change \in Nat
         /\ tx.ins # {} => Optimal(tx, v)
<1> DEFINE target == amount + FeeEst
           coins == Sorted(offered)
           vals == [k \in DOMAIN coins |-> CoinOf(coins[k]).value]
           exact == BranchAndBound(target)[vals]
           largest == LargestFirst(target)[vals]
           ins == IF exact # {} THEN exact ELSE largest
           n == Cardinality(offered)
           At(K) == {coins[k] : k \in K}
           Sums(U) == U # {} /\ Total(vals, U) >= target
<1>1. tx = [offered |-> offered, amount |-> amount, to |-> to, ins |-> At(ins),
            change |-> IF exact # {} \/ ins = {} THEN 0
                       ELSE Total(vals, ins) - target]
  BY DEF Built
<1>2. target \in Nat /\ CostOfChange \in Nat
  BY WalletAssumption
<1>3. /\ n \in Nat /\ coins \in Bijection(1..n, offered)
      /\ IsFiniteSet(1..n)
  <2>1. n \in Nat /\ coins \in Bijection(1..n, offered)
    BY SortedFound
  <2> HIDE DEF n
  <2> QED
    BY <2>1, FS_Interval
<1> HIDE DEF n, coins
<1>4. /\ coins \in [1..n -> offered] /\ DOMAIN coins = 1..n
      /\ \A j, k \in 1..n : coins[j] = coins[k] => j = k
      /\ \A c \in offered : \E k \in 1..n : coins[k] = c
  BY <1>3 DEF Bijection, Injection, Surjection, IsInjective
<1>5. /\ vals \in Seq(Nat) /\ Len(vals) = n
      /\ \A k \in 1..n : vals[k] = v[coins[k]]
  <2>1. \A k \in 1..n : vals[k] = v[coins[k]] /\ vals[k] \in Nat
    BY <1>4
  <2>2. vals \in [1..n -> Nat]
    BY <1>4, <2>1
  <2> HIDE DEF vals
  <2> QED
    BY <1>3, <2>1, <2>2
<1> HIDE DEF vals
<1>6. \A K \in SUBSET (1..n) : Total(vals, K) = SumOver(v, At(K))
                               /\ Total(vals, K) \in Nat
  <2>1. ASSUME NEW K, K \in SUBSET (1..n)
        PROVE  Total(vals, K) = SumOver(v, At(K))
    <3> DEFINE P == 1..n
               D == At(K)
    <3>1. /\ \A c \in offered : v[c] \in Nat
          /\ \A k \in P : vals[k] = v[coins[k]]
      BY <1>5
    <3>2. /\ IsFiniteSet(P) /\ IsFiniteSet(offered)
          /\ coins \in Bijection(P, offered) /\ K \in SUBSET P
      BY <1>3, <2>1
    <3>3. /\ \A k \in K : coins[k] \in D
          /\ \A c \in D : \E k \in K : coins[k] = c
      OBVIOUS
    <3> HIDE DEF P, D
    <3>4. SumOver(vals, K) = SumOver(v, D)
      BY ONLY <3>1, <3>2, <3>3, SumMoved
    <3> QED
      BY <3>4, TotalIsSum DEF D
  <2> QED
    BY <1>5, <2>1, TotalTyped
<1>7. /\ exact \in SUBSET (1..n)
      /\ exact # {} => /\ Total(vals, exact) >= target
                       /\ Total(vals, exact) <= target + CostOfChange
                       /\ \A U \in SUBSET (1..n) :
                            Sums(U) => Total(vals, exact) <= Total(vals, U)
      /\ exact = {} => \A U \in SUBSET (1..n) :
                         Sums(U) => Total(vals, U) > target + CostOfChange
  BY <1>2, <1>5, BoundedSelection
<1>8. /\ largest \in SUBSET (1..n)
      /\ largest # {} => Total(vals, largest) > target
  BY <1>2, <1>5, LargestSelection
<1>9. /\ tx.offered = offered /\ tx.amount = amount /\ tx.ins = At(ins)
      /\ tx.change = IF exact # {} \/ ins = {} THEN 0 ELSE Total(vals, ins) - target
      /\ tx = [offered |-> offered, amount |-> amount, to |-> to,
               ins |-> tx.ins, change |-> tx.change]
  BY <1>1
<1> HIDE DEF exact, largest
<1>10. ins \in SUBSET (1..n)
  BY <1>7, <1>8
<1>11. tx.ins \in SUBSET offered /\ (tx.ins # {} => ins # {})
  BY <1>4, <1>9, <1>10
<1>12. ASSUME NEW S \in SUBSET offered, S # {}, SumOver(v, S) >= target
       PROVE  \E U \in SUBSET (1..n) : Sums(U) /\ Total(vals, U) = SumOver(v, S)
  <2> DEFINE U == {k \in 1..n : coins[k] \in S}
  <2>1. \A c \in S : \E k \in U : coins[k] = c
    BY <1>4
  <2>2. U \in SUBSET (1..n) /\ At(U) = S
    BY <2>1
  <2>3. U # {}
    BY <1>12, <2>1
  <2> HIDE DEF U, At
  <2> QED
    BY <1>6, <1>12, <2>2, <2>3
<1>13. SumOver(v, tx.ins) = Total(vals, ins)
  <2> HIDE DEF At, ins
  <2> QED
    BY <1>6, <1>9, <1>10
<1> HIDE DEF target, At
<1>14. CASE exact # {}
  <2>1. ins = exact /\ tx.change = 0
    BY <1>9, <1>14
  <2>2. \A S \in SUBSET offered :
          S # {} /\ SumOver(v, S) >= target
            => SumOver(v, tx.ins) <= SumOver(v, S)
    BY <1>7, <1>12, <1>13, <1>14, <2>1
  <2>3. SumOver(v, tx.ins) >= target /\ SumOver(v, tx.ins) <= target + CostOfChange
    BY <1>7, <1>13, <1>14, <2>1
  <2>4. Optimal(tx, v)
    BY <1>9, <2>1, <2>2, <2>3 DEF Optimal, target
  <2> QED
    BY <1>9, <1>11, <2>1, <2>4
<1>15. CASE exact = {} /\ ins = {}
  <2>1. tx.change = 0 /\ ~ (tx.ins # {})
    BY <1>9, <1>11, <1>15
  <2> QED
    BY <1>9, <1>11, <2>1
<1>16. CASE exact = {} /\ ins # {}
  <2>1. /\ ins = largest /\ tx.change = Total(vals, ins) - target
        /\ Total(vals, ins) > target
    BY <1>8, <1>9, <1>16
  <2>2. Total(vals, ins) \in Nat
    BY <1>6, <1>10
  <2>3. /\ tx.change \in Nat /\ tx.change # 0
        /\ SumOver(v, tx.ins) = target + tx.change
    BY <1>2, <1>13, <2>1, <2>2
  <2>4. \A S \in SUBSET offered :
          S # {} /\ SumOver(v, S) >= target
            => SumOver(v, S) > target + CostOfChange
    BY <1>7, <1>12, <1>16
  <2>5. Optimal(tx, v)
    BY <1>9, <2>3, <2>4 DEF Optimal, target
  <2> QED
    BY <1>9, <1>11, <2>3, <2>5
<1> QED
  BY <1>14, <1>15, <1>16

-----------------------------------------------------------------------------
(* The transactions built, and what is known of them. *)

Tx == [offered : SUBSET Nat, amount : Nat, to : Address, ins : SUBSET Nat,
       change : Nat]

CoinsTyped ==
  /\ made \in Seq(Tx)
  /\ \A t \in DOMAIN made :
       /\ made[t].ins \subseteq made[t].offered
       /\ made[t].offered \subseteq Known
       /\ Optimal(made[t], Worth)

LEMMA KnownCoins ==
  ASSUME CoinsTyped
  PROVE  /\ Known \in SUBSET Nat /\ IsFiniteSet(Known)
         /\ \A c \in Known : Worth[c] = CoinOf(c).value /\ Worth[c] \in Nat
<1>1. /\ Len(made) \in Nat /\ DOMAIN made = 1..Len(made)
      /\ \A t \in DOMAIN made : made[t] \in Tx
  BY LenProperties, ElementOfSeq DEF CoinsTyped
<1>2. Known \in SUBSET Nat
  BY <1>1, WalletAssumption DEF Known
<1>3. IsFiniteSet(Known)
  <2>1. IsFiniteSet(1..Len(made))
    BY <1>1, FS_Interval
  <2> QED
    BY <1>1, <2>1, WalletAssumption, FS_Union DEF Known
<1>4. \A c \in Known : CoinOf(c).value \in Nat
  BY <1>1, WalletAssumption DEF Known, CoinOf, Tx
<1> QED
  BY <1>2, <1>3, <1>4 DEF Worth

LEMMA OptimalSame ==
  ASSUME NEW tx, IsFiniteSet(tx.offered), tx.ins \subseteq tx.offered,
         NEW v, NEW w, \A c \in tx.offered : v[c] = w[c], Optimal(tx, v)
  PROVE  Optimal(tx, w)
<1>1. \A S \in SUBSET tx.offered : SumOver(v, S) = SumOver(w, S)
  <2>1. \A S \in SUBSET tx.offered : IsFiniteSet(S) /\ \A c \in S : v[c] = w[c]
    BY FS_Subset
  <2> QED
    BY <2>1, SumSame
<1>2. tx.ins \in SUBSET tx.offered
  OBVIOUS
<1> QED
  BY <1>1, <1>2 DEF Optimal

\* A transaction more leaves the coins of the others what they were.
LEMMA MoreCoins ==
  ASSUME CoinsTyped, NEW tx \in Tx, tx.ins \subseteq tx.offered,
         tx.offered \subseteq Known, Optimal(tx, Worth),
         made' = Append(made, tx)
  PROVE  /\ CoinsTyped' /\ Known \subseteq Known'
         /\ DOMAIN made \subseteq DOMAIN made' /\ Len(made) + 1 \in DOMAIN made'
<1>1. made \in Seq(Tx) /\ Len(made) \in Nat /\ DOMAIN made = 1..Len(made)
  BY LenProperties DEF CoinsTyped
<1>2. /\ made' \in Seq(Tx) /\ Len(made') = Len(made) + 1
      /\ \A t \in 1..Len(made) : made'[t] = made[t]
      /\ made'[Len(made) + 1] = tx
  BY <1>1, AppendProperties
<1>3. DOMAIN made' = 1..(Len(made) + 1)
  BY <1>2, LenProperties
<1>4. DOMAIN made \subseteq DOMAIN made' /\ Len(made) + 1 \in DOMAIN made'
  BY <1>1, <1>3
<1>5. Known \subseteq Known'
  BY <1>4 DEF Known
<1>6. \A c \in Known : Worth'[c] = Worth[c]
  <2>1. ASSUME NEW c \in Known
        PROVE  CoinOf(c)' = CoinOf(c)
    <3>1. c \in DOMAIN BaseCoins \/ c \in 1..Len(made)
      BY <1>1 DEF Known
    <3> QED
      BY <1>2, <3>1 DEF CoinOf
  <2>2. \A c \in Known : Worth[c] = CoinOf(c).value
    BY DEF Worth
  <2>3. \A c \in Known' : Worth'[c] = CoinOf(c)'.value
    BY DEF Worth
  <2> QED
    BY <1>5, <2>1, <2>2, <2>3
<1>7. ASSUME NEW u \in Tx, u.ins \subseteq u.offered, u.offered \subseteq Known,
             Optimal(u, Worth)
      PROVE  u.offered \subseteq Known' /\ Optimal(u, Worth')
  <2>1. IsFiniteSet(u.offered)
    BY <1>7, KnownCoins, FS_Subset
  <2>2. \A c \in u.offered : Worth[c] = Worth'[c]
    BY <1>6, <1>7
  <2>3. Optimal(u, Worth')
    BY <1>7, <2>1, <2>2, OptimalSame
  <2> QED
    BY <1>5, <1>7, <2>3
<1>8. ASSUME NEW t \in DOMAIN made'
      PROVE  /\ made'[t].ins \subseteq made'[t].offered
             /\ made'[t].offered \subseteq Known'
             /\ Optimal(made'[t], Worth')
  <2>1. CASE t \in DOMAIN made
    <3>1. made'[t] = made[t] /\ made[t] \in Tx
      BY <1>1, <1>2, <2>1, ElementOfSeq
    <3>2. /\ made[t].ins \subseteq made[t].offered
          /\ made[t].offered \subseteq Known /\ Optimal(made[t], Worth)
      BY <2>1 DEF CoinsTyped
    <3> QED
      BY <1>7, <3>1, <3>2
  <2>2. CASE t = Len(made) + 1
    BY <1>2, <1>7, <2>2
  <2> QED
    BY <1>1, <1>3, <2>1, <2>2
<1>9. CoinsTyped'
  BY <1>2, <1>8 DEF CoinsTyped
<1> QED
  BY <1>4, <1>5, <1>9

LEMMA SameCoins ==
  ASSUME CoinsTyped, made' = made
  PROVE  CoinsTyped' /\ Known' = Known
<1>1. Known' = Known
  BY DEF Known
<1>2. Worth' = Worth
  BY <1>1 DEF Worth, CoinOf
<1> QED
  BY <1>1, <1>2 DEF CoinsTyped

\* The transaction of a command that sends.
LEMMA BuiltKnown ==
  ASSUME CoinsTyped, NEW offered, offered \subseteq Known,
         NEW amount \in Nat, NEW to \in Address,
         NEW tx, tx = Built(offered, amount, to), tx.ins # {}
  PROVE  /\ tx \in Tx /\ tx.ins \subseteq tx.offered
         /\ tx.offered \subseteq Known /\ Optimal(tx, Worth)
<1>1. /\ offered \in SUBSET Nat /\ IsFiniteSet(offered)
      /\ \A c \in offered : Worth[c] = CoinOf(c).value /\ Worth[c] \in Nat
  BY KnownCoins, FS_Subset
<1>2. /\ tx = [offered |-> offered, amount |-> amount, to |-> to,
               ins |-> tx.ins, change |-> tx.change]
      /\ tx.ins \in SUBSET offered /\ tx.change \in Nat
      /\ Optimal(tx, Worth)
  BY <1>1, BuiltOptimal
<1>3. tx.offered = offered
  BY <1>2
<1>4. tx \in Tx
  BY <1>1, <1>2 DEF Tx
<1> QED
  BY <1>2, <1>3, <1>4

-----------------------------------------------------------------------------
(* Messages and miners speak of transactions that were made. *)

Said(of, has) == has \subseteq IF of = "utxos" THEN Known ELSE DOMAIN made
Told == {m \in Question : m.kind = "tx" => m.tx \in DOMAIN made}
Answers == {m \in Reply : Said(m.kind, m.has)}

MinersKnow ==
  /\ pool \in [Peers -> SUBSET DOMAIN made]
  /\ mined \in [Peers -> SUBSET DOMAIN made]
  /\ \A p \in Peers : pool[p] \cap mined[p] = {}

MailKnown ==
  /\ inbox \in [Peers -> Seq(Told)] /\ outbox \in [Peers -> Seq(Answers)]
  /\ \A of \in Kinds : Said(of, slot[of].has)
  /\ conns \subseteq Peers /\ alive \subseteq Peers
  /\ \A p \in Peers \ alive : inbox[p] = <<>> /\ outbox[p] = <<>>

CommandSound ==
  /\ command.at = "idle" => command = Idle
  /\ command.kind \in {"send", "sendHd"} => command.arg \in Nat
  /\ status \in {"none", "Mempool", "Mined", "NotFound"}
  /\ waited \in 0..(MAX_AWAIT + 1)
  /\ given \subseteq Address

WalletInv ==
  /\ KeyInv /\ QueryInv
  /\ CoinsTyped /\ MinersKnow /\ MailKnown /\ CommandSound

\* The two steps that make a transaction.
LEMMA SendsSound ==
  ASSUME WalletInv, SendValue \/ SendValueHd
  PROVE  \/ UNCHANGED <<netVars, made>>
         \/ \E tx \in Tx : /\ Broadcast(tx)
                           /\ tx.ins \subseteq tx.offered
                           /\ tx.offered \subseteq Known /\ Optimal(tx, Worth)
<1>1. command.arg \in Nat
  BY DEF WalletInv, CommandSound, SendValue, SendValueHd, Answered
<1>2. \A own : Offered(own) \subseteq Known
  BY DEF WalletInv, MailKnown, Said, Kinds, Offered
<1>3. CASE SendValue
  <2>1. Main \in Address
    BY DEF Main, Address
  <2>2. PICK tx : /\ tx = Built(Offered({Main}), command.arg, Main)
                  /\ IF tx.ins = {} THEN UNCHANGED <<netVars, made>>
                     ELSE Broadcast(tx)
    BY <1>3 DEF SendValue
  <2>3. tx.ins # {} => /\ tx \in Tx /\ tx.ins \subseteq tx.offered
                       /\ tx.offered \subseteq Known /\ Optimal(tx, Worth)
    BY <1>1, <1>2, <2>1, <2>2, BuiltKnown DEF WalletInv
  <2> QED
    BY <2>2, <2>3
<1>4. CASE SendValueHd
  <2> DEFINE change == Hd(hd.seed, "int", hd.int)
  <2>1. change \in Address
    BY DEF WalletInv, KeyInv, KeyTyped, Keys, Hd, Address
  <2>2. PICK tx : /\ tx = Built(Offered(Cached(hd)), command.arg, change)
                  /\ IF tx.ins = {} THEN UNCHANGED <<netVars, made>>
                     ELSE Broadcast(tx)
    BY <1>4 DEF SendValueHd
  <2> HIDE DEF change
  <2>3. tx.ins # {} => /\ tx \in Tx /\ tx.ins \subseteq tx.offered
                       /\ tx.offered \subseteq Known /\ Optimal(tx, Worth)
    BY <1>1, <1>2, <2>1, <2>2, BuiltKnown DEF WalletInv
  <2> QED
    BY <2>2, <2>3
<1> QED
  BY <1>3, <1>4

\* Every other step leaves the transactions as they are.
LEMMA MadeKept ==
  ASSUME [Next]_vars, ~SendValue, ~SendValueHd
  PROVE  made' = made
<1>1. CASE Command \/ TakeStatus \/ TakeOther \/ Timeout \/ Truncate \/ Write
  BY <1>1 DEF Command, StartCommand, TakeStatus, TakeOther, Timeout, Truncate,
              Write, worldVars
<1>2. CASE NewAddress \/ Tick \/ Boot \/ Crash \/ UNCHANGED vars
  BY <1>2 DEF NewAddress, Tick, Boot, Crash, vars, worldVars
<1>3. ASSUME NEW p \in Peers, HandleAnswer(p) \/ ReadError(p) \/ Peer(p)
      PROVE  made' = made
  BY <1>3 DEF HandleAnswer, ReadError, Peer, PeerAnswers, PeerTakesTx,
              PeerMines, PeerUnmines, PeerDies, PeerHearsTx, worldVars
<1> QED
  BY <1>1, <1>2, <1>3 DEF Next, MainThread

LEMMA NextCoins ==
  ASSUME WalletInv, [Next]_vars
  PROVE  CoinsTyped' /\ Known \subseteq Known' /\ DOMAIN made \subseteq DOMAIN made'
<1>1. CASE made' = made
  BY <1>1, SameCoins DEF WalletInv
<1>2. ASSUME NEW tx \in Tx, Broadcast(tx), tx.ins \subseteq tx.offered,
             tx.offered \subseteq Known, Optimal(tx, Worth)
      PROVE  CoinsTyped' /\ Known \subseteq Known' /\ DOMAIN made \subseteq DOMAIN made'
  BY <1>2, MoreCoins DEF WalletInv, Broadcast
<1> QED
  BY <1>1, <1>2, MadeKept, SendsSound

\* What was said stays true.
LEMMA SaidStays ==
  ASSUME Known \subseteq Known', DOMAIN made \subseteq DOMAIN made'
  PROVE  /\ \A of, has : Said(of, has) => Said(of, has)'
         /\ Told \subseteq Told' /\ Answers \subseteq Answers'
<1>1. \A of, has : Said(of, has) => Said(of, has)'
  BY DEF Said
<1>2. Told \subseteq Told'
  BY DEF Told
<1>3. ASSUME NEW m \in Answers
      PROVE  m \in Answers'
  <2>1. m \in Reply /\ Said(m.kind, m.has)
    BY DEF Answers
  <2>2. PICK of, has : of = m.kind /\ has = m.has
    OBVIOUS
  <2>3. Said(of, has)'
    BY <1>1, <2>1, <2>2
  <2> QED
    BY <2>1, <2>2, <2>3 DEF Answers, Said
<1> QED
  BY <1>1, <1>2, <1>3

-----------------------------------------------------------------------------
(* The miners. *)

LEMMA NextMiners ==
  ASSUME WalletInv, [Next]_vars
  PROVE  MinersKnow'
<1>a. MinersKnow /\ DOMAIN made \subseteq DOMAIN made'
  BY NextCoins DEF WalletInv
<1>1. CASE UNCHANGED <<pool, mined>>
  <2>1. /\ \A S \in SUBSET DOMAIN made : S \in SUBSET DOMAIN made'
    BY <1>a
  <2> QED
    BY <1>1, <1>a, <2>1 DEF MinersKnow
<1>2. ASSUME NEW p \in Peers, NEW t \in DOMAIN made, Pools(p, t), mined' = mined
      PROVE  MinersKnow'
  <2>1. PICK gone : pool' = [pool EXCEPT ![p] = (@ \ gone) \cup {t}]
    BY <1>2 DEF Pools
  <2>2. t \notin mined[p]
    BY <1>2 DEF Pools
  <2>3. \A r \in Peers : pool'[r] = IF r = p THEN (pool[p] \ gone) \cup {t} ELSE pool[r]
    BY <1>a, <2>1 DEF MinersKnow
  <2>4. pool' \in [Peers -> SUBSET DOMAIN made']
    BY <1>a, <2>1 DEF MinersKnow
  <2>5. mined' \in [Peers -> SUBSET DOMAIN made']
    BY <1>a, <1>2 DEF MinersKnow
  <2>6. \A r \in Peers : pool'[r] \cap mined'[r] = {}
    BY <1>a, <1>2, <2>2, <2>3 DEF MinersKnow
  <2> QED
    BY <2>4, <2>5, <2>6 DEF MinersKnow
<1>3. ASSUME NEW p \in Peers, PeerTakesTx(p)
      PROVE  MinersKnow'
  <2> DEFINE m == Head(inbox[p])
  <2>1. /\ inbox[p] # <<>> /\ m.kind = "tx" /\ mined' = mined
        /\ Pools(p, m.tx) \/ pool' = pool
    BY <1>3 DEF PeerTakesTx
  <2>2. m \in Told
    BY <2>1, HeadTailProperties DEF WalletInv, MailKnown
  <2>3. m.tx \in DOMAIN made
    BY <2>1, <2>2 DEF Told
  <2> HIDE DEF m
  <2> QED
    BY <1>1, <1>2, <2>1, <2>3
<1>4. ASSUME NEW p \in Peers, NEW q \in Peers, PeerHearsTx(p, q)
      PROVE  MinersKnow'
  <2>1. PICK t \in pool[q] : Pools(p, t)
    BY <1>4 DEF PeerHearsTx
  <2>2. t \in DOMAIN made /\ mined' = mined
    BY <1>4, <1>a DEF MinersKnow, PeerHearsTx
  <2> QED
    BY <1>2, <2>1, <2>2
<1>5. ASSUME NEW p \in Peers, NEW t \in DOMAIN made,
             \/ /\ mined' = [mined EXCEPT ![p] = @ \cup {t}]
                /\ pool' = [pool EXCEPT ![p] = @ \ {t}]
             \/ /\ mined' = [mined EXCEPT ![p] = @ \ {t}]
                /\ pool' = [pool EXCEPT ![p] = @ \cup {t}]
      PROVE  MinersKnow'
  <2>1. /\ pool' \in [Peers -> SUBSET DOMAIN made']
        /\ mined' \in [Peers -> SUBSET DOMAIN made']
    BY <1>a, <1>5 DEF MinersKnow
  <2>2. \A r \in Peers : pool'[r] \cap mined'[r] = {}
    BY <1>a, <1>5 DEF MinersKnow
  <2> QED
    BY <2>1, <2>2 DEF MinersKnow
<1>6. ASSUME NEW p \in Peers, PeerMines(p) \/ PeerUnmines(p)
      PROVE  MinersKnow'
  <2>1. PICK t : /\ t \in pool[p] \cup UNION {mined[q] : q \in Peers}
                 /\ \/ /\ mined' = [mined EXCEPT ![p] = @ \cup {t}]
                       /\ pool' = [pool EXCEPT ![p] = @ \ {t}]
                    \/ /\ mined' = [mined EXCEPT ![p] = @ \ {t}]
                       /\ pool' = [pool EXCEPT ![p] = @ \cup {t}]
    BY <1>6 DEF PeerMines, PeerUnmines
  <2>2. t \in DOMAIN made
    BY <1>a, <2>1 DEF MinersKnow
  <2> QED
    BY <1>5, <2>1, <2>2
<1>7. ASSUME NEW p \in Peers,
             HandleAnswer(p) \/ ReadError(p) \/ PeerAnswers(p) \/ PeerDies(p)
      PROVE  UNCHANGED <<pool, mined>>
  BY <1>7 DEF HandleAnswer, ReadError, PeerAnswers, PeerDies, worldVars
<1>8. CASE Command \/ MainThread \/ NewAddress \/ Tick \/ Boot \/ Crash \/ UNCHANGED vars
  <2>1. UNCHANGED <<pool, mined>>
    BY <1>8 DEF Command, StartCommand, MainThread, TakeStatus, TakeOther, SendValue,
         SendValueHd, Truncate, Write, Timeout, NewAddress, Tick, Boot, Crash,
         vars, worldVars
  <2> QED
    BY <1>1, <2>1
<1> QED
  BY <1>1, <1>3, <1>4, <1>6, <1>7, <1>8 DEF Next, Peer

-----------------------------------------------------------------------------
(* The messages. *)

\* What a step may do to the boxes and connections, with Q and R the messages
\* and answers that may be in them.
BoxesKnow(Q, R) ==
  /\ inbox' \in [Peers -> Seq(Q)] /\ outbox' \in [Peers -> Seq(R)]
  /\ conns' \subseteq Peers /\ alive' \subseteq Peers
  /\ \A p \in Peers \ alive' : inbox'[p] = <<>> /\ outbox'[p] = <<>>

LEMMA BoxesGrow ==
  ASSUME MailKnown, NEW Q, NEW R, Told \subseteq Q, Answers \subseteq R
  PROVE  inbox \in [Peers -> Seq(Q)] /\ outbox \in [Peers -> Seq(R)]
<1>1. /\ \A box \in Seq(Told) : box \in Seq(Q)
      /\ \A box \in Seq(Answers) : box \in Seq(R)
  BY SeqMonotonic
<1> QED
  BY <1>1 DEF MailKnown

LEMMA SendBoxes ==
  ASSUME MailKnown, NEW Q, NEW R, Told \subseteq Q, Answers \subseteq R,
         NEW msg \in Q, SendRandom(msg)
  PROVE  BoxesKnow(Q, R)
<1>1. inbox \in [Peers -> Seq(Q)] /\ outbox \in [Peers -> Seq(R)]
  BY BoxesGrow
<1>2. /\ conns \subseteq Peers /\ alive \subseteq Peers
      /\ \A p \in Peers \ alive : inbox[p] = <<>> /\ outbox[p] = <<>>
  BY DEF MailKnown
<1>3. /\ alive' = alive /\ outbox' = outbox
      /\ \/ inbox' = inbox /\ conns' \subseteq conns
         \/ \E p \in conns : /\ p \in alive /\ conns' = conns
                             /\ inbox' = [inbox EXCEPT ![p] = Append(@, msg)]
  BY DEF SendRandom, netVars
<1>4. CASE inbox' = inbox /\ conns' \subseteq conns
  BY <1>1, <1>2, <1>3, <1>4 DEF BoxesKnow
<1>5. ASSUME NEW p \in conns, p \in alive, conns' = conns,
             inbox' = [inbox EXCEPT ![p] = Append(@, msg)]
      PROVE  BoxesKnow(Q, R)
  <2>1. p \in Peers /\ inbox[p] \in Seq(Q)
    BY <1>1, <1>2
  <2>2. Append(inbox[p], msg) \in Seq(Q)
    BY <2>1, AppendProperties
  <2>3. /\ inbox' \in [Peers -> Seq(Q)]
        /\ \A r \in Peers : r # p => inbox'[r] = inbox[r]
    BY <1>1, <1>5, <2>2
  <2> QED
    BY <1>1, <1>2, <1>3, <1>5, <2>3 DEF BoxesKnow
<1> QED
  BY <1>3, <1>4, <1>5

LEMMA SlotSaid ==
  ASSUME WalletInv, [Next]_vars, NEW of, NEW has, Said(of, has)
  PROVE  Said(of, has)'
  BY NextCoins, SaidStays

\* A step that leaves the slots as they are, or empties some.
LEMMA SlotsKept ==
  ASSUME WalletInv, [Next]_vars,
         \A of \in Kinds : slot'[of] = slot[of] \/ slot'[of] = NoAnswer
  PROVE  \A of \in Kinds : Said(of, slot[of].has)'
<1>1. ASSUME NEW of \in Kinds, NEW has, has = slot'[of].has
      PROVE  Said(of, has)'
  <2>1. Said(of, slot[of].has) /\ Said(of, {})
    BY DEF WalletInv, MailKnown, Said
  <2>2. NoAnswer.has = {}
    BY DEF NoAnswer
  <2>3. has = slot[of].has \/ has = {}
    BY <1>1, <2>2
  <2>4. Said(of, has)
    BY <2>1, <2>3
  <2> QED
    BY <2>4, SlotSaid
<1> QED
  BY <1>1 DEF Said

LEMMA AskMail ==
  ASSUME WalletInv, NEW c, NEW of \in Kinds, Ask(c, of), [Next]_vars
  PROVE  MailKnown'
<1>1. /\ SendRandom(Get(of)) /\ slot' = [slot EXCEPT ![of] = NoAnswer]
  BY DEF Ask
<1>2. Told \subseteq Told' /\ Answers \subseteq Answers'
  BY NextCoins, SaidStays
<1>3. Get(of) \in Told'
  BY DEF WalletInv, QueryInv, AskTyped, Get, Told, Question, Kinds
<1>4. BoxesKnow(Told', Answers')
  BY <1>1, <1>2, <1>3, SendBoxes DEF WalletInv
<1>5. \A k \in Kinds : slot'[k] = slot[k] \/ slot'[k] = NoAnswer
  BY <1>1 DEF WalletInv, QueryInv, AskTyped
<1> QED
  BY <1>4, <1>5, SlotsKept DEF MailKnown, BoxesKnow

\* A step that leaves the messages alone, or puts a transaction among them.
LEMMA MailStays ==
  ASSUME WalletInv, [Next]_vars, slot' = slot,
         \/ UNCHANGED <<inbox, outbox, alive>> /\ conns' \subseteq Peers
         \/ \E tx \in Tx : Broadcast(tx)
  PROVE  MailKnown'
<1>1. Told \subseteq Told' /\ Answers \subseteq Answers'
  BY NextCoins, SaidStays
<1>2. CASE UNCHANGED <<inbox, outbox, alive>> /\ conns' \subseteq Peers
  <2>1. inbox \in [Peers -> Seq(Told')] /\ outbox \in [Peers -> Seq(Answers')]
    BY <1>1, BoxesGrow DEF WalletInv
  <2> QED
    BY <1>2, <2>1, SlotsKept DEF MailKnown, WalletInv
<1>3. ASSUME NEW tx \in Tx, Broadcast(tx)
      PROVE  MailKnown'
  <2>1. made' = Append(made, tx) /\ SendRandom(TxInfo(Len(made) + 1))
    BY <1>3 DEF Broadcast
  <2>2. made \in Seq(Tx) /\ made' \in Seq(Tx) /\ Len(made') = Len(made) + 1
    BY <2>1, AppendProperties DEF WalletInv, CoinsTyped
  <2>3. Len(made) \in Nat /\ Len(made) + 1 \in DOMAIN made'
    BY <2>2, LenProperties
  <2>4. TxInfo(Len(made) + 1) \in Told'
    BY <2>3 DEF TxInfo, Told, Question
  <2>5. BoxesKnow(Told', Answers')
    BY <1>1, <2>1, <2>4, SendBoxes DEF WalletInv
  <2> QED
    BY <2>5, SlotsKept DEF MailKnown, BoxesKnow
<1> QED
  BY <1>2, <1>3

LEMMA HasKnown ==
  ASSUME WalletInv, NEW p \in Peers, NEW of \in Kinds
  PROVE  Said(of, Has(p, of))
<1>1. pool[p] \subseteq DOMAIN made /\ mined[p] \subseteq DOMAIN made
  BY DEF WalletInv, MinersKnow
<1>2. Utxos(p) \subseteq Known
  BY <1>1 DEF Utxos, Known
<1>3. CASE of = "pool"
  BY <1>1, <1>3 DEF Said, Has
<1>4. CASE of = "chain"
  BY <1>1, <1>4 DEF Said, Has
<1>5. CASE of = "utxos"
  BY <1>2, <1>5 DEF Said, Has
<1> QED
  BY <1>3, <1>4, <1>5 DEF Kinds

LEMMA AnswersMail ==
  ASSUME WalletInv, NEW p \in Peers, PeerAnswers(p), [Next]_vars
  PROVE  MailKnown'
<1> DEFINE q == Head(inbox[p])
           m == [kind |-> q.kind, has |-> Has(p, q.kind)]
<1>1. /\ p \in alive /\ inbox[p] # <<>> /\ q.kind # "tx"
      /\ outbox' = [outbox EXCEPT ![p] = Append(@, m)]
      /\ inbox' = [inbox EXCEPT ![p] = Tail(@)]
      /\ UNCHANGED <<conns, alive, slot>>
  BY DEF PeerAnswers, askVars
<1>2. Told \subseteq Told' /\ Answers \subseteq Answers'
  BY NextCoins, SaidStays
<1>3. inbox \in [Peers -> Seq(Told')] /\ outbox \in [Peers -> Seq(Answers')]
  BY <1>2, BoxesGrow DEF WalletInv
<1>4. q \in Told /\ Tail(inbox[p]) \in Seq(Told')
  BY <1>1, <1>3, HeadTailProperties DEF WalletInv, MailKnown
<1>5. q.kind \in Kinds
  BY <1>1, <1>4 DEF Told, Question
<1>6. m \in Answers
  <2>1. Said(q.kind, Has(p, q.kind)) /\ Has(p, q.kind) \subseteq Nat
    <3>1. Said(q.kind, Has(p, q.kind))
      BY <1>5, HasKnown
    <3>2. Known \subseteq Nat /\ DOMAIN made \subseteq Nat
      BY KnownCoins DEF WalletInv, Known
    <3> QED
      BY <3>1, <3>2 DEF Said
  <2> DEFINE has == Has(p, q.kind)
  <2> HIDE DEF has, q
  <2>2. m \in Reply /\ m.kind = q.kind /\ m.has = has
    BY <1>5, <2>1 DEF Reply, has
  <2> HIDE DEF m
  <2> QED
    BY <2>1, <2>2 DEF Answers, has, Said
<1> HIDE DEF m, q
<1>7. Append(outbox[p], m) \in Seq(Answers')
  <2>1. outbox[p] \in Seq(Answers') /\ m \in Answers'
    BY <1>2, <1>3, <1>6
  <2> QED
    BY <2>1, AppendProperties
<1>8. inbox' \in [Peers -> Seq(Told')] /\ outbox' \in [Peers -> Seq(Answers')]
  BY <1>1, <1>3, <1>4, <1>7
<1>9. \A r \in Peers \ alive' : inbox'[r] = <<>> /\ outbox'[r] = <<>>
  BY <1>1, <1>3 DEF WalletInv, MailKnown
<1> QED
  BY <1>1, <1>8, <1>9, SlotsKept DEF MailKnown, WalletInv

LEMMA HandlesMail ==
  ASSUME WalletInv, NEW p \in Peers, HandleAnswer(p), [Next]_vars
  PROVE  MailKnown'
<1> DEFINE m == Head(outbox[p])
           new == [from |-> p, has |-> m.has]
<1>1. /\ outbox[p] # <<>>
      /\ slot' = [slot EXCEPT ![m.kind] = new]
      /\ outbox' = [outbox EXCEPT ![p] = Tail(@)]
      /\ UNCHANGED <<conns, alive, inbox>>
  BY DEF HandleAnswer, SlotOf
<1>2. Told \subseteq Told' /\ Answers \subseteq Answers'
  BY NextCoins, SaidStays
<1>3. inbox \in [Peers -> Seq(Told')] /\ outbox \in [Peers -> Seq(Answers')]
  BY <1>2, BoxesGrow DEF WalletInv
<1>4. m \in Answers /\ Tail(outbox[p]) \in Seq(Answers')
  BY <1>1, <1>3, HeadTailProperties DEF WalletInv, MailKnown
<1>5. inbox' \in [Peers -> Seq(Told')] /\ outbox' \in [Peers -> Seq(Answers')]
  BY <1>1, <1>3, <1>4
<1>6. \A r \in Peers \ alive' : inbox'[r] = <<>> /\ outbox'[r] = <<>>
  BY <1>1, <1>3 DEF WalletInv, MailKnown
<1>7. new.has = m.has
  OBVIOUS
<1>8. \A of \in Kinds : Said(of, slot[of].has)'
  <2> HIDE DEF m, new
  <2>1. slot \in [Kinds -> Held]
    BY DEF WalletInv, QueryInv, AskTyped
  <2>2. ASSUME NEW of \in Kinds, NEW has, has = slot'[of].has
        PROVE  Said(of, has)'
    <3>1. Said(of, has)
      <4>1. CASE of = m.kind
        BY <1>1, <1>4, <1>7, <2>1, <2>2, <4>1 DEF Answers
      <4>2. CASE of # m.kind
        BY <1>1, <2>1, <2>2, <4>2 DEF WalletInv, MailKnown
      <4> QED
        BY <4>1, <4>2
    <3> QED
      BY <3>1, SlotSaid
  <2> QED
    BY <2>2 DEF Said
<1> QED
  BY <1>1, <1>5, <1>6, <1>8 DEF MailKnown, WalletInv

LEMMA CrashMail ==
  ASSUME WalletInv, Crash, [Next]_vars
  PROVE  MailKnown'
<1>1. /\ conns' = {} /\ slot' = [of \in DOMAIN slot |-> NoAnswer]
      /\ outbox' = [p \in Peers |-> <<>>] /\ alive' = alive
      /\ \/ inbox' = [p \in Peers |-> <<>>]
         \/ inbox' = [p \in Peers |-> TxsOnly(inbox[p])]
  BY DEF Crash
<1>2. Told \subseteq Told' /\ Answers \subseteq Answers'
  BY NextCoins, SaidStays
<1>3. inbox \in [Peers -> Seq(Told')]
  BY <1>2, BoxesGrow DEF WalletInv
<1>4. \A S : <<>> \in Seq(S)
  BY EmptySeq
<1>5. \A p \in Peers : TxsOnly(inbox[p]) \in Seq(Told')
  BY <1>3, TxsOnlyKept
<1>6. inbox' \in [Peers -> Seq(Told')] /\ outbox' \in [Peers -> Seq(Answers')]
  BY <1>1, <1>4, <1>5
<1>7. TxsOnly(<<>>) = <<>>
  <2>1. TxsOnly(<<>>) \in Seq({})
    BY <1>4, TxsOnlyKept
  <2>2. Len(TxsOnly(<<>>)) \in Nat /\ TxsOnly(<<>>) \in [1..Len(TxsOnly(<<>>)) -> {}]
    BY <2>1, LenProperties
  <2>3. 1 \notin 1..Len(TxsOnly(<<>>))
    BY <2>2
  <2>4. Len(TxsOnly(<<>>)) = 0
    BY <2>2, <2>3
  <2> QED
    BY <2>1, <2>4, EmptySeq
<1>8. \A r \in Peers \ alive' : inbox'[r] = <<>> /\ outbox'[r] = <<>>
  BY <1>1, <1>7 DEF WalletInv, MailKnown
<1>9. \A of \in Kinds : slot'[of] = NoAnswer
  BY <1>1 DEF WalletInv, QueryInv, AskTyped
<1> QED
  BY <1>1, <1>6, <1>8, <1>9, SlotsKept DEF MailKnown, WalletInv

LEMMA PeersMail ==
  ASSUME WalletInv, NEW p \in Peers, PeerTakesTx(p) \/ PeerDies(p), [Next]_vars
  PROVE  MailKnown'
<1>1. /\ conns' = conns /\ slot' = slot
      /\ \/ /\ inbox[p] # <<>> /\ inbox' = [inbox EXCEPT ![p] = Tail(@)]
            /\ UNCHANGED <<outbox, alive>>
         \/ /\ alive' = alive \ {p}
            /\ inbox' = [inbox EXCEPT ![p] = <<>>]
            /\ outbox' = [outbox EXCEPT ![p] = <<>>]
  BY DEF PeerTakesTx, PeerDies, askVars
<1>2. Told \subseteq Told' /\ Answers \subseteq Answers'
  BY NextCoins, SaidStays
<1>3. inbox \in [Peers -> Seq(Told')] /\ outbox \in [Peers -> Seq(Answers')]
  BY <1>2, BoxesGrow DEF WalletInv
<1>4. inbox[p] # <<>> => Tail(inbox[p]) \in Seq(Told') /\ p \in alive
  BY <1>3, HeadTailProperties DEF WalletInv, MailKnown
<1>5. \A S : <<>> \in Seq(S)
  BY EmptySeq
<1>6. inbox' \in [Peers -> Seq(Told')] /\ outbox' \in [Peers -> Seq(Answers')]
  BY <1>1, <1>3, <1>4, <1>5, ZenonT(40)
<1>7. \A r \in Peers \ alive' : inbox'[r] = <<>> /\ outbox'[r] = <<>>
  BY <1>1, <1>3, <1>4 DEF WalletInv, MailKnown
<1>8. conns' \subseteq Peers /\ alive' \subseteq Peers
  BY <1>1 DEF WalletInv, MailKnown
<1> QED
  BY <1>1, <1>6, <1>7, <1>8, SlotsKept DEF MailKnown

LEMMA NextMail ==
  ASSUME WalletInv, [Next]_vars
  PROVE  MailKnown'
<1>a. conns \subseteq Peers /\ alive \subseteq Peers
  BY DEF WalletInv, MailKnown
<1>1. CASE Command
  <2>1. \E kind \in CommandKinds : \E arg : StartCommand(kind, arg)
    BY <1>1 DEF Command, CommandKinds
  <2>2. \E of \in Kinds : \E c : Ask(c, of)
    BY <2>1, AskedFirst DEF StartCommand
  <2> QED
    BY <2>2, AskMail
<1>2. CASE TakeStatus
  <2>1. \/ Ask(command, "chain")
        \/ UNCHANGED <<netVars, slot>>
    BY <1>2 DEF TakeStatus, StatusOrder
  <2>2. "chain" \in Kinds
    BY DEF Kinds
  <2> QED
    BY <1>a, <2>1, <2>2, AskMail, MailStays DEF netVars
<1>3. CASE SendValue \/ SendValueHd
  <2>1. slot' = slot
    BY <1>3 DEF SendValue, SendValueHd
  <2> QED
    BY <1>3, <1>a, <2>1, SendsSound, MailStays DEF netVars
<1>4. CASE TakeOther \/ Timeout \/ Truncate \/ Write \/ NewAddress \/ Tick
           \/ UNCHANGED vars
  <2>1. UNCHANGED <<netVars, slot>>
    BY <1>4 DEF TakeOther, Timeout, Truncate, Write, NewAddress, Tick, vars,
                askVars
  <2> QED
    BY <1>a, <2>1, MailStays DEF netVars
<1>5. CASE Boot
  <2>1. UNCHANGED <<inbox, outbox, alive, slot>> /\ conns' = alive
    BY <1>5 DEF Boot
  <2> QED
    BY <1>a, <2>1, MailStays
<1>6. ASSUME NEW p \in Peers,
             \/ ReadError(p) \/ PeerMines(p) \/ PeerUnmines(p)
             \/ \E q \in Peers : PeerHearsTx(p, q)
      PROVE  MailKnown'
  <2>1. /\ UNCHANGED <<inbox, outbox, alive, slot>>
        /\ conns' = conns \/ conns' = conns \ {p}
    BY <1>6 DEF ReadError, PeerMines, PeerUnmines, PeerHearsTx, netVars, askVars
  <2> QED
    BY <1>a, <2>1, MailStays
<1> QED
  BY <1>1, <1>2, <1>3, <1>4, <1>5, <1>6, CrashMail, AnswersMail, HandlesMail,
     PeersMail DEF Next, MainThread, Peer

-----------------------------------------------------------------------------
(* The command. *)

Statuses == {"none", "Mempool", "Mined", "NotFound"}

ArgumentSound(c) == c.kind \in {"send", "sendHd"} => c.arg \in Nat

LEMMA IdleSound == ArgumentSound(Idle) /\ Idle.at = "idle"
  BY DEF Idle, ArgumentSound

\* A command that starts or asks once more.
LEMMA AskCommand ==
  ASSUME NEW c, IsCommand(c), ArgumentSound(c), NEW of, Ask(c, of)
  PROVE  /\ command'.at = "idle" => command' = Idle
         /\ ArgumentSound(command')
         /\ waited' \in 0..(MAX_AWAIT + 1)
<1>1. /\ waited' = 0
      /\ command' = Idle \/ command' = [c EXCEPT !.at = "wait", !.of = of]
  BY DEF Ask
<1>2. 0 \in 0..(MAX_AWAIT + 1)
  BY WalletAssumption
<1>3. CASE command' = [c EXCEPT !.at = "wait", !.of = of]
  <2>1. command' = [kind |-> c.kind, at |-> "wait", of |-> of, arg |-> c.arg]
    BY <1>3 DEF IsCommand
  <2> QED
    BY <1>1, <1>2, <2>1 DEF ArgumentSound
<1> QED
  BY <1>1, <1>2, <1>3, IdleSound

LEMMA NextCommand ==
  ASSUME WalletInv, [Next]_vars
  PROVE  CommandSound'
<1>a. /\ command.at = "idle" => command = Idle
      /\ ArgumentSound(command) /\ IsCommand(command)
      /\ status \in Statuses /\ given \subseteq Address
      /\ waited \in 0..(MAX_AWAIT + 1) /\ 0 \in 0..(MAX_AWAIT + 1)
  BY WalletAssumption
  DEF WalletInv, CommandSound, QueryInv, AskTyped, ArgumentSound, Statuses
<1>1. SUFFICES /\ command'.at = "idle" => command' = Idle
               /\ ArgumentSound(command')
               /\ status' \in Statuses /\ given' \subseteq Address
               /\ waited' \in 0..(MAX_AWAIT + 1)
  BY DEF CommandSound, ArgumentSound, Statuses
<1>2. ASSUME NEW kind \in CommandKinds, NEW arg, StartCommand(kind, arg),
             kind \in {"send", "sendHd"} => arg \in Nat
      PROVE  CommandSound'
  <2> DEFINE c == [Idle EXCEPT !.kind = kind, !.arg = arg]
  <2>1. Ask(c, FirstAsked(kind)) /\ given' = given /\ status' \in Statuses
    BY <1>2 DEF StartCommand, keyVars, Statuses
  <2>2. c = [kind |-> kind, at |-> "idle", of |-> "pool", arg |-> arg]
    BY CommandStarted
  <2> HIDE DEF c
  <2>3. IsCommand(c) /\ ArgumentSound(c)
    BY <1>2, <2>2 DEF IsCommand, ArgumentSound
  <2> QED
    BY <1>a, <2>1, <2>3, AskCommand DEF CommandSound, ArgumentSound, Statuses
<1>3. CASE Command
  <2>1. \E kind \in CommandKinds : \E arg :
          /\ StartCommand(kind, arg)
          /\ kind \in {"send", "sendHd"} => arg \in Nat
    BY <1>3, WalletAssumption DEF Command, CommandKinds
  <2> QED
    BY <1>2, <2>1 DEF CommandSound, ArgumentSound, Statuses
<1>4. CASE TakeStatus
  <2>1. /\ given' = given
        /\ \/ Ask(command, "chain") /\ status' \in {status, "NotFound"}
           \/ Return /\ status' \in Statuses
    BY <1>4 DEF TakeStatus, StatusOrder, keyVars, Statuses
  <2> QED
    BY <1>a, <2>1, AskCommand, IdleSound DEF Return, Statuses
<1>5. CASE TakeOther \/ SendValue \/ Timeout \/ Write
  <2>1. Return /\ given' = given /\ status' \in {status, "NotFound"}
    BY <1>5 DEF TakeOther, SendValue, Timeout, Write, statVars, keyVars
  <2> QED
    BY <1>a, <2>1, IdleSound DEF Return, Statuses
<1>b. /\ Hd(hd.seed, "int", hd.int) \in Address
      /\ Hd(hd.seed, "ext", hd.ext) \in Address
  BY DEF WalletInv, KeyInv, KeyTyped, Keys, Hd, Address
<1>6. ASSUME NEW at \in {"save", "write"}, command' = [command EXCEPT !.at = at]
      PROVE  command'.at # "idle" /\ ArgumentSound(command')
  <2>1. command' = [kind |-> command.kind, at |-> at, of |-> command.of,
                    arg |-> command.arg]
    BY <1>a, <1>6 DEF IsCommand
  <2> QED
    BY <1>a, <2>1 DEF ArgumentSound
<1>7. CASE SendValueHd
  <2>1. /\ status' = status
        /\ \/ Return /\ given' = given
           \/ /\ command' = [command EXCEPT !.at = "save"] /\ waited' = 0
              /\ given' \subseteq given \cup {Hd(hd.seed, "int", hd.int)}
    BY <1>7 DEF SendValueHd, statVars
  <2> QED
    BY <1>a, <1>b, <1>6, <2>1, IdleSound DEF Return
<1>8. CASE Truncate
  <2>1. /\ command' = [command EXCEPT !.at = "write"]
        /\ UNCHANGED <<status, waited, given>>
    BY <1>8 DEF Truncate, statVars
  <2> QED
    BY <1>a, <1>6, <2>1
<1>9. CASE NewAddress
  BY <1>9, <1>a, <1>b DEF NewAddress, askVars, statVars
<1>10. CASE Boot
  <2>1. /\ command' = Idle /\ UNCHANGED <<status, waited>>
        /\ \E seed : /\ given' = given \cup {Hd(seed, "ext", 0)}
                     /\ seed = file.seed \/ seed = crashes + 2
    BY <1>10 DEF Boot, statVars
  <2>2. file.seed \in Nat /\ crashes + 2 \in Nat
    BY DEF WalletInv, KeyInv, KeyTyped, Keys
  <2>3. \A seed \in Nat : Hd(seed, "ext", 0) \in Address
    BY DEF Hd, Address
  <2> QED
    BY <1>a, <2>1, <2>2, <2>3, IdleSound
<1>11. CASE Crash
  <2>1. /\ command' = [Idle EXCEPT !.at = "down"]
        /\ status' = "none" /\ waited' = 0 /\ given' = given
    BY <1>11 DEF Crash, keyVars
  <2>2. command'.at = "down" /\ ArgumentSound(command')
    BY <2>1 DEF Idle, ArgumentSound
  <2> QED
    BY <1>a, <2>1, <2>2 DEF Statuses
<1>12. CASE Tick
  <2>1. /\ waited <= MAX_AWAIT /\ waited' = waited + 1
        /\ UNCHANGED <<command, status, given>>
    BY <1>12 DEF Tick, Passed, statVars, keyVars
  <2>2. waited' \in 0..(MAX_AWAIT + 1)
    BY <1>a, <2>1, WalletAssumption
  <2> QED
    BY <1>a, <2>1, <2>2
<1>13. CASE UNCHANGED vars
  BY <1>13, <1>a DEF vars, askVars, statVars, keyVars
<1>14. ASSUME NEW p \in Peers, HandleAnswer(p) \/ ReadError(p) \/ Peer(p)
       PROVE  UNCHANGED <<command, status, waited, given>>
  BY <1>14 DEF HandleAnswer, ReadError, Peer, PeerAnswers, PeerTakesTx,
     PeerMines, PeerUnmines, PeerDies, PeerHearsTx, askVars, statVars, keyVars
<1> QED
  BY <1>a, <1>3, <1>4, <1>5, <1>7, <1>8, <1>9, <1>10, <1>11, <1>12, <1>13, <1>14
  DEF Next, MainThread

-----------------------------------------------------------------------------

LEMMA InitWallet == Init => WalletInv
<1> SUFFICES ASSUME Init PROVE WalletInv
  OBVIOUS
<1>1. /\ made = <<>>
      /\ pool = [p \in Peers |-> {}] /\ mined = [p \in Peers |-> {}]
      /\ alive = Peers /\ conns = Peers
      /\ inbox = [p \in Peers |-> <<>>] /\ outbox = [p \in Peers |-> <<>>]
      /\ slot = [of \in Kinds |-> NoAnswer]
      /\ command = Idle /\ waited = 0 /\ status = "none"
      /\ given = {Hd(1, "ext", 0)}
  BY DEF Init, Kinds
<1>2. /\ \A S : <<>> \in Seq(S)
      /\ DOMAIN <<>> = {}
  BY EmptySeq
<1>3. CoinsTyped
  BY <1>1, <1>2 DEF CoinsTyped
<1>4. MinersKnow
  BY <1>1 DEF MinersKnow
<1>5. MailKnown
  <2>1. \A of \in Kinds : slot[of].has = {}
    BY <1>1 DEF NoAnswer
  <2> QED
    BY <1>1, <1>2, <2>1 DEF MailKnown, Said
<1>6. CommandSound
  <2>1. given \subseteq Address
    BY <1>1 DEF Hd, Address
  <2>2. waited \in 0..(MAX_AWAIT + 1)
    BY <1>1, WalletAssumption
  <2> QED
    BY <1>1, <2>1, <2>2, IdleSound DEF CommandSound, ArgumentSound
<1> QED
  BY <1>3, <1>4, <1>5, <1>6, InitKeys, InitQuery DEF WalletInv

LEMMA NextWallet == WalletInv /\ [Next]_vars => WalletInv'
<1> SUFFICES ASSUME WalletInv, [Next]_vars PROVE WalletInv'
  OBVIOUS
<1>1. KeyInv' /\ QueryInv'
  BY NextKeys, NextQuery DEF WalletInv
<1> QED
  BY <1>1, NextCoins, NextMiners, NextMail, NextCommand DEF WalletInv

\* Miners, messages, slots and the command keep to the transactions made, and
\* each of these spends the best of the coins that were offered to it.
THEOREM WalletInvariance == Spec => []WalletInv
  BY InitWallet, NextWallet, PTL DEF Spec

\* No process, message or slot speaks of a transaction or coin that does not
\* exist; a miner holds no transaction both pending and mined; nothing is under
\* way to or from a dead one (wallet.cpp, net/msg_cache.cpp).
THEOREM TypeCorrect == Spec => []TypeOK
<1>1. ASSUME WalletInv
      PROVE  TypeOK
  <2>1. \A t \in DOMAIN made :
          /\ made[t].ins \subseteq made[t].offered
          /\ made[t].change \in Nat /\ made[t].to \in Address
    <3>1. made \in Seq(Tx) /\ DOMAIN made = 1..Len(made)
      BY <1>1, LenProperties DEF WalletInv, CoinsTyped
    <3>2. \A t \in DOMAIN made : made[t] \in Tx
      BY <3>1, ElementOfSeq
    <3> QED
      BY <1>1, <3>2 DEF WalletInv, CoinsTyped, Tx
  <2>2. \A p \in Peers : /\ pool[p] \cup mined[p] \subseteq DOMAIN made
                         /\ pool[p] \cap mined[p] = {}
    BY <1>1 DEF WalletInv, MinersKnow
  <2>3. /\ conns \subseteq Peers /\ alive \subseteq Peers
        /\ \A p \in Peers \ alive : inbox[p] = <<>> /\ outbox[p] = <<>>
    BY <1>1 DEF WalletInv, MailKnown
  <2>4. /\ slot["pool"].has \cup slot["chain"].has \subseteq DOMAIN made
        /\ slot["utxos"].has \subseteq DOMAIN made \cup DOMAIN BaseCoins
    <3>1. /\ Said("pool", slot["pool"].has)
          /\ Said("chain", slot["chain"].has)
          /\ Said("utxos", slot["utxos"].has)
      BY <1>1 DEF WalletInv, MailKnown, Kinds
    <3> QED
      BY <3>1 DEF Said, Known
  <2>5. command.at \in {"down", "idle", "wait", "save", "write"}
    BY <1>1 DEF WalletInv, KeyInv, KeyTyped, Stages
  <2>6. \A c \in {"ext", "int"} : hd[c] \in Nat /\ file[c] \in Nat
    BY <1>1 DEF WalletInv, KeyInv, KeyTyped, Keys
  <2>7. /\ command.at = "idle" => command = Idle
        /\ status \in {"none", "Mempool", "Mined", "NotFound"}
        /\ waited \in 0..(MAX_AWAIT + 1) /\ given \subseteq Address
    BY <1>1 DEF WalletInv, CommandSound
  <2> QED
    BY <2>1, <2>2, <2>3, <2>4, <2>5, <2>6, <2>7 DEF TypeOK
<1> QED
  BY <1>1, WalletInvariance, PTL

\* Of whatever coins a miner answers, the transaction built wastes the least
\* that any selection could, and makes change only where no selection comes
\* within cost_of_change of the target (wallet.cpp branch_and_bound_select and
\* build_tx_from_utxos): the search leaves out the branches that cannot reach
\* the target, and those beyond it, and loses nothing by it.  This is the
\* search that ends by itself, not one that MAX_TRIES cuts off.
THEOREM SelectionsOptimal == Spec => []SelectionOptimal
<1>1. ASSUME WalletInv
      PROVE  SelectionOptimal
  <2>1. ASSUME NEW t \in DOMAIN made
        PROVE  LET target == made[t].amount + FeeEst
                   value == ValueOf(made[t].ins)
                   waste == {ValueOf(S) - target :
                               S \in (SUBSET made[t].offered) \ {{}}} \cap Nat
               IN  IF made[t].change = 0
                     THEN /\ value - target \in 0..CostOfChange
                          /\ \A w \in waste : value - target <= w
                     ELSE /\ value = target + made[t].change
                          /\ \A w \in waste : w > CostOfChange
    <3> DEFINE tx == made[t]
               target == tx.amount + FeeEst
               value == SumOver(Worth, tx.ins)
    <3>1. /\ tx \in Tx /\ tx.ins \subseteq tx.offered
          /\ tx.offered \subseteq Known /\ Optimal(tx, Worth)
      <4>1. made \in Seq(Tx) /\ DOMAIN made = 1..Len(made)
        BY <1>1, LenProperties DEF WalletInv, CoinsTyped
      <4> QED
        BY <1>1, <4>1, ElementOfSeq DEF WalletInv, CoinsTyped
    <3>2. \A S \in SUBSET tx.offered :
            ValueOf(S) = SumOver(Worth, S) /\ SumOver(Worth, S) \in Nat
      <4>1. \A S \in SUBSET tx.offered :
              IsFiniteSet(S) /\ \A c \in S : /\ Worth[c] = CoinOf(c).value
                                             /\ Worth[c] \in Nat
        BY <1>1, <3>1, KnownCoins, FS_Subset DEF WalletInv
      <4> QED
        BY <4>1, ValueIsSum, SumTyped
    <3>3. target \in Int /\ CostOfChange \in Nat
      BY <3>1, WalletAssumption DEF Tx
    <3>4. ValueOf(tx.ins) = value /\ value \in Nat
      BY <3>1, <3>2
    <3> HIDE DEF tx
    <3>5. CASE tx.change = 0
      <4>1. /\ value >= target /\ value <= target + CostOfChange
            /\ \A S \in SUBSET tx.offered :
                 S # {} /\ SumOver(Worth, S) >= target => value <= SumOver(Worth, S)
        BY <3>1, <3>5 DEF Optimal
      <4>2. value - target \in 0..CostOfChange
        BY <3>3, <3>4, <4>1
      <4>3. ASSUME NEW S \in SUBSET tx.offered, S # {}, ValueOf(S) - target \in Nat
            PROVE  value - target <= ValueOf(S) - target
        BY <3>2, <3>3, <3>4, <4>1, <4>3
      <4> QED
        BY <3>4, <3>5, <4>2, <4>3 DEF tx
    <3>6. CASE tx.change # 0
      <4>1. /\ value = target + tx.change
            /\ \A S \in SUBSET tx.offered :
                 S # {} /\ SumOver(Worth, S) >= target
                   => SumOver(Worth, S) > target + CostOfChange
        BY <3>1, <3>6 DEF Optimal
      <4>2. ASSUME NEW S \in SUBSET tx.offered, S # {}, ValueOf(S) - target \in Nat
            PROVE  ValueOf(S) - target > CostOfChange
        BY <3>2, <3>3, <4>1, <4>2
      <4> QED
        BY <3>4, <3>6, <4>1, <4>2 DEF tx
    <3> QED
      BY <3>5, <3>6
  <2> QED
    BY <2>1 DEF SelectionOptimal
<1> QED
  BY <1>1, WalletInvariance, PTL

=============================================================================
