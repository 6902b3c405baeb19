----------------------------- MODULE BlockIntake -----------------------------
(***************************************************************************)
(* What BitCash adds to the way of a block into the chain: ProcessNewBlock *)
(* puts the amounts of its outputs right before it is stored, ConnectBlock *)
(* registers its nicknames and DisconnectBlock deletes them.  The nickname *)
(* database is written record by record at that moment, the coins and the  *)
(* block index are flushed later, and the process may end in between.      *)
(*                                                                         *)
(* A coin is named by the output that created it, and it is unspent when   *)
(* that output is in the active chain and no active block spends it.       *)
(* mapNicknameBook in memory and on disk are one variable: every field is  *)
(* written as soon as it changes, and what a crash leaves is the book with *)
(* a part of the writes.  Writes that fail are left out, as are the fields *)
(* nothing depends on (isnonprivate, hasviewkey, viewkey).                 *)
(***************************************************************************)
EXTENDS Conversion, SequencesExt

CONSTANTS
    Blocks, Base, Parent,       \* the tree of blocks above the last one before the first name
    Upto,                       \* of a block: the blocks after Base up to it
    Contents,                   \* the transactions of a block, the coinbase first
    Infos,                      \* the price information of a block
    Nicks, Addresses, None,
    MaxStops                    \* bound: how often the process ends

\* Only blocks whose prices CheckBlock accepts are looked at.  ProcessNewBlock divides by the rate
\* before it calls CheckBlock; what it does with other prices is not modelled.
ASSUME TreeAssumption ==
    /\ Base \in Blocks /\ Parent \in [Blocks \ {Base} -> Blocks]
    /\ Upto \in [Blocks -> SUBSET (Blocks \ {Base})] /\ Upto[Base] = {}
    /\ \A b \in Blocks \ {Base} : Upto[b] = Upto[Parent[b]] \cup {b} /\ b \notin Upto[Parent[b]]
    /\ None \notin Blocks \cup Nicks \cup Addresses
    /\ \A b \in Blocks : PricesAccepted(Infos[b])

\* A transaction names its registrations, the output whose currency counts as that of its inputs
\* (None for a coinbase), and its own outputs.
Outputs == [currency : Currencies, nValueBitCash : Int, nValue : Int]
Outpoints == [block : Blocks, tx : Nat, out : Nat]
Transactions ==
    [coinbase : BOOLEAN, regs : Seq([nick : Nicks, address : Addresses, master : BOOLEAN]),
     input : Outpoints \cup {None}, outs : Seq(Outputs)]

\* Prices are whole numbers, and what a transaction refers to exists, if not in the active chain: the
\* output as well as its transaction, as ProcessNewBlock takes for granted when it reads it.
ASSUME ContentsAssumption ==
    /\ Infos \in [Blocks -> [1..3 -> [Currencies -> Nat]]]
    /\ Contents \in [Blocks -> Seq(Transactions)]
    /\ \A b \in Blocks : \A i \in DOMAIN Contents[b] :
          LET o == Contents[b][i].input
          IN  o = None \/ ( /\ o \in Outpoints /\ o.tx \in DOMAIN Contents[o.block]
                           /\ o.out \in DOMAIN Contents[o.block][o.tx].outs )

VARIABLES
    running,    \* whether the process runs
    tip,        \* chainActive.Tip()
    stored,     \* the transactions stored for a block, None when there is no data
    failed,     \* the blocks with BLOCK_FAILED_VALID
    book,       \* mapNicknameBook and mapAddressForNicknameBook
    disk,       \* tip, stored and failed as of the last flush
    heads,      \* DB_HEAD_BLOCKS: old and new tip of an interrupted flush, or None
    stops,      \* how often the process has ended
    marred      \* what has happened that the nickname database does not survive

vars == <<running, tip, stored, failed, book, disk, heads, stops, marred>>

\* The blocks after a up to b, the earliest first, where a is an ancestor of b.
Path(a, b) ==
    SetToSortSeq(Upto[b] \ Upto[a], LAMBDA x, y : Upto[x] \subseteq Upto[y])

Fork(a, b) == CHOOSE f \in {Base} \cup (Upto[a] \cap Upto[b]) :
                  Upto[f] = Upto[a] \cap Upto[b]

-----------------------------------------------------------------------------
(* Nicknames.                                                              *)

EmptyBook == [pubkey |-> [n \in Nicks |-> None], hash |-> [n \in Nicks |-> None],
              invalid |-> [n \in Nicks |-> FALSE],
              name |-> [a \in Addresses |-> None], addrhash |-> [a \in Addresses |-> None]]

\* DoesNicknameExist and GetAddressForNickname.
Exists(bk, n) == bk.pubkey[n] # None
AddressOf(bk, n) == IF bk.invalid[n] THEN None ELSE bk.pubkey[n]

Write(field, key, value) == [field |-> field, key |-> key, value |-> value]

Written(bk, writes) ==
    FoldLeft(LAMBDA x, w : [x EXCEPT ![w.field][w.key] = w.value], bk, writes)

\* SetNickname: the records it writes, in their order.  The first is a variant, which
\* leaves the name the address had before as it is.
SetNicknameOnly(bk, r, b) ==
    <<Write("pubkey", r.nick, r.address), Write("name", r.address, r.nick),
      Write("hash", r.nick, b), Write("invalid", r.nick, FALSE)>>
    \o (IF r.master THEN <<>> ELSE <<Write("addrhash", r.address, b)>>)

SetNickname(bk, r, b) ==
    (IF bk.name[r.address] = None THEN <<>>
       ELSE <<Write("invalid", bk.name[r.address], TRUE)>>)
    \o <<Write("pubkey", r.nick, r.address), Write("name", r.address, r.nick),
         Write("hash", r.nick, b), Write("invalid", r.nick, FALSE)>>
    \o (IF r.master THEN <<>> ELSE <<Write("addrhash", r.address, b)>>)

DeleteNickname(r) ==
    <<Write("pubkey", r.nick, None), Write("name", r.address, None),
      Write("hash", r.nick, None), Write("addrhash", r.address, None)>>

Registrations ==
    [b \in Blocks |-> FlattenSeq([i \in DOMAIN Contents[b] |-> Contents[b][i].regs])]

\* The writes of a sequence of blocks that are connected to a book.
ConnectWrites(bk, blocks) ==
    LET regs == FlattenSeq([i \in DOMAIN blocks |->
                    [j \in DOMAIN Registrations[blocks[i]] |->
                        <<Registrations[blocks[i]][j], blocks[i]>>]])
        step(x, rb) == LET w == SetNickname(x.bk, rb[1], rb[2])
                       IN  [bk |-> Written(x.bk, w), writes |-> x.writes \o w]
    IN  FoldLeft(step, [bk |-> bk, writes |-> <<>>], regs).writes

\* The writes of DisconnectBlock, which goes through the block from its beginning.
DisconnectWrites(b) ==
    FlattenSeq([j \in DOMAIN Registrations[b] |-> DeleteNickname(Registrations[b][j])])

\* The writes of ReplayBlocks: the old branch is undone from its tip, the new one applied.
\* The first is a variant that does not register the names of the new one.
ReplayBack(bk, old, new) ==
    FlattenSeq([i \in DOMAIN Path(Fork(old, new), old) |->
        DisconnectWrites(Reverse(Path(Fork(old, new), old))[i])])

ReplayWrites(bk, old, new) ==
    LET back == ReplayBack(bk, old, new)
    IN  back \o ConnectWrites(Written(bk, back), Path(Fork(old, new), new))

\* DeleteAllNicknames.  The address is the one the name has, if it has one.
DeleteAllNicknames(bk) ==
    LET erase(n) == IF Exists(bk, n)
                     THEN DeleteNickname([nick |-> n, address |-> bk.pubkey[n]])
                     ELSE <<Write("pubkey", n, None), Write("hash", n, None)>>
    IN  FlattenSeq(SetToSeq({erase(n) : n \in Nicks}))

\* The addresses whose records DeleteAllNicknames does not find.
Orphans(bk) ==
    {a \in Addresses : (bk.name[a] # None \/ bk.addrhash[a] # None)
                       /\ \A n \in Nicks : bk.pubkey[n] # a}

\* The checks of CheckTxInputs.  The first two are variants: one does not look at the block of a name
\* that exists, to the other a name that exists is taken, by whichever block.
NamesFreeByAddress(b) ==
    \A r \in Range(Registrations[b]) :
        book.name[r.address] # None => book.addrhash[r.address] = b \/ r.master

NamesFreeNew(b) ==
    \A r \in Range(Registrations[b]) :
        /\ ~Exists(book, r.nick)
        /\ book.name[r.address] # None => book.addrhash[r.address] = b \/ r.master

NamesFree(b) ==
    \A r \in Range(Registrations[b]) :
        /\ Exists(book, r.nick) => book.hash[r.nick] = b
        /\ book.name[r.address] # None => book.addrhash[r.address] = b \/ r.master

\* CheckBlock: no name twice in a block, no address twice unless the master key signed.
NamesDistinct(b) ==
    LET r == Registrations[b]
    IN  \A j \in DOMAIN r : \A i \in 1..(j - 1) :
            r[i].nick # r[j].nick /\ (r[i].address = r[j].address => r[j].master)

-----------------------------------------------------------------------------
(* Coins and amounts.                                                      *)

Creator(o) == Contents[o.block][o.tx]

\* The currency of a coin: that of a coinbase is always BitCash.
CoinCurrency(o) == IF Creator(o).coinbase THEN BitCash ELSE Creator(o).outs[o.out].currency

HaveCoin(o, t) ==
    /\ o.block \in Upto[t] \cup {Base}
    /\ \A b \in Upto[t] : \A i \in DOMAIN Contents[b] : Contents[b][i].input # o

InputCurrency(tx) == IF tx.input = None THEN BitCash ELSE CoinCurrency(tx.input)

\* What ProcessNewBlock takes it for: a coin that pcoinsTip does not have is looked up in the
\* transaction that created it, as the output says.
SeenCurrency(tx, t) ==
    IF tx.input = None THEN BitCash
    ELSE IF HaveCoin(tx.input, t) THEN CoinCurrency(tx.input)
    ELSE Creator(tx.input).outs[tx.input.out].currency

\* The block as its miner made it, and with the amounts at the places W changed on the way: the
\* hash of the block does not cover them.
Mined == [b \in Blocks |-> [i \in DOMAIN Contents[b] |->
    ConvertForTemplate(Contents[b][i], InputCurrency(Contents[b][i]), Rates(Infos[b]))]]

Places(b) == {p \in (DOMAIN Contents[b]) \X (1..2) : p[2] \in DOMAIN Contents[b][p[1]].outs}

Sent(b, W) == [i \in DOMAIN Contents[b] |-> LET tx == Mined[b][i] IN [tx EXCEPT !.outs =
    [j \in DOMAIN tx.outs |-> IF <<i, j>> \in W
        THEN [tx.outs[j] EXCEPT !.nValue = tx.outs[j].nValue + 1] ELSE tx.outs[j]]]]

AmountsRight(b, txs) ==
    \A i \in DOMAIN txs : Wrong(txs[i], InputCurrency(txs[i]), Rates(Infos[b])) = {}

InputsAvailable(b) ==
    \A i \in DOMAIN Contents[b] : Contents[b][i].input # None => HaveCoin(Contents[b][i].input, tip)


-----------------------------------------------------------------------------
(* The node.                                                               *)

OnDisk == [tip |-> tip, stored |-> stored, failed |-> failed]

Init ==
    /\ running = TRUE /\ tip = Base /\ failed = {}
    /\ stored = [b \in Blocks |-> IF b = Base THEN Mined[b] ELSE None]
    /\ book = EmptyBook /\ disk = OnDisk /\ heads = None
    /\ stops = 0 /\ marred = {}

\* The block as ProcessNewBlock has put it right.  The coins are read before cs_main is taken, so
\* the tip t may be one of some time ago.
ReceivedAt(b, W, t) ==
    [txs |-> [i \in DOMAIN Contents[b] |->
                 PutRight(Sent(b, W)[i], SeenCurrency(Contents[b][i], t), Rates(Infos[b]))],
     twice |-> \E p, q \in W : p[1] = q[1] /\ p # q]

Received ==
    [b \in Blocks |-> {ReceivedAt(b, W, t) : W \in SUBSET Places(b), t \in Blocks}]

\* ProcessNewBlock: CheckBlock, then AcceptBlock, which keeps the data that came first.  A block
\* with an input that GetTransaction does not find either is dropped.
ProcessNewBlock(b) ==
    /\ running /\ NamesDistinct(b) /\ stored[b] = None /\ (Upto[b] \cap failed) = {}
    /\ \E r \in Received[b] :
          /\ stored' = [stored EXCEPT ![b] = r.txs]
          /\ marred' = marred \cup (IF r.twice THEN {"twice"} ELSE {})
    /\ UNCHANGED <<running, tip, failed, book, disk, heads, stops>>

\* ConnectBlock is called for a block with data on top of the tip; ChainState says which.
Connectable(b) ==
    /\ running /\ b \in Blocks \ ({Base} \cup failed)
    /\ Parent[b] = tip /\ stored[b] # None

\* The inputs and names are checked first, then the names registered, the amounts checked last.
ConnectTip(b) ==
    /\ Connectable(b) /\ InputsAvailable(b) /\ NamesFree(b) /\ AmountsRight(b, stored[b])
    /\ tip' = b /\ book' = Written(book, ConnectWrites(book, <<b>>))
    /\ UNCHANGED <<running, stored, failed, disk, heads, stops, marred>>

RefuseNames(b) ==
    /\ Connectable(b) /\ ~(InputsAvailable(b) /\ NamesFree(b))
    /\ failed' = failed \cup {b}
    /\ UNCHANGED <<running, tip, stored, book, disk, heads, stops, marred>>

\* The names of the block that is refused stay registered.
RefuseAmounts(b) ==
    /\ Connectable(b) /\ InputsAvailable(b) /\ NamesFree(b) /\ ~AmountsRight(b, stored[b])
    /\ failed' = failed \cup {b}
    /\ book' = Written(book, ConnectWrites(book, <<b>>))
    /\ marred' = marred \cup (IF Registrations[b] = <<>> THEN {} ELSE {"refused"})
    /\ UNCHANGED <<running, tip, stored, disk, heads, stops>>

Renames(b) == \E r \in Range(Registrations[b]) : r.master

DisconnectTip ==
    /\ running /\ tip # Base
    /\ tip' = Parent[tip] /\ book' = Written(book, DisconnectWrites(tip))
    /\ marred' = marred \cup (IF Renames(tip) THEN {"renamed"} ELSE {})
    /\ UNCHANGED <<running, stored, failed, disk, heads, stops>>

\* FlushStateToDisk: the block index, then the coins.
Flush ==
    /\ running /\ disk # OnDisk
    /\ disk' = OnDisk
    /\ UNCHANGED <<running, tip, stored, failed, book, heads, stops, marred>>

\* The process ends, and what has not been flushed is gone.  The nickname database is not part
\* of that: it stays as far as it has been written.
Stopped(bk, d, h, m) ==
    /\ stops < MaxStops /\ stops' = stops + 1
    /\ running' = FALSE /\ tip' = d.tip /\ stored' = d.stored /\ failed' = d.failed
    /\ book' = bk /\ disk' = d /\ heads' = h /\ marred' = m

Begun(writes) == {SubSeq(writes, 1, k) : k \in 1..Len(writes)}

Crash ==
    /\ running
    /\ Stopped(book, disk, None, marred \cup (IF tip = disk.tip THEN {} ELSE {"ahead"}))

\* While names are registered or deleted.
CrashInWrites(writes) ==
    /\ running
    /\ \E w \in Begun(writes) :
           Stopped(Written(book, w), disk, None,
                   marred \cup {"ahead"} \cup (IF w = writes THEN {} ELSE {"torn"}))

CrashInConnect(b) ==
    /\ Connectable(b) /\ InputsAvailable(b) /\ NamesFree(b)
    /\ CrashInWrites(ConnectWrites(book, <<b>>))

CrashInDisconnect == tip # Base /\ CrashInWrites(DisconnectWrites(tip))

\* While the coins are written: the block index is on disk, and the two tips are noted, or
\* not yet.
CrashInFlush ==
    /\ running /\ tip # disk.tip
    /\ \/ Stopped(book, OnDisk, <<disk.tip, tip>>, marred)
       \/ Stopped(book, [OnDisk EXCEPT !.tip = disk.tip], None, marred \cup {"ahead"})

\* The blocks whose records DeleteNickname takes away.
Owners(r) ==
    {book.hash[r.nick]} \cup {book.hash[n] : n \in {book.name[r.address]} \ {None}}

\* Whether a replay takes back a name given by the master key, or what another block has registered
\* that it does not apply again.
Undone ==
    IF heads # None /\ \E b \in Upto[heads[1]] \ Upto[heads[2]] :
           Renames(b) \/ \E r \in Range(Registrations[b]) :
                             ~(Owners(r) \subseteq (Upto[heads[2]] \ Upto[heads[1]]) \cup {b, None})
      THEN {"undone"} ELSE {}

\* The next start: LoadBlockIndex, and ReplayBlocks when a flush was interrupted.
Restart ==
    /\ ~running /\ running' = TRUE /\ heads' = None
    /\ book' = IF heads = None THEN book
               ELSE Written(book, ReplayWrites(book, heads[1], heads[2]))
    /\ marred' = (marred \ {"replay"}) \cup Undone
    /\ UNCHANGED <<tip, stored, failed, disk, stops>>

\* ReplayBlocks is interrupted: the coins it has changed are written at its end.
CrashInReplay ==
    /\ ~running /\ heads # None
    /\ \E w \in Begun(ReplayWrites(book, heads[1], heads[2])) :
           Stopped(Written(book, w), disk, heads, marred \cup {"replay"} \cup Undone)

\* A start with -reindex-chainstate, and its end before the coins are removed.
Reindex ==
    /\ ~running /\ running' = TRUE /\ heads' = None /\ tip' = Base
    /\ disk' = [disk EXCEPT !.tip = Base]
    /\ book' = Written(book, DeleteAllNicknames(book))
    /\ marred' = (marred \cap {"twice"}) \cup (IF Orphans(book) = {} THEN {} ELSE {"orphan"})
    /\ UNCHANGED <<stored, failed, stops>>

CrashInReindex ==
    /\ ~running
    /\ \E w \in Begun(DeleteAllNicknames(book)) :
           Stopped(Written(book, w), disk, heads, marred \cup {"torn"})

Next ==
    \/ \E b \in Blocks \ {Base} :
          \/ ProcessNewBlock(b) \/ ConnectTip(b) \/ RefuseNames(b) \/ RefuseAmounts(b) \/ CrashInConnect(b)
    \/ DisconnectTip \/ CrashInDisconnect
    \/ Flush \/ Crash \/ CrashInFlush
    \/ Restart \/ CrashInReplay \/ Reindex \/ CrashInReindex

Spec == Init /\ [][Next]_vars

-----------------------------------------------------------------------------
(* Properties.                                                             *)

\* The book of a chain that was connected block by block, without any incident.
BookOf == [t \in Blocks |-> Written(EmptyBook, ConnectWrites(EmptyBook, Path(Base, t)))]

\* The nicknames are those of the active chain, with their owners, blocks and validity, whatever
\* reorganisations, flushes, replays and reindexes occur, as long as no block is refused for its
\* amounts, no name given by the master key is disconnected and the process does not end with
\* names written that the chain on disk does not have.  A replay that is interrupted heals when
\* it is repeated, and a reindex heals everything but records of addresses without a name.
RegistryOfChain ==
    running /\ marred \subseteq {"twice"} =>
        /\ [book EXCEPT !.invalid = 0] = [BookOf[tip] EXCEPT !.invalid = 0]
        /\ \A n \in Nicks : AddressOf(book, n) = AddressOf(BookOf[tip], n)

\* The names of the active chain are registered for their addresses, also after blocks were
\* refused between registering their names and checking their amounts, and after names given by
\* the master key were taken back.
ActiveNamesKept ==
    running /\ marred \subseteq {"twice", "refused", "renamed"} =>
        \A b \in Upto[tip] : \A r \in Range(Registrations[b]) :
            book.pubkey[r.nick] = r.address /\ book.hash[r.nick] = b

\* An address is reached by at most one name, also after names given by the master key were
\* taken back: the name they replaced stays invalid, whatever is registered next.  (A replay
\* that takes such a name back may delete what was registered meanwhile.)
OneValidName ==
    running /\ marred \subseteq {"twice", "renamed"} =>
        \A m, n \in Nicks : AddressOf(book, m) = AddressOf(book, n) =>
                                 m = n \/ AddressOf(book, m) = None

\* What a block refused for its amounts and a name taken back leave behind is healed by a
\* reindex, now or later: every address with a record has a name that leads to it.
ReindexHeals ==
    running /\ marred \subseteq {"twice", "refused", "renamed"} => Orphans(book) = {}

\* All three: blocks that are refused after their names were written, and names taken back, do no
\* harm to the names of others that a reindex would not repair.
NamesHeld == ActiveNamesKept /\ OneValidName /\ ReindexHeals

\* While the process runs, a name never passes from one address to another: it is deleted first.
\* Only the rest of a registration that a crash cut short can be taken over.
NamesNotTaken ==
    [][running /\ running' /\ "torn" \notin marred =>
           \A n \in Nicks : Exists(book, n) /\ Exists(book', n) =>
                                book'.pubkey[n] = book.pubkey[n]]_vars

\* A coinbase that pays Dollars.
PaysDollars ==
    \E b \in Blocks : \E i \in DOMAIN Contents[b] : \E j \in DOMAIN Contents[b][i].outs :
        Contents[b][i].coinbase /\ Contents[b][i].outs[j].currency = Dollar

\* The amounts of every block that is stored are right, so ConnectBlock will not refuse it for
\* them, when its miner made them right and no copy of a block came with two wrong amounts in
\* one transaction: ProcessNewBlock puts only the first right.  That holds whatever the chain
\* was when the block came.  A coinbase that pays Dollars is not known as a coinbase once it is
\* spent or off the chain.
StoredRight ==
    \/ "twice" \in marred
    \/ PaysDollars
    \/ \A b \in Blocks : stored[b] # None => AmountsRight(b, stored[b])

\* What a block may contain on its chain, whatever the registry says: inputs that are unspent, names
\* that no block below it has registered, addresses none has named unless the master key signed,
\* right amounts.
FitsItsChain(b) ==
    /\ InputsAvailable(b) /\ AmountsRight(b, stored[b])
    /\ \A r \in Range(Registrations[b]) :
          \A c \in Upto[Parent[b]] : \A q \in Range(Registrations[c]) :
              q.nick # r.nick /\ (q.address = r.address => r.master)

\* The blocks of other branches that have a record in the registry which is in the way of b.
RivalRecords(b) ==
    {c \in Blocks : /\ b \notin Upto[c] /\ c \notin Upto[b]
                    /\ \E r \in Range(Registrations[b]) :
                          c = book.hash[r.nick] \/ (c = book.addrhash[r.address] /\ ~r.master)}

\* ConnectBlock asks the registry, and marks a block invalid for good when a name is taken.  The
\* registry is to answer for the chain below the block: through reorganisations, replays and
\* reindexes, also after names given by the master key were taken back or a replay deleted records
\* of other blocks, a block that fits its chain is not refused.  When the process has ended with
\* names on disk that its chain does not have, or a block refused for its amounts has left its names,
\* a block that fits can be refused, but not for records of its own or of its branch: those of
\* another branch are in its way.
RefusedForCause ==
    [][\A b \in failed' \ failed : FitsItsChain(b) =>
           /\ ~(marred \subseteq {"twice", "renamed", "undone"})
           /\ marred \subseteq {"twice", "refused", "ahead", "undone"} => RivalRecords(b) # {}]_vars

=============================================================================
