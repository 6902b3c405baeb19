---------------------------- MODULE BlockDownload ----------------------------
(***************************************************************************)
(* How a node gets headers and blocks from its peers (net_processing.cpp). *)
(* One thread handles the messages of all peers and decides what to ask    *)
(* for; another removes peers that are marked for disconnection, at any    *)
(* time in between.  Peers may be slow, silent or leave; those in Reliable *)
(* stay and answer a request before the clock has advanced twice.          *)
(*                                                                         *)
(* Peers serve the whole chain, with witnesses and without compact blocks. *)
(* All blocks are valid; ProcessNewBlock nevertheless drops one as long as *)
(* it does not find the transactions whose outputs the block spends.  A    *)
(* height stands for the work of a chain; blocks from DayHeight up are     *)
(* less than a day old, those from FetchHeight up less than 20 intervals.  *)
(* Times are kept as ages: the number of ticks since the time stored.      *)
(***************************************************************************)
EXTENDS Integers, Sequences, FiniteSetsExt

CONSTANTS Peers, Reliable, Outbound, None, Left,
          Blocks, Genesis, Parent,
          Upto,                  \* of a block: the blocks up to it, itself included
          Views,                 \* the successive tips of each peer
          Spends,                \* the blocks whose outputs a block spends
          BLOCK_DOWNLOAD_WINDOW, MAX_BLOCKS_IN_TRANSIT_PER_PEER,
          BLOCK_STALLING_TIMEOUT, HEADERS_DOWNLOAD_TIMEOUT,
          BLOCK_DOWNLOAD_TIMEOUT_BASE, BLOCK_DOWNLOAD_TIMEOUT_PER_PEER,
          DayHeight, FetchHeight

ASSUME TreeAssumption ==
    /\ IsFiniteSet(Blocks) /\ Genesis \in Blocks /\ Parent \in [Blocks \ {Genesis} -> Blocks]
    /\ Upto \in [Blocks -> SUBSET Blocks] /\ Upto[Genesis] = {Genesis}
    /\ \A b \in Blocks \ {Genesis} : Upto[b] = {b} \cup Upto[Parent[b]] /\ b \notin Upto[Parent[b]]
    /\ \A b \in Blocks : Genesis \in Upto[b] /\ \A a \in Upto[b] : Upto[a] \subseteq Upto[b]
    /\ \A b \in Blocks : \A a, c \in Upto[b] : a \in Upto[c] \/ c \in Upto[a]

ASSUME PeersAssumption ==
    /\ IsFiniteSet(Peers) /\ Reliable \subseteq Peers
    /\ Views \in [Peers -> Seq(Blocks) \ {<<>>}]
    /\ None \notin Peers \cup Blocks \cup Nat /\ None # Left

ASSUME LimitsAssumption ==
    /\ BLOCK_DOWNLOAD_WINDOW \in Nat /\ MAX_BLOCKS_IN_TRANSIT_PER_PEER \in Nat \ {0}
    /\ BLOCK_STALLING_TIMEOUT \in Nat /\ HEADERS_DOWNLOAD_TIMEOUT \in Nat
    /\ BLOCK_DOWNLOAD_TIMEOUT_BASE \in Nat /\ BLOCK_DOWNLOAD_TIMEOUT_PER_PEER \in Nat

VARIABLES node,     \* mapNodeState, mapBlocksInFlight and the counters
          headers, bestHeader, data, tip,
          view, wanted, \* of each peer: the tip it is at, and the requests it has not answered
          owed      \* how many of those are older than the last tick

vars == <<node, headers, bestHeader, data, tip, view, wanted, owed>>

-----------------------------------------------------------------------------
(* The tree of blocks.                                                     *)

Height == [b \in Blocks |-> Cardinality(Upto[b]) - 1]

Lowest(S) == CHOOSE b \in S : \A c \in S : Height[b] <= Height[c]

Highest(S) == CHOOSE b \in S : \A c \in S : Height[c] <= Height[b]

\* Some blocks of a chain, the earliest first.
Ascending(S) == CHOOSE s \in [1..Cardinality(S) -> S] :
    \A i, j \in DOMAIN s : i < j => Height[s[i]] < Height[s[j]]

GetAncestor(b, h) == CHOOSE a \in Upto[b] : Height[a] = h

LastCommonAncestor == [a \in Blocks |-> [b \in Blocks |-> Highest(Upto[a] \cap Upto[b])]]

\* nChainTx # 0: all blocks below have been received.
Linked(b) == Upto[b] \subseteq data

IsInitialBlockDownload == Height[tip] < DayHeight

CanDirectFetch == Height[tip] >= FetchHeight

-----------------------------------------------------------------------------
(* The state of the peers.                                                 *)

\* An age one tick later.  Those above the longest time limit need not be told apart.
Older(age, limit) == IF age = None \/ age = limit + 1 THEN age ELSE age + 1

\* A peer in mapNodeState.  fDisconnect is a flag of its connection.
CNodeState ==
    [connected |-> FALSE, fDisconnect |-> FALSE, fPreferredDownload |-> FALSE,
     best |-> None, lastUnknown |-> None, lastCommon |-> None,
     vBlocksInFlight |-> <<>>, nBlocksInFlight |-> 0,
     nDownloadingSince |-> 0, nStallingSince |-> None,
     fSyncStarted |-> FALSE, nHeadersSyncSince |-> None]

CNodeStates ==
    [connected : BOOLEAN, fDisconnect : BOOLEAN, fPreferredDownload : BOOLEAN,
     best : Blocks \cup {None}, lastUnknown : Blocks \cup {None}, lastCommon : Blocks \cup {None},
     vBlocksInFlight : Seq(Blocks), nBlocksInFlight : Int,
     nDownloadingSince : Nat, nStallingSince : Nat \cup {None},
     fSyncStarted : BOOLEAN, nHeadersSyncSince : Nat \cup {None}]

ASSUME StatesAssumption == None \notin CNodeStates /\ Left \notin CNodeStates

Present(p) == node.peer[p] \notin {None, Left}

\* The peers that get and send messages.
Up(p) == Present(p) /\ node.peer[p].connected /\ ~node.peer[p].fDisconnect

\* A queue without the entry at an iterator.
Erase(v, i) == SubSeq(v, 1, i - 1) \o SubSeq(v, i + 1, Len(v))

MarkBlockAsReceived(d, b) ==
    LET p == d.inFlight[b]
        s == d.peer[p]
    IN  IF p = None THEN d
        ELSE [d EXCEPT
                !.inFlight[b] = None,
                !.nPeersWithValidatedDownloads = IF s.nBlocksInFlight = 1 THEN @ - 1 ELSE @,
                !.peer[p] = [s EXCEPT
                    !.vBlocksInFlight = Erase(@, CHOOSE i \in DOMAIN @ : @[i] = b),
                    !.nBlocksInFlight = @ - 1,
                    !.nDownloadingSince = IF Head(s.vBlocksInFlight) = b THEN 0 ELSE @,
                    !.nStallingSince = None]]

\* MarkBlockAsInFlight, for each of some blocks.  Both callers have left out those in flight, so
\* its other branches are not taken.  The first is a variant that does not set nDownloadingSince.
MarkInFlightSince(d, p, blocks) ==
    [d EXCEPT !.inFlight = [b \in Blocks |-> IF b \in Range(blocks) THEN p ELSE @[b]],
              !.nPeersWithValidatedDownloads =
                    IF d.peer[p].nBlocksInFlight = 0 /\ blocks # <<>> THEN @ + 1 ELSE @,
              !.peer[p].vBlocksInFlight = @ \o blocks,
              !.peer[p].nBlocksInFlight = @ + Len(blocks)]

MarkBlocksAsInFlight(d, p, blocks) ==
    [MarkInFlightSince(d, p, blocks) EXCEPT !.peer[p].nDownloadingSince =
        IF d.peer[p].nBlocksInFlight = 0 /\ blocks # <<>> THEN 0 ELSE @]

GetData(blocks) == [i \in DOMAIN blocks |-> [kind |-> "block", block |-> blocks[i]]]

\* The locator of a getheaders message, by the block it starts from.
GetHeaders(b) == <<[kind |-> "headers", block |-> b]>>

\* ProcessBlockAvailability and UpdateBlockAvailability, on the state s of a peer; known are the
\* headers in mapBlockIndex.
Better(s, b) == s.best # None => Height[b] >= Height[s.best]

ProcessBlockAvailability(s, known) ==
    IF s.lastUnknown \in known
      THEN [s EXCEPT !.lastUnknown = None, !.best = IF Better(s, s.lastUnknown)
                                                     THEN s.lastUnknown ELSE @]
      ELSE s

UpdateBlockAvailability(s, b, known) ==
    LET t == ProcessBlockAvailability(s, known)
    IN  IF b \notin known THEN [t EXCEPT !.lastUnknown = b]
        ELSE [t EXCEPT !.best = IF Better(t, b) THEN b ELSE @]

-----------------------------------------------------------------------------
(* Which blocks to ask for.                                                *)

Missing(d, b) == b \notin data /\ d.inFlight[b] = None

Nothing(common) == [common |-> common, blocks |-> <<>>, staller |-> None]

\* How far pindexLastCommonBlock moves on the walk.
Advanced(common, walk) == Highest({common} \cup {b \in walk : Linked(b)})

\* The walk of FindNextBlocksToDownload from the last common block to the end of the window and
\* one block further.
Fetch(d, p, common, best, count) ==
    LET end == Height[common] + BLOCK_DOWNLOAD_WINDOW
        walk == {b \in Upto[best] : Height[common] < Height[b] /\ Height[b] <= end + 1}
        missing == {b \in walk : Missing(d, b)}
        fetch == Ascending({b \in missing : Height[b] <= end})
        flying == {b \in walk : d.inFlight[b] # None}
        waitingfor == IF flying = {} THEN None ELSE d.inFlight[Lowest(flying)]
    IN  [common |-> Advanced(common, walk),
         blocks |-> SubSeq(fetch, 1, Min({count, Len(fetch)})),
         staller |-> IF fetch = <<>> /\ missing # {} /\ waitingfor # p
                       THEN waitingfor ELSE None]

\* The last common block when the peer may have reorganised.  The first is a variant that does not
\* go back.
CommonKept(common, best) == common

CommonWith(common, best) == LastCommonAncestor[common][best]

\* FindNextBlocksToDownload, for a peer whose pindexBestKnownBlock is up to date.
FindNextBlocksToDownload(d, p) ==
    LET s == d.peer[p]
        count == MAX_BLOCKS_IN_TRANSIT_PER_PEER - s.nBlocksInFlight
        guess == IF s.lastCommon # None THEN s.lastCommon
                 ELSE GetAncestor(tip, Min({Height[s.best], Height[tip]}))
    IN  IF s.best = None THEN Nothing(s.lastCommon)
        ELSE IF Height[s.best] < Height[tip] THEN Nothing(s.lastCommon)
        ELSE LET common == CommonWith(guess, s.best)
             IN  IF common = s.best THEN Nothing(common)
                 ELSE Fetch(d, p, common, s.best, count)

\* The blocks ProcessHeadersMessage asks for at once when the tip is recent, earliest first; none
\* when more of them are missing than the walk back from the last header takes in.
DirectFetch(d, p, last) ==
    LET path == Upto[last] \ Upto[tip]
        missing == {b \in path : Missing(d, b)}
        size == Cardinality(missing)
        max == MAX_BLOCKS_IN_TRANSIT_PER_PEER
        reached == size <= max \/ (size = max + 1 /\ Lowest(path) \in missing)
    IN  IF CanDirectFetch /\ Height[tip] <= Height[last] /\ reached
          THEN SubSeq(Ascending(missing), 1, Min({size, max - d.peer[p].nBlocksInFlight}))
          ELSE <<>>

-----------------------------------------------------------------------------
(* Connections.                                                            *)

Init ==
    /\ node = [peer |-> [p \in Peers |-> None], inFlight |-> [b \in Blocks |-> None],
               nPreferredDownload |-> 0, nPeersWithValidatedDownloads |-> 0, nSyncStarted |-> 0]
    /\ headers = {Genesis} /\ bestHeader = Genesis /\ data = {Genesis} /\ tip = Genesis
    /\ view = [p \in Peers |-> 1] /\ wanted = [p \in Peers |-> <<>>] /\ owed = [p \in Reliable |-> 0]

InitializeNode(p) ==
    /\ node.peer[p] = None
    /\ node' = [node EXCEPT !.peer[p] = CNodeState]
    /\ UNCHANGED <<headers, bestHeader, data, tip, view, wanted, owed>>

\* The version message with UpdatePreferredDownload and the verack after it, which sets
\* fSuccessfullyConnected: before both have come nothing else of the peer is handled.  In between it
\* counts as preferred already, which is left out.
Version(p) ==
    /\ Present(p) /\ ~node.peer[p].connected /\ ~node.peer[p].fDisconnect
    /\ node' = [node EXCEPT !.peer[p].connected = TRUE,
                            !.peer[p].fPreferredDownload = p \in Outbound,
                            !.nPreferredDownload = IF p \in Outbound THEN @ + 1 ELSE @]
    /\ UNCHANGED <<headers, bestHeader, data, tip, view, wanted, owed>>

\* The peer closes the connection, or is disconnected for a reason that is not modelled.
Leave(p) ==
    /\ p \notin Reliable /\ Present(p) /\ ~node.peer[p].fDisconnect
    /\ node' = [node EXCEPT !.peer[p].fDisconnect = TRUE]
    /\ UNCHANGED <<headers, bestHeader, data, tip, view, wanted, owed>>

\* FinalizeNode.  The first is a variant that leaves the blocks of the peer in flight.
FinalizedFlying(d, p) ==
    LET s == d.peer[p]
    IN  [d EXCEPT !.peer[p] = Left,
            !.nPreferredDownload = IF s.fPreferredDownload THEN @ - 1 ELSE @,
            !.nPeersWithValidatedDownloads = IF s.nBlocksInFlight # 0 THEN @ - 1 ELSE @,
            !.nSyncStarted = IF s.fSyncStarted THEN @ - 1 ELSE @]

Finalized(d, p) ==
    [FinalizedFlying(d, p) EXCEPT !.inFlight =
        [b \in Blocks |-> IF b \in Range(d.peer[p].vBlocksInFlight) THEN None ELSE @[b]]]

FinalizeNode(p) ==
    /\ Present(p) /\ node.peer[p].fDisconnect
    /\ node' = Finalized(node, p)
    /\ wanted' = [wanted EXCEPT ![p] = <<>>]
    /\ UNCHANGED <<headers, bestHeader, data, tip, view, owed>>

-----------------------------------------------------------------------------
(* SendMessages.                                                           *)

FetchFrom(d, p) == d.peer[p].fPreferredDownload \/ d.nPreferredDownload = 0

Recent(b) == Height[b] >= DayHeight

\* Whether headers are asked for: from a single peer, unless the best header is recent.
StartsSync(p) ==
    ~node.peer[p].fSyncStarted
    /\ ((node.nSyncStarted = 0 /\ FetchFrom(node, p)) \/ Recent(bestHeader))

SyncStarted(p) ==
    IF StartsSync(p)
      THEN [node EXCEPT !.peer[p].fSyncStarted = TRUE, !.peer[p].nHeadersSyncSince = 0,
                        !.nSyncStarted = @ + 1]
      ELSE node

InitialGetHeaders(p) ==
    IF StartsSync(p) THEN GetHeaders(IF bestHeader = Genesis THEN Genesis ELSE Parent[bestHeader])
    ELSE <<>>

Stalling(d, p) ==
    d.peer[p].nStallingSince # None /\ d.peer[p].nStallingSince > BLOCK_STALLING_TIMEOUT

\* The time a peer has for a block depends on how many others send blocks.
DownloadTimeout(d, p) ==
    /\ d.peer[p].vBlocksInFlight # <<>>
    /\ d.peer[p].nDownloadingSince > BLOCK_DOWNLOAD_TIMEOUT_BASE
            + BLOCK_DOWNLOAD_TIMEOUT_PER_PEER * (d.nPeersWithValidatedDownloads
                                                 - (IF d.peer[p].nBlocksInFlight > 0 THEN 1 ELSE 0))

HeadersTimeout(d, p) ==
    /\ d.peer[p].fSyncStarted /\ d.peer[p].nHeadersSyncSince # None /\ ~Recent(bestHeader)
    /\ d.peer[p].nHeadersSyncSince > HEADERS_DOWNLOAD_TIMEOUT
    /\ d.nSyncStarted = 1
    /\ d.nPreferredDownload - (IF d.peer[p].fPreferredDownload THEN 1 ELSE 0) >= 1

\* The first is a variant without the time limit for blocks.
OverdueHeaders(d, p) == Stalling(d, p) \/ HeadersTimeout(d, p)

Overdue(d, p) == Stalling(d, p) \/ DownloadTimeout(d, p) \/ HeadersTimeout(d, p)

\* A recent best header ends the time limit for headers.
HeadersSynced(d, p) ==
    IF Recent(bestHeader) THEN [d EXCEPT !.peer[p].nHeadersSyncSince = None] ELSE d

Disconnect(p) ==
    /\ Up(p) /\ Overdue(SyncStarted(p), p)
    /\ node' = [SyncStarted(p) EXCEPT !.peer[p].fDisconnect = TRUE]
    /\ wanted' = [wanted EXCEPT ![p] = @ \o InitialGetHeaders(p)]
    /\ UNCHANGED <<headers, bestHeader, data, tip, view, owed>>

MayFetch(d, p) ==
    /\ FetchFrom(d, p) \/ ~IsInitialBlockDownload
    /\ d.peer[p].nBlocksInFlight < MAX_BLOCKS_IN_TRANSIT_PER_PEER

\* A peer that can be asked for nothing, because of a block another one has not sent, starts the
\* time limit of that other one.
Accuse(d, p, staller) ==
    IF d.peer[p].nBlocksInFlight = 0 /\ staller # None /\ d.peer[staller].nStallingSince = None
      THEN [d EXCEPT !.peer[staller].nStallingSince = 0] ELSE d

\* The part of SendMessages about headers and blocks.  ConsiderEviction, which it calls, is left out.
SendMessages(p) ==
    /\ Up(p) /\ ~Overdue(SyncStarted(p), p)
    /\ \E d \in {HeadersSynced(SyncStarted(p), p)} :
        IF MayFetch(d, p)
          THEN \E e \in {[d EXCEPT !.peer[p] = ProcessBlockAvailability(@, headers)]} :
               \E next \in {FindNextBlocksToDownload(e, p)} :
                /\ node' = Accuse(MarkBlocksAsInFlight(
                                [e EXCEPT !.peer[p].lastCommon = next.common], p, next.blocks),
                                p, next.staller)
                /\ wanted' = [wanted EXCEPT ![p] =
                                @ \o InitialGetHeaders(p) \o GetData(next.blocks)]
          ELSE /\ node' = d
               /\ wanted' = [wanted EXCEPT ![p] = @ \o InitialGetHeaders(p)]
    /\ UNCHANGED <<headers, bestHeader, data, tip, view, owed>>

-----------------------------------------------------------------------------
(* What peers send.                                                        *)

TipOf(p) == Views[p][view[p]]

\* ProcessNewBlockHeaders: pindexBestHeader moves only to more work.
AcceptHeaders(b) ==
    /\ headers' = headers \cup Upto[b]
    /\ bestHeader' = IF Height[b] > Height[bestHeader] THEN b ELSE bestHeader

\* ProcessHeadersMessage for headers that connect and end with b.
ProcessHeadersMessage(p, b, rest) ==
    \E blocks \in {DirectFetch(node, p, b)} :
        /\ AcceptHeaders(b)
        /\ node' = [MarkBlocksAsInFlight(node, p, blocks) EXCEPT
                        !.peer[p] = UpdateBlockAvailability(@, b, headers \cup Upto[b])]
        /\ wanted' = [wanted EXCEPT ![p] = rest \o GetData(blocks)]

Answered(p) == owed' = [r \in Reliable |-> IF r = p /\ owed[r] > 0 THEN owed[r] - 1 ELSE owed[r]]

\* The answer to getheaders: the headers above the last block of the locator that the peer has.
Headers(p) ==
    /\ Up(p) /\ wanted[p] # <<>> /\ Head(wanted[p]).kind = "headers"
    /\ IF TipOf(p) \in Upto[Head(wanted[p]).block]
         THEN /\ wanted' = [wanted EXCEPT ![p] = Tail(@)]
              /\ UNCHANGED <<node, headers, bestHeader>>
         ELSE ProcessHeadersMessage(p, TipOf(p), Tail(wanted[p]))
    /\ Answered(p)
    /\ UNCHANGED <<data, tip, view>>

\* The tip once the blocks in have are stored: it moves only to more work.
ActivateBestChain(have) ==
    LET linked == {b \in have : Upto[b] \subseteq have}
        best == {b \in linked : \A c \in linked : Height[c] <= Height[b]}
    IN  IF Height[tip] = Max({Height[b] : b \in linked}) THEN tip' = tip ELSE tip' \in best

\* ProcessNewBlock drops a block when the transactions it spends are not found, AcceptBlockHeader
\* when its parent is not known.
Considers(b) == Spends[b] \subseteq Upto[tip] /\ Parent[b] \in headers

\* AcceptBlock keeps a block that is not in flight only when it does not have less work than the tip.
Keeps(b) == node.inFlight[b] # None \/ Height[b] >= Height[tip]

\* A block message.  It counts for the peer that was asked for the block, whoever sends it.  The header
\* of a block that AcceptBlock does not keep has been accepted.
ReceiveBlock(b) ==
    /\ node' = MarkBlockAsReceived(node, b)
    /\ IF Considers(b) THEN AcceptHeaders(b) ELSE UNCHANGED <<headers, bestHeader>>
    /\ IF Considers(b) /\ Keeps(b)
         THEN data' = data \cup {b} /\ ActivateBestChain(data')
         ELSE UNCHANGED <<data, tip>>

Block(p) ==
    /\ Up(p) /\ wanted[p] # <<>> /\ Head(wanted[p]).kind = "block"
    /\ ReceiveBlock(Head(wanted[p]).block)
    /\ wanted' = [wanted EXCEPT ![p] = Tail(@)]
    /\ Answered(p)
    /\ UNCHANGED view

\* A peer sends the block of its tip without being asked, whether nobody or another one is asked for
\* it: not when it was asked for twice already, which bounds the requests.  A node of this program
\* sends blocks in answers only (but for compact blocks).
BlockUnasked(p) ==
    /\ p \notin Reliable /\ Up(p) /\ TipOf(p) \notin data /\ node.inFlight[TipOf(p)] # p
    /\ \A q \in Peers :
        Cardinality({i \in DOMAIN wanted[q] :
                        wanted[q][i] = [kind |-> "block", block |-> TipOf(p)]}) <= 1
    /\ ReceiveBlock(TipOf(p))
    /\ UNCHANGED <<view, wanted, owed>>

\* The peer has a new tip and sends its header.  If that does not connect, headers are asked for.
AnnounceHeader(p) ==
    /\ Up(p) /\ view[p] < Len(Views[p])
    /\ view' = [view EXCEPT ![p] = @ + 1]
    /\ LET b == Views[p][view[p] + 1]
       IN  IF Parent[b] \in headers
             THEN ProcessHeadersMessage(p, b, wanted[p])
             ELSE /\ node' = [node EXCEPT !.peer[p] = UpdateBlockAvailability(@, b, headers)]
                  /\ wanted' = [wanted EXCEPT ![p] = @ \o GetHeaders(bestHeader)]
                  /\ UNCHANGED <<headers, bestHeader>>
    /\ UNCHANGED <<data, tip, owed>>

\* The same with an inv message.
AnnounceInv(p) ==
    /\ Up(p) /\ view[p] < Len(Views[p])
    /\ view' = [view EXCEPT ![p] = @ + 1]
    /\ LET b == Views[p][view[p] + 1]
       IN  /\ node' = [node EXCEPT !.peer[p] = UpdateBlockAvailability(@, b, headers)]
           /\ wanted' = [wanted EXCEPT ![p] =
                IF b \in headers \/ node.inFlight[b] # None THEN @ ELSE @ \o GetHeaders(bestHeader)]
    /\ UNCHANGED <<headers, bestHeader, data, tip, owed>>

LongestTimeout ==
    BLOCK_DOWNLOAD_TIMEOUT_BASE + BLOCK_DOWNLOAD_TIMEOUT_PER_PEER * (Cardinality(Peers) - 1)

Aged(s) ==
    [s EXCEPT !.nStallingSince = Older(@, BLOCK_STALLING_TIMEOUT),
              !.nHeadersSyncSince = Older(@, HEADERS_DOWNLOAD_TIMEOUT),
              !.nDownloadingSince = Older(@, LongestTimeout)]

\* The clock advances.
Tick ==
    /\ \A r \in Reliable : Up(r) => owed[r] = 0
    /\ node' = [node EXCEPT !.peer = [p \in Peers |->
                        IF Present(p) THEN Aged(node.peer[p]) ELSE node.peer[p]]]
    /\ owed' = [r \in Reliable |-> Len(wanted[r])]
    /\ UNCHANGED <<headers, bestHeader, data, tip, view, wanted>>

Next ==
    \/ Tick
    \/ \E p \in Peers :
        \/ InitializeNode(p) \/ Version(p) \/ Leave(p) \/ FinalizeNode(p)
        \/ SendMessages(p) \/ Disconnect(p)
        \/ Headers(p) \/ Block(p) \/ BlockUnasked(p)
        \/ AnnounceHeader(p) \/ AnnounceInv(p)

Spec == Init /\ [][Next]_vars

\* The threads go on, time passes, and the reliable peers connect, answer, and announce their new
\* tips.  Peers that are not reliable owe nothing.
Fairness ==
    /\ SF_vars(Tick)
    /\ \A p \in Peers : WF_vars(SendMessages(p) \/ Disconnect(p)) /\ WF_vars(FinalizeNode(p))
    /\ \A r \in Reliable :
        /\ WF_vars(InitializeNode(r) \/ Version(r))
        /\ WF_vars(Headers(r) \/ Block(r))
        /\ WF_vars(AnnounceHeader(r) \/ AnnounceInv(r))

LiveSpec == Spec /\ Fairness

-----------------------------------------------------------------------------
(* Properties.                                                             *)

Connected == {p \in Peers : Present(p)}

\* What MarkBlockAsReceived, MarkBlockAsInFlight and FinalizeNode keep in three places agrees:
\* mapBlocksInFlight names the peer in whose queue the block is, once, the counters count, and so
\* the assertions of FinalizeNode hold and State(staller) is never null.
DownloadsAgree ==
    /\ \A b \in Blocks : node.inFlight[b] # None => node.inFlight[b] \in Connected
    /\ \A p \in Connected : LET s == node.peer[p] IN
        /\ s.nBlocksInFlight = Len(s.vBlocksInFlight)
        /\ Range(s.vBlocksInFlight) = {b \in Blocks : node.inFlight[b] = p}
        /\ Cardinality(Range(s.vBlocksInFlight)) = s.nBlocksInFlight
        /\ s.nBlocksInFlight <= MAX_BLOCKS_IN_TRANSIT_PER_PEER
    /\ node.nPeersWithValidatedDownloads =
            Cardinality({p \in Connected : node.peer[p].vBlocksInFlight # <<>>})
    /\ node.nPreferredDownload = Cardinality({p \in Connected : node.peer[p].fPreferredDownload})
    /\ node.nSyncStarted = Cardinality({p \in Connected : node.peer[p].fSyncStarted})

\* Every block in flight has been asked for, after the last time it arrived: mapBlocksInFlight
\* keeps other peers from being asked, so a block in it that nobody was asked for would be held
\* up until its peer is disconnected.
InFlightAsked ==
    \A b \in Blocks : node.inFlight[b] # None =>
        [kind |-> "block", block |-> b] \in Range(wanted[node.inFlight[b]])

\* A peer whose time for stalling runs still has a block to send: nStallingSince does not outlive
\* the blocks for which SendMessages set it, from whichever peer they came.
StallersOwe ==
    \A p \in Connected : node.peer[p].nStallingSince # None => node.peer[p].vBlocksInFlight # <<>>

\* A peer that answers in time is not disconnected by SendMessages, for stalling or for a time
\* limit, whatever other peers do and wherever its blocks come from.
AnsweringPeersStay == \A r \in Reliable : Present(r) => ~node.peer[r].fDisconnect

\* FindNextBlocksToDownload never asks for a block at or below pindexLastCommonBlock; so all of
\* those have been received.
NothingSkipped ==
    \A p \in Connected : node.peer[p].lastCommon # None => Linked(node.peer[p].lastCommon)

\* All four: what SendMessages, ProcessMessage and FinalizeNode record about downloads, in several
\* places and for several peers, is true of the requests and of the blocks.
DownloadsSound == DownloadsAgree /\ InFlightAsked /\ StallersOwe /\ NothingSkipped

\* However many others are silent or leave, the tip gets at least the work of the chain of a
\* reliable peer: stalling peers, and one that is the only one asked for headers, are
\* disconnected, and blocks that ProcessNewBlock dropped because they came too early are asked
\* for again.
ReachesReliable == <>[](\A r \in Reliable : Height[tip] >= Height[TipOf(r)])

\* No block stays in flight from the same peer: it arrives, or SendMessages and FinalizeNode free
\* it for other peers.
NoBlockHeldUp == \A b \in Blocks, p \in Peers : []<>(node.inFlight[b] # p)
=============================================================================
