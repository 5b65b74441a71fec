# KokonaChat in TLA+

KokonaChat is a peer-to-peer messenger without a server: UDP datagrams between friends,
end-to-end encrypted, each program keeping its friends' last known addresses and asking
common friends when they are stale. This directory holds a specification of its protocol
and of its concurrency, model-checked with TLC, and proofs checked with TLAPS.

Paths below are relative to the repository's crate, `src/` being the Rust sources.
`PROJECT.json` names, for every definition, the source lines it stands for.

## 1. The system

One process runs, per account (a lock file in the data directory enforces it):

| thread or process | code | state |
|---|---|---|
| network task (tokio, one loop, no inner concurrency) | `net/mod.rs` `run_loop` | socket, `Retransmitter`, `failed_sends`, `SessionTable`, `addr_queries`, `ip_probes`, `pending_announce`, `pending_pushes`, `attach_sends`, `chunk_seqs`, `attach_recvs` |
| interface (terminal, graphical or headless) | `tui/app.rs` `App`, `gui/`, `headless.rs` | `friends` (a copy), `msgs`, `next_seq`, `input`, settings |
| IPC listener | `ipc.rs` `serve` | none of its own |
| short-lived processes: a CLI command, a clicked link, an import | `main.rs`, `backup.rs`, `ipc.rs` `try_add_friend` | a copy of `friends.toml` |

They interact through

* a queue of **commands** interface → network (bounded to 256, entered with `try_send`,
  whose result the chat application ignores);
* a queue of **events** network → interface (unbounded, emptied on every frame);
* the **friend store**, one `Arc<Mutex<FriendStore>>` inside the process, written to
  `friends.toml` after each change; the short-lived processes read and write the same file
  from outside, with nothing to keep them apart;
* **UDP packets** between programs: lost, repeated, delayed and reordered at will.

The network task is one loop (`mod.rs:231`): retry pass; expiry and repetition of address
queries; retries of address announcements; retries of what is relayed; detection of an
address change; pruning of attachment buffers; then one packet, one command or a timeout.
Each handler runs to its end before the next, so *a handler is an action*, and the
interesting interleavings are those of handlers of different programs, of the retry pass
with packets on the wire, and of the network task with the interface.

### Components

1. **Text delivery** (`net/mod.rs`, `net/retransmit.rs`). A message is sent to all known
   addresses and put in the retransmitter: three retransmissions, 2 s apart, then it moves
   to `failed_sends` and the user is told. It leaves `failed_sends` for the retransmitter
   again when its friend is heard from (`note_friend_seen` → `retry_failed_for`), when an
   address is learnt (IP_CHANGED, PUSH_IP, an answer to a query). An acknowledgement settles
   it only while it is in the retransmitter. *Correct if* nothing is lost track of, a check
   mark is true, a failed message is not a dead end.
2. **Duplicate suppression** (`net/session.rs`). The last numbers accepted from each friend,
   as a deque and a set; one window for texts (numbers from 0) and attachment chunks (from
   0x8000_0000), entered before the type of a message is looked at. *Correct if* only copies are
   taken for copies, and a copy is shown twice only when the window has slid past it.
3. **Attachments** (`net/mod.rs` 500–640). Chunks numbered from 0x8000_0000 share the
   retransmitter; `attach_sends` counts what is acknowledged, `chunk_seqs` maps numbers to
   chunks; one chunk's failure ends the transfer. The receiver assembles and forgets buffers
   after 120 s. The numbers start again with the process. *Correct if* the three maps agree and
   one true verdict comes out.
4. **Address queries** (`net/mod.rs` 682–894). One question to each other friend, repeated
   twice to those that have not answered, 6 s in all. *Correct if* each query gives exactly
   one honest result and a found address sends the failed messages again.
5. **Address announcements and relaying** (`net/mod.rs` 896–1200). On start and when the
   IPv6 address changes: IP_CHANGED to every friend, three tries, 10 s apart; then GOSSIP to
   the other friends, who send PUSH_IP if they know the one concerned; the announcement is
   kept for the day that friend is heard from. *Correct if* the newest announcement is
   tracked until confirmed.
6. **Chat application** (`tui/app.rs`). The list of messages, their statuses and numbers.
   *Correct if* the list is the network task's view, late by the events in the queue only.
7. **Friend store** (`store/friends.rs`). The friends with up to eight addresses each, the
   latest source of a packet first, what others report sorted IPv6 first; a file, written
   after each change by truncating and filling it. *Correct if* no address is held twice or
   lost while there is room, none is another's or useless, and no friend is lost.
   A save may fail; only some callers report it.
8. **Deep links and the identity lock** (`ipc.rs`, `main.rs`). A clicked link
   is handed to the running program through a derived TCP port, else written to the file; one
   run of the program at a time has the data directory. *Correct if* there is one run, a lock
   is left by a kill only, and a friend the user was told of stays.
9. **Wire formats** (`net/packet.rs`, `proto/`), **sockets** (`net/socket.rs`),
   **configuration** (`config.rs`), **cryptography and identity** (`crypto/`),
   **backup** (`backup.rs`): sequential; what the others rely on is in the models (lengths of
   packets, mapped addresses, the stable public address, the truncated identity).
10. **CLI parsing, link syntax, logs, drawing**: no state of their own.

What is hard here: late and repeated packets against the retry pass and against restarts;
maps that are updated one after the other; queues, windows and address lists at their limit; a friend added by another
thread; two announcements on the wire at once; several queries for one target; files shared
by processes that may be killed between two writes. `PROJECT.json` lists each hazard at its line.

## 2. The modules

```
 ReliableMessage <── implements ── Delivery ──┐
        ▲                                     ├── EXTENDS ──► DedupWindow
        │ INSTANCE                AttachTransfer ──┘
     ChatApp

 AddressQuery     AddressAnnounce     AddressPath ── EXTENDS ──► Wire ──► FriendBook ──► Lists

 DataDir
```

| proofs | about |
|---|---|
| `ListLemmas` | lemmas on lists and recursion along them, and on `MarkSeen`; used by the next four |
| `DeliveryProofs` | Delivery, and Delivery as a ReliableMessage |
| `AttachTransferProofs` | AttachTransfer |
| `ChatAppProofs` | ChatApp |
| `AddressPathProofs` | AddressPath with Wire and FriendBook |
| `AddressQueryProofs` | AddressQuery |
| `AddressAnnounceProofs` | AddressAnnounce |
| `DataDirProofs` | DataDir |

**Lists** – the elements of a list that are in a set, in their order: `filter` and `retain` in
the code. Loops over lists are recursive functions of the index, here and in FriendBook, Wire
and ChatApp, and not folds: a proof can unfold them.

**DedupWindow** – `PeerSession`: `Windows`, `IsSeen`, `MarkSeen`, `Remember` for any length.

**Delivery** – this node and any set of friends. `pending`/`attempts` are the retransmitter,
`failedSends` the map, `told` the last event of each message (with `refused`: the events of
messages that were never kept), `hasAddr` whether the store has an address, `msgs`/`acks`
the wire, `sessions` the friends' windows; `shown`, `repeated`, `rebooted` are history. One
action per handler: `HandleSend` (three outcomes), `PollRetries(D)` for any set `D` of
packets that are due, `HandleAck`, `HearFrom` (any other packet: `note_friend_seen` is part
of both), `LearnAddress` (`merge_ips` then `retry_failed_for`), `AddrAnswerHit`,
`HandleMsg`, `HandleChunk` (an attachment chunk of ours on its way through the friend's one
window: any chunk, at any time), `DropPacket`, `PeerRestart`, `Restart`. Time is abstract: a packet is due at
any moment. An event `changed` of the store is free, because `last_seen` changes with the
millisecond.

**ReliableMessage** – what the sender is promised: a message is submitted once, may arrive
while "sending" or "failed", is "acked" only after it has arrived, and that is final.
`Refinement` in DeliveryProofs says that Delivery implements it (mapping: `refused` or `told` for the
status, the numbers in `shown` for what arrived).

**AttachTransfer** – transfers of given chunk counts to given friends: `attachSeq` and
`seqOf` for the numbers, `pending`, `chunkSeqs`, `attachSends`, `acked`, the receiver's
`sessions` and `buffers`. The maps hold chunks, but packets, acknowledgements and the friend's
window go by numbers, as in the code: `HandleAck` looks a number up among registered chunks,
whoever it was sent to, then among the pending packets of the friend it comes from. `Restart`
(in `RestartSpec` only) empties the maps and starts the numbers again while the wire and the
friend's window stay. Texts reach that window too (`HandleText`). `PollRetries(D)` takes the
failed chunks of a pass together, as the loop over `failed` does, `cancel_transfer`
included. `PruneRecv` is allowed only for transfers that are over at the sender: the 120 s of
`ATTACH_RECV_TTL` exceed the 8 s of the retransmissions.

**AddressQuery** – one target, its helpers (all other friends), any number of simultaneous
queries. `CheckAndRetry(E, R)` is `check_addr_queries` and `retry_addr_queries` in the order
of the loop; `HandleAnswer` is the whole handler, including the two ways it sends failed
messages again, but for one return: an answer whose target is not the query's takes the query
out of the map and reports nothing (`HandleStrayAnswer`, `mod.rs:731`). What a helper knows is its business: an answer holds addresses or none.

**AddressAnnounce** – the announcer's maps for one friend, that friend's record of the
announcer's addresses, and the relays' entries. Address changes are numbered, and a probe id
is the number it announces. `live` says at which of the announcer's addresses packets still
reach it: a friend that knows none of them is silent to the announcer. Packets carry the
address they come from, because the receiver records it.
The friend's record, `book`, is a list of `MaxIps` addresses, one for each version of the
announcer's: `Heard` puts the source of a packet in front, `Merged` an announced address, IPv6
ones before the others, and what does not fit is cut off (`friends.rs:107`, `132`). The friend
acknowledges the announcement whether or not its address found room (`mod.rs:1026`). An
announcement may list an IPv6 and a public IPv4 address; a version stands for the one that has
changed. FriendBook has the list with real addresses.

**ChatApp** – the interface thread, the network task as ReliableMessage describes it, both
queues with their capacity and the store shared with the IPC listener. `Takes` is
`try_send`; `DrainEvents(n)` is a frame: events are handled in order, failures start queries
when automatic addressing is on, the list of friends is read again (`HandledAll`, `AskedAll` are the loop of `drain_events`). `SendPanics` is the
`unwrap` on a friend without a conversation.

**FriendBook** – one friend's list of addresses as `store/friends.rs` keeps it: `Heard`
(`update_last_seen_and_ip`), `Merged` (`merge_ips`: reachable ones first, then the old ones,
a stable sort by family, the cut), and what `net/socket.rs` says of an address
(`NormalizeRecv`, `Reachable`, `IsPublicV4`). An address is an IP and a port; an IPv4 sender
seen by a dual-stack socket has its `mapped` form, as `recv_from` gives it.
`filter_reachable` is a set of refused addresses: the code compares the first segment with
`fe80`, `fc00` and `fd00` exactly, where its comments name the ranges `fe80::/10` and
`fc00::/7`.

**Wire** – what a packet weighs: the lists of addresses entry by entry, with the widths of
their count and lengths, everything else as lengths. `Decodes` is what is left of a packet in a
receive buffer of 4096 bytes.

**AddressPath** – how one user's addresses come into two friends' lists: by `SetPublic` and
`MoveTo` (configuration and network of the owner), announcements, pings and texts (whose
source is recorded), links and invitations, and from one friend to the other by answers and
pushes. `HandlePacket` is `handle_packet` with `note_friend_seen` and the address handlers.
When packets are sent and repeated is left to AddressAnnounce and AddressQuery, so any packet
may be sent at any time.

**DataDir** – `friends.toml`, `identity.key` and `.lock`, runs of the chat program (`StartClient`
with `check_overlap`, `Acquire`, `OpenStore`, `Serve`, `Save`/`SaveEnds`, `Quit`, `Kill`) and
short processes (`FriendAdd`, `HandleLink` with `Forward`, `NobodyListens`, `ServeAdd`,
`GiveUp`, `Restore`, `Import`). Each write is two steps, and any process may be killed between
any two. A save may fail before it truncates the file (`SaveFails`) or after (`SaveBreaks`):
the change stays in memory, the error is discarded (an address, `friends.rs:112`, `138`), shown
(a scanned invitation) or answered (`err: ..` to a link, `ipc.rs:132`, after which the same link
is answered `already`).

`told` is the friends the user was told of: by `ok`, `already`, or the end of a command. An empty
answer read as `ok` was given by nobody and does not count (`ipc.rs:203`). `Loses` marks the
steps that drop a friend and against which the code has no protection: a write from a copy that
another process has overwritten (`stale`), a kill or the failure of a short process while it
writes, the end of a program whose last save failed or whose copy is stale, the restore of a
backup. Each of them takes from `told` only what it really drops: what is on disk, in a running
program's list or in a list being written (`Held`) stays. Nothing is excused afterwards:
`FriendsKept` says in every state that `told` lies within `Held`, so no other step loses one.
`SelfIsNoFriend` has one way out, and names it: `raced`, a run whose file was written between
`check_overlap` (`main.rs:331`) and the open (`355`), where the code has no second check.

`MC*.tla` give TLC its model values and symmetry sets.

## 3. What the runs check

| run | instance | question and answer |
|---|---|---|
| `delivery` | 1 friend, 2 messages and an attachment chunk, 2 retransmissions, window of 1, fair retry pass | nothing lost track of (`NothingForgotten`), true check marks (`AckedImpliesShown`), only copies taken for copies (`SeenImpliesShown`), repeats only when the window slid past more than it holds, texts and chunks together (`DuplicateNeedsOverflow`), Delivery is a ReliableMessage; each message gets a verdict, and on a fair link a failed one is acknowledged in the end with no help from the user |
| `delivery_restart` (violation) | 1 friend, this node restarted once | the numbers start at 0 again while the friend remembers them: a new message is acknowledged and never shown |
| `attach_safety` | two transfers to one friend, of 2 chunks and of 1 that is too large, 1 retransmission, window of 2 that a text passes through as well | the maps agree, one verdict, no second delivery unless the window slid; within one run of the sender a delivered verdict is true, but for what is oversize or half lost in a restart of the friend (`AckedImpliesReceived`) |
| `attach_batch` (violation) | one transfer of 2 chunks | both run out of retries in one pass: the second becomes a failed text and is sent again |
| `attach_delivered` (violation) | two transfers, this node restarts | numbers start again: an attachment is reported as delivered and was never received |
| `chat` | 2 friends, one added by a link, 2 messages, 1 command and 2 events in the queues | `UiCatchesUp`: handling the events in the queue would make the list equal to the task's view; check marks are true end to end and are never taken back (`CheckMarkStays`); every message the task was given shows its verdict |
| `chat_stuck` (violation) | 2 friends, one added by a link, 2 messages | `SentGetsVerdict`: the task has ended, and a message stays "sending" for ever; or its friend was added by a link, and writing to it panics |
| `address_query` | 2 helpers, 2 queries, 1 message, 1 repetition | exactly one result per query unless a stray answer took it out, "not found" only when true or late, at most `MaxRetries + 1` copies and none after the answer, failed messages leave with the result |
| `announce` | 3 addresses, 2 of them IPv6, the program starting with the second, a record of 2, 1 relay, 1 retry, 1 repetition of a push, restarts | confirmed is recorded or the record is full, the newest announcement is tracked while nothing is confirmed, relays are asked only about unconfirmed announcements; a friend that can reach the announcer confirms in the end |
| `announce_pending` (violation) | 3 versions, 2 relays | the acknowledgement of an older announcement removes the probe of the newest |
| `data_dir` | 2 runs of the program, 1 short process at a time, the account and 2 friends (1.1 million states) | one run at a time, no lock left but by a kill, the list in memory is the file after every save that did not fail, no friend lost but by the steps of `Loses`, the user's own key a friend only through the gap between check and open |
| `address_path` | 2 friends, lists of 2, 1 packet at a time, private, public, NAT and link-local addresses (0.8 million states) | no address twice or mapped, none lost while there is room, none unroutable but typed or scanned, none of another; no packet larger than its receiver's buffer |

**Bounds.** Queues, windows and retry counts are reduced to the smallest value at which the
case exists: a window of one already slides, a queue of one command already drops, one
retry already distinguishes "retried" from "given up" (the text run has two, so that a
retransmission follows a retransmission, where the code has three), a
list of two addresses is already cut, already sorted and already full. One friend is enough for
text delivery, every map being keyed by friend (the proofs cover any number); one chunk already
makes a window of one slide; two messages,
because the handlers treat one at a time, and two are enough for one to overtake, evict or
revive beside the other. In the runs about messages and announcements packets are sets that
receiving does not empty, so repetition and delay need no bound.
In `address_path` a packet is consumed and there is one at a time (`MaxWire`): what a
handler does to a list depends on the list and the packet only, the owner may come back to a
network and send the same again, and a repeated answer finds the addresses it brought. Its two
networks are one with both families and one with a link-local address only; the owner's IPs are
a private and a public IPv4, a global and a link-local IPv6; the lengths of texts, chunks and
names are the greatest of the code and one beyond (`Texts`, `Chunks`, `Names`), and an address
takes 47 bytes as text, the most there is.
In `data_dir` two runs can contend for the lock or follow each other; one short process at a
time already collides with a run, and with itself of a moment ago; three keys are an account
and two friends, or two accounts and a friend. Two bounds are of this run
only, not of the module: the account changes once (`OneChange`), and after it the lists hold two
friends together (`FewFriends`), enough for one to be lost beside the other; without a change,
where `SelfIsNoFriend` speaks, nothing is bounded.
The owner shares no address with a friend (`FriendIp`): behind one NAT with them it would, and
`OwnersOnly` could not tell the two apart.
`MaxMessages`, `MaxSeq`, `MaxVersion`, `MaxEvents` and `MaxRun` are bounds of the model, not of
the code (`u32`, unbounded queue).

**Deadlock** is checked except in the chat runs, where a panic ends the process.

**Fairness.**
* `PollFairness` (Delivery): a packet in the retransmitter is polled; `next_wakeup` computes
  the loop's sleep from its deadline. Weak.
* `LinkFairness` (Delivery) is an assumption on the environment, stated inside the property
  `EventuallyAcked`: a friend that is heard from again and again over a link that does not
  lose every copy. Strong for the two packets, because loss may disable them in between.
* AddressAnnounce: weak for the loop (the retry or the end of a probe), strong for the newest
  announcement's two packets and for the friend's own packets; `EventuallyConfirmed` excuses an
  announcer whose friend knows none of its live addresses, and one that has stopped tracking
  the announcement (the defect of `announce_pending`).
* ChatApp: a frame is drawn (weak); the network task takes commands and gives verdicts
  (strong only because the bound `MaxEvents` disables them at times, which the program's
  unbounded queue does not).

Every property of a passing run has a mutant in `PROJECT.json`: a change of one mapped
definition, like a bug a change of that code could bring, under which TLC finds the property
violated. The mutated forms stand beside their definitions in the modules.

## 4. What is proved

TLAPS checks the following for every value of the constants: any friends, numbers, retries,
window length, transfers and chunks, helpers and queries; any number of address changes and
relays; any runs, processes and keys; any queues, events in one frame and lengths of texts; any
lists of addresses. Every invariant and action property of every passing run is among it, and
so is the refinement. As a rule an invariant is not inductive; each module of proofs defines
the `IInv` that is, with one lemma per handler and one step per conjunct the handler disturbs.

* `ListLemmas`: what a loop along a list computes needs an induction, and the theorems of
  induction in the library take a predicate, which the provers cannot instantiate. The way round
  it: a set of naturals has a least element (`LeastNatural`, from `WFMin`), so a set that holds 0
  and with each index the next holds every index (`IndexInduction`); the set of the indexes at
  which a claim holds is such a set. `RecursionExists` is the other half: a function that
  satisfies the equations of a loop exists, so that the `CHOOSE` behind a recursive function is
  one. From these, `OnlyFacts` (what `Only` keeps, in which order, without repetition),
  `DistinctSize` and the rest.
  `mark_seen` keeps a window well formed (deque and set agree, no
  repetition, at most `MaxSeen`), adds only what it marks, forgets only when it is full, and a
  full window and one number more are more than `MaxSeen` numbers.
* `DeliveryProofs`: `TypeCorrect`; `InductiveInvariant`; from it `NoMessageForgotten`,
  `AckedIsShown`, `DuplicatesWereShown` and `WindowStaysBounded`.
  `IInv` adds: numbers not yet given out have left no trace (`FreshNumbers`), only accepted
  messages are on the wire (`WireAccepted`), a number in a friend's window is of a message it
  has shown (`WindowShown`), an acknowledgement on the wire likewise (`AcksShown`), refused
  messages are failed ones, and each window is well formed.
  A number in the window may also be of a chunk the friend has taken (`WindowChunks`), and the
  two kinds do not meet. `RepeatsNeedOverflow` needs one more, `Remembered`: what a friend has
  shown or taken in its present run is in its window, or the window has been full since; a message shown again is then one
  number more than a full window.
  `Refinement`: Delivery implements ReliableMessage. A handler of Delivery is one step of ReliableMessage (send: `Submit`; retry pass: `GiveUp` of the set of
  packets that ran out together; acknowledgement: `Confirm`, whose guard "has arrived" is
  `AcksShown`; receipt: `Arrive`) or a stutter.
* `AttachTransferProofs`: `TypeCorrect`, `MapsAgree`, `SingleVerdict`, `AckedIsReceived` from
  `InductiveInvariant`, and `RepeatsNeedOverflow`. The key is `UnderWay`: while a transfer has
  no verdict, none of its chunks is among the failed packets, because the first chunk to fail
  ends it. So a revived packet, or an acknowledgement of a chunk that is no longer registered,
  never touches a transfer under way, although chunks of ended transfers come back
  (`attach_batch`). Numbers and chunks are tied by `Numbering`
  (each chunk of a run has a number of its own, above those of texts), `OnlySent`, `AcksSent` and
  `TakenNumbers`; the first is what a restart of the sender breaks, and these proofs are of
  `Spec`, without one. `HoldsAcked` links the sides: the friend holds what it has acknowledged and
  that is not the whole until it has handed it over; `AllIndexes` that `total_chunks` indexes
  are all of them. For `RepeatsNeedOverflow`, `Remembered` as in Delivery, the window holding
  chunks and texts.
* `ChatAppProofs`: `ScreenCatchesUp`, `CheckMarkIsTrue`, `CheckMarkIsKept`, `TypeCorrect`.
  `UiCatchesUp` is kept by a step because of `HandledAppend` (an event put into the queue changes
  what the screen catches up with by that event) and `HandledSplit` (a frame takes the first
  events off, and the rest goes on from where it stopped). It needs `FreshNumbers` (a number the
  user is about to get is of no line), `CommandsPosted` (a command is for a line that exists) and
  `EventsTrue`. A check mark stays because of `AckedLast` and `CheckedDone`: once a message is
  acknowledged no event of it comes any more, neither after that event in the queue nor after the
  check mark. That is where ReliableMessage is needed, in which "acked" is final; the argument
  fails for a task that could fail a message after its acknowledgement.
* `AddressPathProofs`: `BooksAreSound`, `OnlyTheOwners`, `DatagramsFit`, `TypeCorrect`, and the
  action properties `NothingLostWithRoom` and `NothingUnroutable`. First what the operations on
  a list do, whatever the list: `AppendedFacts`, `SortedFacts`, `CutFacts` give `HeardFacts` and
  `MergedFacts`, which share one conclusion, `Kept`: no repetition, nothing but what was there
  or what came and is reachable, and nothing lost unless full. Then the wire: `RoundTrip`, a
  list of at most eight addresses comes out of a packet as it went in, for its count and its
  lengths fit their bytes, and `ListingFacts`, `OthersFit`, the lengths of all packets. The
  invariant: the owner's settings are not the friend's address (`OwnersMachine`), lists hold the
  owner's addresses (`ListsSound`), and so does every packet on the wire, whose source is the
  owner's, too, if it comes from the owner (`PacketsSound`). Neither half is inductive alone,
  since lists become packets and packets lists.
* `AddressQueryProofs`: `ExactlyOneResult`, `NotFoundIsHonest`, `TypeCorrect`, and the action
  properties `QuestionsAreSparing` and `FoundMeansResent`. The strengthening: only what was
  asked is answered (`AskedFirst`), who is counted has answered, and without an address while
  the query goes on (`AnswersCounted`), one copy at most with each attempt (`CopiesPerAttempt`).
* `AddressAnnounceProofs`: `TypeCorrect`; `InductiveInvariant`; from it `ConfirmedWasTold`,
  `NewestIsTracked` and the action property `GossipIsHonest`. The strengthening: nothing on
  the wire or confirmed is newer than the last sample (so a new announcement is unconfirmed),
  a probe is of the newest announcement, and an acknowledgement is of something recorded, or the
  record is full (`ListedOrFull`). The record is a list without repetitions, so nothing that
  `Heard` or `Merged` do makes a full one shorter or drops an address while there is room.
* `DataDirProofs`: all six properties of the run. `LockInv`: whoever has the lock finds the
  lock file there, and there is one such. `KeptInv`: beside `FriendsKept` and
  `StoreOnDisk`, who writes from an up-to-date copy finds the file as it truncated it
  (`FileIsEmpty`), an up-to-date copy of a short process is what is on disk (`ReadIsOnDisk`), and
  a friend being added is in what is being written (`AddedIsWritten`); so a step that is not one
  of `Loses` leaves all that was held (`LosesKeeps` and the lemmas after it). `SelfInv`: as
  long as the account is the one the directory started with, a run that has passed its check and
  whose file nobody has written since finds the account absent from it, a link on its way is not
  for it, and what a run has in memory holds it only if the run was raced.

The assumptions are those of the modules (`DeliveryAssumption`, `AttachAssumption`, ...): bounds
are natural numbers, a window has room for one number at least, a transfer has one chunk at
least, there is a helper to ask, a list has eight places at most (`MAX_IPS`, and
`DatagramsFit` rests on it), an address is written in 47 bytes at most, an
attachment chunk is not longer than the code cuts it. TLC evaluates them in every run. The proofs about Delivery are
of `Spec`, in which friends restart and this node does not: `delivery_restart` shows why.

Only model-checked: liveness (`VerdictReached`, `EventuallyAcked`, `VerdictShown`,
`EventuallyConfirmed`), since TLAPS does not reason about fairness; and the five expected
violations, which are behaviours TLC shows. ChatApp is proved with ReliableMessage in the place
of the network task, and `Refinement` is proved of Delivery: that the two fit together, `Keys`
for messages and events for verdicts, is a matter of reading (`Net` in ChatApp).

## 5. Disagreements found

Each is a violation run and an entry under `findings` of `PROJECT.json`, with the sentence of
the documentation or comment it contradicts.

1. After a restart numbers start at 0 while friends remember them: the first messages are
   acknowledged, shown as delivered, and dropped (`delivery_restart`).
2. Chunks of one transfer that fail in one pass: all but the first escape `cancel_transfer`
   (`attach_batch`).
3. A message whose command did not fit in the queue, or was not taken out of it before the
   network task ended, shows "sending" for ever (`chat_stuck`).
4. Writing to a friend added by a link while the program runs panics, in the same run: without
   `NetEnds` its property still fails, by `AddByLink`, a frame and `SendPanics`.
5. Numbers of chunks start again with the process, too: an acknowledgement of the last process,
   or a friend that takes new chunks for repetitions, makes an attachment delivered that was
   not received (`attach_delivered`).
6. Without a restart of the sender the same property fails in two more ways: an attachment above
   256 MiB, which the sender does not refuse, is acknowledged chunk by chunk and dropped, and a
   friend that restarts loses the chunks it has acknowledged. `AckedImpliesReceived` shows that
   these are all.
7. An acknowledgement of an older announcement ends the tracking of the newest
   (`announce_pending`).

## 6. Not modelled, and the plan

* Cryptography: a packet is who it is from, for whom and what the handler branches on; a forged
  packet does not exist in the models, and one that does not decrypt is dropped. Wire has
  lengths, not contents: that each field comes back as it was encoded is left to the unit tests.
* Sockets: binding, the choice of ports and the parsing of address strings.
* Stable-address mode of announcements: AddressAnnounce without `Announce` after the start (what
  is announced is in AddressPath). `detect_local_ip_change` watches IPv6 only; AddressAnnounce
  numbers the changes it sees.
* An answer about somebody else (`HandleStrayAnswer`) is sent by no handler of this program; it
  is in AddressQuery because `handle_addr_answer` has a branch for it, which ends the query
  without a result, where its comment names an answer with an address and the answers of all
  friends as the only ends (`mod.rs:720`).
* Lost updates of `friends.toml`: the steps `Loses` names are those of a program that has no
  protection between processes, and no document promises one.
* Real time: intervals become nondeterminism, except where an order follows from them
  (`PruneRecv` above).
* Debug mode, which takes no lock and serves no link so that several local instances can share
  a machine.
* `config.toml` as a file: `load_config` writes back what it has read and replaces what does not
  parse by the defaults. Its fields are settings independent of one another; only `public_ipv4`
  matters to the models.
* Export, and the import of configuration and log: files nothing else in the models reads.
  `Import` writes `identity.key` in two steps; the same write in a running program (`SetSeed`)
  is one step.
* Terminal and graphical front ends, dialogs, settings, the syntax of links and arguments: what
  a key, a click or a link does is an action of ChatApp or DataDir. Adding a friend by scanning
  an invitation makes no conversation either (`add_friend_from_link`), which is `AddByLink`.
* An invitation shown on a host with two addresses is no address: `App.invite_link` puts the text
  of `detect_local_ip` into it (`tui/app.rs:302`), which is then more than one address or a
  message; `ScanInvite` exists only when there is exactly one. `README.md:77` promises a link
  to scan.

What the models could say next:

1. Two targets in AddressQuery at once, and the automatic queries of ChatApp wired to it: the
   loop of failing, asking and failing again while a friend is away, and its rate.
2. ChatApp with contents, for Ctrl+R on a failed attachment, which sends its empty text.
3. `config.toml` in DataDir, and the log.
4. AddressPath with the announcer's retries of AddressAnnounce instead of any packet at any time.
