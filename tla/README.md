# Specifications of the in-kernel QUIC implementation

TLA+ models of the Linux kernel QUIC module in `src/modules/net/quic` and of the part of
`src/libquic` that drives its handshake, the TLC runs that check them on small instances, and
TLAPS proofs about them. `PROJECT.json` lists the components, the runs, the source lines behind
every definition, the hazards each property is aimed at, and the theorems.

## The system and its parts

A QUIC connection is one socket. Everything that changes its state runs under the socket lock:
system calls (`socket.c`), packets from the UDP tunnel (`packet.c`), timers (`timer.c`) and,
when the lock is owned by a system call, the work they leave for `quic_release_cb`. The
concurrency that matters is therefore between the two endpoints and the network, which loses,
repeats and reorders packets; between threads that sleep with the lock released; and between
`accept()` and the packets that arrive for the listener meanwhile.

| Part | Source | Model |
| --- | --- | --- |
| Packet number space: numbers received, ACK ranges | `pnspace.c` | `PnSpace`, `PnSpace_proofs` |
| Flow control: stream and connection limits | `inqueue.c`, `outqueue.c`, `frame.c` | `FlowControl`, `FlowControl_proofs` |
| Stream table: opening, limits, release | `stream.c`, `frame.c`, `packet.c` | `StreamTable`, `StreamTable_proofs` |
| In-queue: reassembly, memory, recvmsg | `inqueue.c`, `socket.c` | `InQueue`, `ByteStreams` |
| Out-queue: sending, ACKs, loss, PTO | `outqueue.c`, `packet.c` | `OutQueue` |
| Connection IDs | `connid.c` | `ConnId` |
| Paths: validation, migration, NAT rebinding | `path.c`, `frame.c`, `packet.c`, `timer.c` | `Migration` |
| Path MTU discovery | `path.c`, `outqueue.c`, `packet.c` | `PathMtu`, `PathMtu_proofs` |
| Key phases and key update | `crypto.c`, `packet.c` | `KeyUpdate`, `KeyUpdate_proofs` |
| Connection set-up: listener, accept, Retry, levels, amplification limit | `packet.c`, `socket.c`, `outqueue.c`, `libquic/handshake.c` | `Handshake`, `Handshake_proofs`, `HandshakeSession_proofs` |
| Congestion control, RTT | `cong.c` | not modelled |
| Address families, registration, varints, hash tables | `family.c`, `protocol.c`, `common.c` | not modelled |

## Modules

**PnSpace** — the receive half of one packet number space. State: `base_pn`, `min_pn_seen`,
`max_pn_seen`, `last_max_pn_seen`, `pn_map` (the set of set bits) and `pn_map_len`, as in `struct
quic_pnspace`. `Receive` is a packet that passes `quic_pnspace_check` and is marked (`MarkFirst`,
`MarkNext`: grow, record, advance); `ReceiveUnmarked` one whose frames were applied but whose
number could not be recorded, which changes nothing here; `Discard` a duplicate or a number
outside the window. `gabs` and `AckFrame` are `quic_pnspace_num_gabs` and
`quic_frame_ack_create`; `AckedRanges` and `AckAccepted` read the frame back as
`quic_frame_ack_process` does. Whether `max_time_limit` elapsed is a free choice of each step.

**FlowControl** — one direction of a connection: `outq` and `send[s]` are the sender's limits,
`inq` and `recv[s]` the receiver's, `net` the frames between them. Actions: `Send`, `Block`
(`quic_outq_flow_control` for a thread that has to wait), `Read` (with `quic_inq_flow_control`),
reset and stop, memory pressure, and one `Deliver...` per frame handler. This code never sends a
DATA_BLOCKED or STREAM_DATA_BLOCKED frame: `quic.man:277` documents `MSG_QUIC_STREAM_SNDBLOCK`,
the flag that asks for them, but `quic_msghdr_parse` and `quic_sock_stream_open` refuse it. A
blocked level is only marked (`data_blocked`), and with no frame to be acknowledged the mark
stays. The handlers serve other implementations, whose frames `Announce` stands for.

**StreamTable** — both ends' tables for the streams the client initiates, unidirectional or
bidirectional (`uni`, chosen initially). `Open` and `Block` are a thread in
`quic_sock_send_stream` and `quic_wait_for_stream`; `Finish`, `Reset` and `Read` the
applications; `DeliverEnd` a STREAM frame with FIN or a RESET_STREAM frame; `DeliverEndAck` its
acknowledgement, `DeliverMaxStreams` a MAX_STREAMS frame. `DeliverUncreated` is a frame for a
stream that cannot be allocated: `quic_stream_get` reports it like a closed stream, so the frame is
skipped and acknowledged (`frame.c:972`). `Put` is `quic_stream_put` and `Done` the end of every
packet at the server, where the limit is recomputed and sent. STREAMS_BLOCKED frames, asked for by
the same refused flag, are never sent.

**InQueue** — reassembly. `stream_list` and `recv_list` are the code's lists, `rmem` is
`sk_rmem_alloc`. `Discard`, `Buffer` and `Continue` are the three outcomes of
`quic_inq_stream_recv` (with the merge loop as a fold), `Read` is `quic_recvmsg`, `Reset` and
`StopSending` purge. **ByteStreams** is what the reader is promised; `OrderedDelivery` says that
`InQueue` implements it under the refinement mapping in `Reader`.

**OutQueue** — the sender of an established connection with frames left at the Handshake level.
`sk` holds the four lists, the records of sent packets (`packet_sent`), `inflight` for the
connection and for each space, `stream_list_len`, `wmem` and the timers. `Queue` is a system call
or handler that makes a frame: the tail functions (`Enqueue`) with the transmission they start,
unless MSG_MORE corks it. `QueueAppended` is a write whose data `quic_outq_stream_append` adds to
the last frame of `stream_list`, when that is of the same stream and was not sent: it starts no
transmission and leaves `force_delay` alone. `Ack(l)`, `HandshakeDone` and `Receive` packets from
the peer; `LossTime` and `Probe` the two halves of `quic_outq_transmit_pto`; `Pace` and
`MtuChange` the other causes of transmission. `transmit` computes in closed form what the loops
pack: frames have length one, a packet holds `mss` of them. Writes are small: what is appended
fits into the frame, so no frame is marked `nodelay`. Times are choices: which packets are
older than `loss_delay` (`old`), whether pacing holds data back (`hold`). PING and ACK-only
packets leave no record in the code, and none in the model: an ACK frame may report one of their
numbers as the largest (`largest` is false).

**ConnId** — the operations of `connid.c` on one set of connection IDs: the numbers listed, the
one in use (`active`), the one set aside for a new path (`alt`) and the eight-bit `count` from
which the code computes the last number. **Migration** extends it with two endpoints: `ep[e]`
holds both ID sets, the two paths, `alt_state` and `alt_probes` of `struct quic_path_group`, and
the control list; `net[e]` the packets in flight in the order of their numbers. `Receive` is the
whole of `quic_packet_app_process`: path detection (`DetectAlt`), the frame handlers
(`NewConnIdProcess`, `RetireConnIdProcess`, `PathResponseProcess`), the swap (`AltProcess`) and
the transmission at its end. `PathTimer` is `quic_timer_path_handler`, `ConnectionMigrate` and
`SetConnectionId` socket options, `Rebind` the NAT. The entropy of a challenge is kept as its
age, since only the last one counts. `Lose` stands for a loss with the retransmission of what
the frame type has retransmitted.

**PathMtu** — `pl` is `paths->pl`; `pl_send`, `pl_recv` and `pl_toobig` are the functions of
`path.c`. The code takes an ACK of the number *expected* for the probe as an ACK of the probe;
`carrier` is the packet that really has this number, and `held` says that frames wait in front
of the probe. `PmtuTimer`, `PathConfirm`, `TooBig` and `PathChange` are the timer, the ACK, the
ICMP handler and the network or the route. `mss_update` caps what regular packets use by the
peer's `max_udp_payload_size` (`Limited`); probes are not capped, and a peer that drops those
above its limit acts like a path of that size. Sizes are net of headers. Turning PLPMTUD off leaves
the ICMP message only, which is `OutQueue`'s `MtuChange`.

**KeyUpdate** — a key is named by its generation, whose parity is the key phase. `rx[e]` are the
two receive slots of `struct quic_crypto`, and the time stamp `key_update_send_time` is named by
the generation at which it was taken. `KeyUpdate` is the socket option, `Encrypt` and
`ProcessSamePhase`/`ProcessKeyUpdate` are `quic_crypto_encrypt` and `_decrypt`; a packet that
asks for an update outside process context goes to the workqueue (`BacklogWork`).
`key_update_failed` is the error path after some of the keys were derived. Decryption of a packet
may fail at the ends of `Shaky` although its key is there (allocation, the crypto API): on a packet
of the other phase any error but EINPROGRESS clears `key_pending`. `spoiled` remembers that this
ended an update the peer had not followed. `flight` is a set of
generations: an arriving packet leaves others of its generation on their way.

**Handshake** — a client, a listener and the sockets it creates. `sk[e]` has the keys installed
(`tx`, `rx`), the control list (`queue`), the frames in flight (`sent`, `lost`), the packets
waiting for keys (`backlog`), the amplification credit and what libquic still has to do (`todo`).
`reqs` are the listener's request socks, `accepting` says how far `accept()` has got, and
`waiting` are packets that arrive for the listener while `accept()` owns it. `RecvMsg`,
`SendMsg` and `SetSecret` are libquic's loop; `Listen` and its outcomes are
`quic_packet_listen_process`; `Accept`, `AcceptSetup`, `Release` and `ListenerBacklog` the steps
of `quic_accept` and what its `release_sock` does; `Receive`, `ReceiveRetry`, `SackTimer`,
`LossTimer` and `Pto` the packet and timer handlers; a probe that could only send an owed ACK is
followed by a PING. TLS is external: `Response` and `Script`
say which messages and secrets it exchanges, as libquic sees them.

The modules share no variables, apart from `ConnId`'s operators in `Migration`. `FlowControl`
keeps the set of bytes received where `InQueue` keeps lists, and `StreamTable` keeps one frame
per direction where both keep many.

## Runs

A property that joins several facts about the same state names them in its definition: `Window`,
`AckExact`, `LimitsKept`, `CountersAgree`, `Reassembly`, `EndExact`, `Counts`, `Queued`,
`Charged`, `KeysHeld` and `SearchSound` are such conjunctions.

| Run | What it shows |
| --- | --- |
| `pn_space` | thirteen packet numbers in every order, with repetitions, through a map of at most six bits: window and bitmap, duplicate check and ACK frame are exact, and a number once refused stays refused |
| `flow_control` | limits and counters under reordering, repetition, BLOCKED frames of another implementation, abandoned streams, failed limit updates and memory pressure |
| `flow_control_live` | without memory pressure: a sender whose data was read is not blocked although limits move in steps, everything is read, no limit is exceeded |
| `stream_table` | open streams are counted exactly, the limit follows them, closed streams stay closed, no STREAM_LIMIT_ERROR; unless an allocation fails, a thread waiting to open a stream is always woken |
| `inqueue` | nothing acknowledged is lost, memory is exact, the end is recognised, the reader sees a byte stream |
| `out_queue` | frames are in one list and in a packet on record, bytes in flight and send memory are exact, the loss timer runs, queues keep their order, nothing acknowledged is sent again |
| `out_queue_live` | handshake data and three stream writes, one of them with MSG_MORE and one appended to its frame, are all acknowledged in spite of a lost packet, Nagle's rule and pacing |
| `migration` | the ends agree on connection IDs whatever order frames arrive in, the server uses validated paths only, every validation ends |
| `path_mtu` | the search keeps its bracket and always settles on the size of the path, after changes in either direction |
| `key_update` | an end has the keys its packets need, no end gets two updates ahead, and the ends always come back to the same keys; the last two except one kind of decryption error |
| `handshake` | one socket per connection, early packets are processed when their keys arrive, the path is validated by proof only, some timer runs while anything is outstanding, both ends become established |
| `key_update_again` | *violation*: the time that old keys are kept after an update is measured from the first update ever |

### What the code does not give

These configurations each check one property TLC refutes, some of them what a comment says of the
code. They run with `tlc -config <file> <module>`. The properties of the runs above do not show
these cases: `NoFlowError` is checked without memory pressure, `Completes` with one Retry ID,
`ValidatedPath` says nothing of SWAPPED, `Queued` excepts the order of frames after a failed
allocation, `AllDone` what `force_delay` holds back, `WithinOne` and `Settles` what `spoiled`
marks, and `Settles` of `PathMtu` holds although single sizes may be confirmed wrongly.

| Configuration | Module, property | What happens |
| --- | --- | --- |
| `FlowControlPressure.cfg` | `FlowControl`, `NoFlowError` | memory pressure lowers a limit that was advertised (`inqueue.c:67`), and data within the old limit closes the connection |
| `InQueueStop.cfg` | `MCInQueue`, `OrderedDelivery` | a STOP_SENDING request that fails has already discarded data of a stream that goes on (`socket.c:1625`) |
| `OutQueueCork.cfg` | `MCOutQueue`, `AllSent` | a write without MSG_MORE that follows one with it, to the same stream, is appended to the frame that waits; nothing is sent, `force_delay` stays set, and the data stays until something else is sent (`socket.c:1066`, `outqueue.c:205`) |
| `KeyUpdateError.cfg` | `KeyUpdate`, `OneApart` | an error on a packet with the old keys is taken for the peer's update (`crypto.c:615`); the next update is two ahead of the peer |
| `OutQueueOrder.cfg` | `MCOutQueue`, `QueueOrder` | a new frame whose packet cannot be allocated is put back ahead of older ones (`outqueue.c:912`; the comment at 889 says where frames belong) |
| `MigrationSwapped.cfg` | `Migration`, `SwappedEnds` | both ends can stay in SWAPPED, whose end `path.h:22` and `packet.c:1681` tie to a packet that never comes on that path |
| `PathMtuConfirm.cfg` | `PathMtu`, `Confirmed` | a size is taken as confirmed (`path.h:83`) although the packet acknowledged under the number at `outqueue.c:555` was another one; the search recovers |
| `HandshakeRetry.cfg` | `Handshake`, `DestinationFollows` | a second Retry makes the client leave the socket it negotiates with (`packet.c:1113`, against the comment at 1507) |

### Bounds

`PnSpace`: a map of 1 to 6 bits that grows by words of two bits and advances after four numbers
lets the map grow, fill, move over gaps and drop numbers within thirteen packets; two gap slots
are enough to overflow them. `FlowControl`: totals of two bytes against windows of one and two
block each level separately and together; in the live run five bytes against windows of three and
five, with an `mss` of two, make limits move every second byte only; `MaxInFlight` bounds the
frames in the air for the applications only, never for replies. `StreamTable`: two streams under
a limit of one make the second depend on the release of the first; repeated frames are limited to
stream 0 towards the server, whose table is the one that grants credit. A limit of one leaves
streams opened out of order to the proofs. `InQueue`: three bytes of one stream have every kind
of overlap of two frames. `OutQueue`: three to five frames, two to a packet, and a window of
three let a packet be full, be shared by new and old frames, and be held back by the window and
by Nagle's rule; in the live run the last write is to another stream and without MSG_MORE, so
that `force_delay` does not stay set; `MaxFaults` is one lost packet, early probe, MTU change or
failed allocation. `Migration`: two IDs on each side, the least QUIC allows; initially they are
fresh or the last ID is in use; one application call and one fault. `PathMtu`: a range of 18
sizes with steps of 8 and 2 has the search overshoot, turn round and finish at the maximum, and a
peer's limit of 25 lies below it; two path changes and one fault. `KeyUpdate`: three generations
have a parity repeat; errors happen at the client only; `MaxLate` is discussed under the proofs.
`Handshake`: credit for two datagrams makes the server's first flight of three wait; one Retry ID
and one fault. `MaxCredit` saturates the counter above what the handshake needs.

### Fairness

`FlowControl` and `StreamTable`: the out-queue retransmits a frame until it is acknowledged, so
delivery of a frame on its way is weakly fair; applications are assumed to read what arrives and
to finish what they open; a thread that was woken runs. `OutQueue`: packets that are not lost are
acknowledged, the server's HANDSHAKE_DONE frame arrives in the end, timers fire; weak fairness of
all these together is enough. `Migration`: the oldest packet in flight is received or dropped in
the end, applications have something to send, the path timer runs. `PathMtu`: the pmtu timer
always runs, what arrives is acknowledged, the window opens in the end. `KeyUpdate`: both ends
keep sending; a packet of the peer's current keys that is sent again and again arrives and is
decrypted (strong fairness, since losses disable its arrival); the workqueue runs and time
passes. `Handshake`: weak fairness of threads, deliveries, and the sack and loss timers together,
and strong fairness of each side's probe timer, because `Quiet`, which stands for the time the
probe timer takes, comes and goes with the other side's packets. The live runs exclude memory
pressure and, except for `StreamTable`, `OutQueue` and `KeyUpdate`, whose properties except their
effect, allocation failures.

`AllDone` of `OutQueue` does not promise what the code does not give. After an allocation failure
with nothing in flight no timer runs, and queued frames wait for the next event. Stream data held
back by `force_delay` waits likewise (`OutQueueCork.cfg`). A lost DATAGRAM
packet is found lost only when a later packet *with a record* is acknowledged as the largest; the
PING packets of probes have none. While such packets fill the window, a small write is held back
by Nagle's rule in the probe's packet and by the window next to its PING frame, and stays unsent
until more is written. The run leaves room in the window, where the write goes out with the PING.

## Proofs

**PnSpace_proofs**, for every map size, limit, growth step and set of packet numbers:
`WindowCorrect` (edges ordered and received, everything between `min_pn_seen` and the base
received, bits exactly the numbers received), `CheckCorrect` (`quic_pnspace_check` is exact) and
`ReplayProtection`. The assumptions are `MapAssumption` (the initial map is not empty and not
larger than the largest) and that packet numbers are naturals. `ReplayProtection` is the action
property `RefusedForGood`: what `quic_pnspace_check` refuses as a duplicate, or as older than
`min_pn_seen`, it refuses ever after. The inductive invariant `IInv` joins type correctness, the
ordering of the edges, the received prefix, the exact bitmap and `Unstarted` (what holds before
the first packet). None of them is inductive alone: that the shift keeps the bitmap exact needs
the offset to lie inside the map (ordering), that the base jumps only over received numbers, or
moves `min_pn_seen` past the missing ones, needs the exact bitmap, and that a set bit is not
forgotten needs the exact bitmap before and after the step. `MoveExact` is the central lemma:
moving the base to the next clear bit keeps the bitmap exact and skips only received numbers.

`AckCorrect` is about the ACK frame: it passes the peer's parser, names only received packets,
always the largest, and all of them from `min_pn_seen` on unless the gap slots ran out. `gabs`
finds the gaps by a recursion from bit to bit. `RoundsExist` and `FoundExists` show, by the least
counterexample, that the recursion is defined up to every bound, and `Found` names its equation.
`ChainGrows` and `ChainOrdered` turn it into the fact that matters: the gaps are disjoint,
ordered, separated by a received number, and cover every missing number below the last of them.
`RangesRead` then follows the parser: the ranges read back from the frame are the stretches
between the gaps, so `RangeReceived` and `ReceivedInRange` are the two directions of exactness.

**FlowControl_proofs**, for any streams, windows and frame sizes: `LimitsCorrect`. The bound on
unread data is not inductive: data is accepted up to `max_bytes`, so `IInv` adds that what the
receiver offers is within the window counted from what was read (`Offered`), which lowering the
limit under memory pressure keeps. That reading moves a limit by a natural number needs the set
of received bytes to be finite.

Its second half compares the two levels of flow control, for any finite set of streams.
`CountersExact` is `CountersAgree`. `Ledger` states the counters of the connection as sums of
those of the streams, and adds that the receiver has seen, and the network holds, nothing beyond
what the sender counted. `NoErrorWithoutPressure` is `NoFlowError` when the receiver is never
under memory pressure; with pressure it is false (`FlowControlPressure.cfg`). `Covered` says that
no limit the sender has, or a frame on its way brings, exceeds the receiver's own. That a frame
within the sender's connection limit is within the receiver's (`WithinWindow`) compares the sum
of what was sent with the sum of what was received, stream by stream. It starts with the
facts about sums: what one summand changes, that smaller summands give a smaller sum, and that
the folds of `CountersAgree` are sums. `SubsetInduction`, from the well-foundedness of strict
inclusion of finite sets, takes the place of the induction theorems with an operator parameter.

`SenderNotStarved` is `CreditReturns`, for windows of at least two bytes and at least `mss`, if the
updates can be allocated (`WideWindows`), memory pressure included. `Credit` says at each level
that the receiver's limit is ahead of what was read, and that the sender has it or a frame brings
it. `NotDueAhead` is the arithmetic: an update that is not due leaves less than
max(mss, window >> 4) unoffered, which is not the whole window. `quic_param_check_and_copy` accepts
windows below the packet size; for these the theorem does not hold, and a sender can wait for ever.

**StreamTable_proofs**, for any number of streams, window, size of an opening call and repetition
of frames: `ClientNeverLimited`, which is `NoLimitError`. The invariant says that the server's
grant never exceeds what it would grant now (`GrantStands`): opening moves `next` and `streams`
together and a release only lowers `streams`, so `quic_stream_max_streams_update` never takes a
limit back. The rest of it says that a stream exists, in a table or a frame, only if the client
opened it, and that every MAX_STREAMS frame on its way is within the grant.

Its second half is what takes cardinalities. `CountsKept` is `Counts`: the counts of
open streams are exact at both ends, the limit is the window plus what was released, and no more
than the window is open at a time. `TableInv` relates each count to the set of streams in the
table, `LimitInv` says that nothing is owed between two packets and that the server's limit is
what it would grant now; the second needs the first, since the limit is computed from the count.
`ClosedForGood` is the action property `ClosedStays`, from the same invariant: a step that puts a
stream into the table moves `next` past it, so a number below `next` is not created again.

**PathMtu_proofs**, for all sizes, steps and paths: `SearchCorrect`. `PlSound` strengthens the
bracket by where a search starts: BASE and ERROR wait for a probe of the base size, so that one
big step up stays in range. The only assumption beyond the order of the constants is that a big
step from the base size does not pass the maximum (1200 + 32 against 9000 in `path.c`); the peer's
limit may be any natural number.
`Assigned` and `Fields` say what the record assignments do; `FailedGood`, `SendGood`, `RecvGood`
and `TooBigGood` are one lemma per function. `SearchTypes` is the type invariant alone.

**KeyUpdate_proofs**, for any number of generations, ends that ask, backlog, failed derivations and
decryption errors: `KeysStayHeld` is `KeysHeld`, which is inductive as it stands, for every
`MaxLate`; `UpdateHolds`, `FailureHolds` and `ProcessHolds` follow the two key slots through an
update, a failed derivation and a packet. `KeysWithinOne` is `WithinOne` if `MaxLate <= 1`, that is
if no packet, on its way or in the backlog, is overtaken by two updates of its sender. The
hypothesis is needed: with `MaxLate = 2` and four generations TLC has a behaviour where a packet
two generations late, whose phase is that of the next, starts an update. `WithinOne` alone is not
inductive. `AheadWaits` says that an end ahead of its peer has an update pending, which refuses
another, unless the error that `spoiled` marks has happened; that nothing else clears `key_pending`
too early needs to know which keys are installed (`KeysHeld`) and which generations can still
arrive (`Sent`). `SamePhaseNear` is the central lemma: without an error, a packet that ends the
update of an end shows that the peer has followed.

**Handshake_proofs**, for any Retry IDs, credit, backlog and losses: `OneSocketOnly` (`OneSocket`)
and `BacklogDrained` (`NothingStranded`). Neither is inductive. That a request is never made for
an ID that has a socket depends on which packets can reach the listener: `NetInv` and
`WaitingInv` say that a packet addressed to an ID a socket chose finds that socket, and that only
packets for an ID the client chose, or was given by a Retry, wait for the listener; `RequestInv`
that every ID has one request at most, and none once it has a socket; `SockInv` that the
client follows only the ID of a socket that exists. `RetryAssumption` says that the names given
to Retry IDs are not those of the client or of no socket. That the backlog is empty at every
level whose key is installed (`SockGood`) has to survive the packets processed from it: `Same`
says what `transmit`, `transmit_single` and loss marking leave alone, one lemma for each, and
`ProcessAllRounds` shows by the least counterexample that the recursion over a backlog of any
length is what it seems.

**HandshakeSession_proofs** has what the ends know of each other: `ServerBelievesClient`, which is
`ProvenByClient`, and `TypeCorrect`, which is `TypeOK` and includes that the server's credit is
never overdrawn and that no frame is tracked twice. `ProvenByClient` compares two sockets that
only messages connect, so `SessionInv` follows the client's proof along the way: from TLS at the
client (`ClientTodo`: Finished comes after both 1-RTT keys, and these after the ServerHello) to
what it keeps queued or in flight (`ClientCore`), to every packet in the network, in a socket's
backlog, in a request's backlog or waiting for the listener (`Shown`), to the keys and frames
that the server has (`ServerCore`, `ServerTodo`). `Later` says that the client takes nothing
back, which is why a packet that was `Shown` when sent still is when it arrives. `Tracks` is the
part about the lists: `WithoutRow` and `PackedKept` show that packing moves frames and never
doubles one, `AllowedBound` that no more packets are packed than the credit pays for.
`BoundsAssumption` gives the bounds of the model their types.

Only model-checked: all liveness; the properties of `InQueue`, `OutQueue` and `Migration`; and
`NeverForgotten` of `Handshake`, which holds because of how the probe timer, the blocked mark and
the steps left to libquic take turns, and needs an invariant about each.
`InQueue` and `OutQueue` build their lists with folds over lists of frames, whose result for
lists of every length takes an induction over data.
`Migration` depends on connection IDs being consecutive in an eight-bit counter that does not
wrap within the bounds of the run, and on a fold over a set whose order is not fixed.

## Not modelled

- Byte formats (varints, headers, transport parameters), ciphers, IP routing, `/proc` and
  `sysctl`, option parsing, events, datagrams on receive, 0-RTT, version negotiation, stateless
  reset, the idle timer, closing a connection, asynchronous crypto, GSO, ECN.
- Congestion control: the window is a constant of `OutQueue`. Its arithmetic works on
  microseconds and bytes far beyond TLC's bounds.
- The lifetime of kernel objects (reference counts on frames, streams, sockets and timers), and
  the deferral of timers to `quic_release_cb`: handlers run one after the other in any order.
- Peers that do not follow the protocol. The models connect two ends that both run
  this code; only `FlowControl` adds the BLOCKED frames another implementation sends.
- `StreamTable`: STREAMS_BLOCKED frames, which this code never sends, and their handler.
- `OutQueue`: writes that fill a frame (`nodelay`) and writers that wait for send buffer.
- `InQueue`: liveness and two streams sharing the lists. When a sender cuts its data differently
  on retransmission, pieces received out of order can fill `sk_rcvbuf` and nothing more is
  accepted, so "everything is read" holds only with memory to spare.
- `Migration`: failed frame allocations, the preferred address, and applications that retire
  source IDs while a path is validated (`Retires` is `{"dest"}`). What becomes of the ID set
  aside for the new path in that case is not examined.
- `Handshake`: a packet holds one ACK-eliciting frame and is a datagram of its own (no
  coalescing); several queued PINGs of a level are one; ACK-only packets cost no credit; the
  accept queue is never full; tokens are valid; nothing fails to be allocated. NEW_TOKEN, session
  tickets and NEW_CONNECTION_ID frames stand as "DONE" and "CIDS". A Retry ID is used again only
  when no socket or packet knows it. `Completes` is checked with one Retry ID; with two see
  `HandshakeRetry.cfg`.
- Hazards seen and not covered by a property: `unsent_bytes`, which only an `ioctl` reads and
  which purging frames leaves as it is (`outqueue.c:1266`), the switch of version on the first
  Initial packet (`packet.c:1284`), the credit of data purged by a reset (`frame.c:1397`), which
  is never given back to the connection window.
