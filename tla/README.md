# New IP on Linux: specification, model checking and proofs

This directory holds a TLA+ development of the New IP prototype for Linux: the
latency-based-forwarding (LBF) queueing discipline of the kernel, the XDP and TC
router programs with the tools that load, feed and read them, the Python library
that builds, sends and answers New IP packets, and the libbpf the prototype
carries along. Paths are relative to the repository; those of TLA+ modules to
this directory.

1. [The system](#1-the-system)
2. [Plan](#2-plan)
3. [Modules and code](#3-modules-and-code)
4. [Runs](#4-runs)
5. [Proofs](#5-proofs)
6. [Only model-checked](#6-only-model-checked)
7. [Where the code and what it says differ](#7-where-the-code-and-what-it-says-differ)
8. [Not modelled](#8-not-modelled)

## 1. The system

A New IP packet is an Ethernet frame of type `0x88b6` with three parts found
through one-byte offsets: a *shipping spec* (source and destination, each an
IPv4, IPv6 or 8-bit address), optional *contracts*, and the payload. Hosts
build packets with scapy; routers forward them without the kernel's IP stack:

    Sender -> [lbf egress queue] -> link -> xdp_router -> metadata -> tc_router
           -> bpf_redirect -> [lbf egress queue] -> link -> ... -> Receiver

Every interface of `New_IP/setup.py`, those of the hosts included, has the
`lbf` qdisc at its root, so the hop count a sender puts into an LBF contract
(`info_dict[..]["hops"]`) counts the lbf queues on the way, its own included.

### Inventory

| Component | State | Operations | Interacts with |
|---|---|---|---|
| LBF qdisc, `lbf/src/linux/sch_lbf.c` | limit, qlen, fifo; list of hnodes (budget ranges), each with a queue of pnodes (packets); `next_pnode`, `hops_left`, statistics, watchdog timer | `lbf_init/enqueue/dequeue/peek/change/reset/destroy/dump/dump_stats` | header fields of the packet (read and rewritten), the clock, the watchdog, the kernel's qdisc layer, tc |
| XDP router, `xdp/newip_router/xdp_prog_kern.c` | `static_redirect_8b`, counters | `xdp_router_func`, `xdp_pass_func` | kernel FIB, metadata read by TC |
| TC ingress, `xdp/newip_router/tc_prog_kern.c` | none | `tc_router_func` | metadata of the XDP program, `bpf_redirect` |
| Counters and `xdp_stats`, `xdp/common/xdp_stats_kern.h`, `xdp/loader/xdp_stats.c` | counters per action and CPU; previous reading; id of the pinned map | `xdp_stats_record_action`; `stats_poll`, restart on a new map | XDP program, pinned maps |
| XDP loader, `xdp/loader/xdp_loader.c`, `xdp/common/common_user_bpf_xdp.c` | program attached to an interface, maps pinned under `/sys/fs/bpf/<if>` | attach (with forced replacement), detach, pin, unpin, reuse | kernel, `xdp_prog_user`, `xdp_stats` |
| Redirect table writer, `xdp/newip_router/xdp_prog_user.c` | the pinned `static_redirect_8b` of one interface | parse routes, update map | loader, XDP router |
| Shared helpers, `xdp/common/` | options; cursor into a packet; maps shared through files | `parse_cmdline_args`, parsing and rewriting helpers, `bpf_prog_load_xattr_maps` | programs and tools above |
| Headers, sender, receiver, `New_IP/*.py` | contracts gathered in a `Sender` | `make_packet`, `insert_contract`, `set_contract`, `send_packet`; `process_pkt` (answers pings) | network |
| Topology, `New_IP/setup.py`; `examples/` | nodes, addresses, 8-bit tables, hop counts; one process per source | `setup_topology`, `start_receiver`; `lbf_forwarder` | everything above |
| libbpf, `xdp/libbpf/src/` | objects, programs, maps, links, pins; AF_XDP rings and sockets; ring and perf buffers; hash map; type information | see section 3 | kernel, BPF file system |

### What is hard, and what makes each part correct

* **LBF qdisc.** Enqueues, dequeues and the watchdog interleave; a dequeue reads
  the clock four times and sweeps the list three times, holding pointers
  (`next_pnode`) from an earlier dequeue; allocations fail; the interface resets
  the queue. Correct means: a packet leaves inside its window, the most urgent
  due packet first, none is forgotten, sent twice or lost without a reason, and
  qlen, which decides whether the queue is full, counts packets.
* **A contract along a path.** Every hop computes its own share of the contract
  with 16-bit, truncating arithmetic and updates the header; the shares have to
  add up end to end.
* **XDP and TC router.** Two programs share metadata that only some paths write;
  other frames pass between the two hooks of one; offsets in the packet select
  what is read. Correct means: a packet is forwarded only to the interface
  looked up for it.
* **Loader, pinning, statistics.** Several system calls, any of which may fail
  or be the last, between which other processes look at the pinned maps.
* **Sender, receiver, topology.** State left over from one packet to the next;
  pings that cross each other; hop counts, routing tables and routes that were
  written down or computed apart and have to agree.
* **libbpf.** Memory shared with the kernel without locks (rings, ring buffers,
  perf buffers); objects that are taken apart again at whatever step they fail;
  descriptors that are numbers, given out again once closed; files shared with
  other processes; algorithms over type information that has circles.

`PROJECT.json` lists the hazards one by one, at their lines.

## 2. Plan

The order of the work, an asterisk at what is done:

1. the LBF qdisc, what it promises, and a contract along a path*;
2. the router programs, the network of `setup.py`, sender, receiver, forwarder*;
3. loader, statistics and the helpers of `xdp/common`*;
4. libbpf, component by component*;
5. proofs: LBF arithmetic, path and qdisc with the refinement of `LbfPromise`*;
   `MapsPinned`*; router and network*; loader and statistics*; the AF_XDP rings
   with the refinement of `XskQueue`*; the ring buffer reader*; links*;
   helpers*; netlink*; the load calls*; the sockets of a UMEM*; pins*; perf buffers*;
6. left to TLC: see section 6.

## 3. Modules and code

State is named as in the code, actions are the functions or the parts of them
between two points where somebody else can act; `PROJECT.json` maps every
definition to its lines. Modules named `MC...` hold instances for TLC, those
named `..._proofs` proofs; `LbfLemmas` holds facts both LBF proofs use. The proof about
`MapsPinned` stands in that module, behind the property, those about `LbfPath` in
`NewIPNetwork_proofs`, those about `BpfRingbuf` and `BpfPerfBuffer` in
`Buffers_proofs`.

### LBF

**`LbfDelay`**: arithmetic and list. `lbf_get_min_delay` and `lbf_get_max_delay`
are the functions of that name; `Tenths` the conversion of ms into a `__u16` of
10^-4 s; `DecHops` the decrement of `fib_tohops` in network byte order; `LqMin`,
`LqMax`, `LqBudget`, `EarlyDiscard` lines 328-363 of `lbf_enqueue`; `RangeStart`
and `InRange` the range an hnode is given and the one a lookup accepts (they
differ by one). `h_delay` is the constant 0 in the code and left out. The list
of hnodes is a sequence of records `range_start, queue`, a queue a sequence of
packets standing for their pnodes: `lbf_get_hnode`, `pnode_queue_add`,
`create_hnode` are the functions of that name, `PopHead` is `remove_pnode` on the
head of a queue, `Sweep` what a search leaves of a queue. `prev_hnode` is only
ever NULL and `hnode_num` is never read: neither is a field, and the branches
that need a `prev_hnode` are not there.

**`LbfQdisc`**: variables are the fields of `struct Qdisc`, `lbf_sched_data` and
the pnodes, the kernel around them and the history the properties need.

| Code | Actions |
|---|---|
| `lbf_init` | `Init` |
| `lbf_enqueue` | `EnqueueOverlimit`, `EnqueueTail`, `EnqueueNoHops`, `EnqueueEarlyDiscard`, `EnqueueLbf`, and one action for each allocation that fails |
| `lbf_dequeue`, 557-590 | `DequeueNoNext`, `DequeueExpired`, `DequeueNext`, and the two ways it goes wrong: `DequeueUseAfterFree`, `DequeueNullDeref` |
| `search_now_pnode`, 592-598 | `SearchNowFinds`, `SearchNowFindsNone` |
| `search_next_pnode`, 600-606 | `SearchNext` |
| `lbf_dequeue`, 607-666 | `ReturnLbf`, `ReturnHead`, `DiscardHead`, `ReturnNothing` |
| `lbf_reset`, `lbf_change` | `Reset`, `Change` |
| watchdog, clock | `WatchdogFires`, `Tick` |

The pointer `pnode->hnode` is the set `owned` of pnodes whose pointer is set:
the code sets it for heads only, and for a head it is always the hnode it heads.
Removing a pnode that is not owned follows NULL.

**`LbfPromise`**: the abstract specification. Packets are new, waiting, in hand,
sent or lost; one at a time is taken in hand once due; expired ones may be given
up at the last hop. `LbfQdisc!Promise` instantiates it with the refinement
mapping (`PromisedState`, and `tmin`, `tmax`, the range start of the budget and
`hops_left = 0` for `due`, `deadline`, `rank` and `last_hop`).

**`LbfPath`**: one packet, its header fields and the instants it dwelt in queues.
`Hop` is a hop that releases it inside the window [`LqMin`, `LqMax`] it computed,
which is what `LbfQdisc` promises when the watchdog is in time; `LateHop` one that
does not.

What is abstracted: the clock counts instants, `TenthMs` of them in 10^-4 s; the
scheduler's rounding to 64 ns is in the value of `delay` (`Ticks`) and not in
`tmin` and `tmax`. The clock readings of one enqueue are a single instant (the
code takes them a few lines apart under the lock, and nothing is ordered by
them); those of a dequeue are separate, since its sweeps act on each. The root
lock makes an enqueue, a reset and a change atomic with respect to a dequeue;
only the clock and the watchdog move within one. Reading freed memory or
following NULL halts the model (`fault`): which packet the freed pnode would
yield is not guessed, and no property is claimed of what follows. A packet is a
model value with the contract it carries. `hops_left` and `fib_tohops` are kept
in host order; the code keeps `hops_left` as it lies on the wire and only compares
it with 0. Logging, the backlog counter, `peek` (a dequeue) and the driver's
requeue are left out. `fate`, `debt`, `resets` and `waited` are history variables;
actions read them only to let every packet arrive once and to bound the resets.

### Routers, tools, network

| Module | Code | State and actions |
|---|---|---|
| `XdpRouter` | `xdp_prog_kern.c`, `tc_prog_kern.c`, `xdp_prog_user.c`, `newip_hdr.py`, `newip.h` | lengths, offsets and contracts of a frame as operators; for each frame the hook it is at, headers, metadata, verdict, counted row, egress; one action per way through `xdp_router_func` and `tc_router_func`, `WriteRoute` for a route of the writer. Metadata nobody wrote is any value |
| `NewIPNetwork` | `sender.py`, `receiver.py`, and the programs above at every router | extends `XdpRouter` by pings: `SendPing`, `Cross` and `Lose` (links), `AnswerPing`, `ReportReply`, `StopReceiver` |
| `NewIPSenders` | `Sender` of `sender.py` | the contracts and shipping spec an object keeps between packets, and the program's own lists, out of which `set_contract` takes contracts |
| | `examples/lbf_forwarder.py` | one process per source with its own copy of the lists, drawing packets at random |
| `MCNewIP` | `New_IP/setup.py` | the topology, `static_redirect_8b`, `info_hops`, and the routes RIP converges to (`Distances`), as constants of the modules above |
| `XdpLoader` | `xdp_loader.c`, `common_user_bpf_xdp.c`, `xdp_prog_user.c` | attached program, files of the pin directory, the progress of every run; one system call a step; `Crashes` lets a run die between any two |
| `XdpStats` | `xdp_stats_kern.h`, `xdp_stats.c` | extends `XdpLoader` by the counters (two increments a packet) and a reader that copies one counter of one CPU after the other; any of the reader's own calls may fail, a lookup included, after which it goes on with a value no map gave |
| `XdpHelpers` | `common_params.c`; `parsing_helpers.h`, `rewrite_helpers.h` | the configuration an option at a time; a cursor, VLAN tags pushed and popped |
| `MapsPinned` | `common_libbpf.c` | several processes in `bpf_prog_load_xattr_maps`, each able to end anywhere |

The `AF_INET` fallback ends as an "error" answer of the FIB does. A
`bpf_xdp_adjust_meta` that fails ends the program with `XDP_ABORTED` and without a
count (`XdpNoMeta`), whatever the frame is; the drivers of the interfaces in
`NoMeta` may refuse the room, one of two in the run `xdp`, none in the network,
whose veth interfaces always have it. The network takes routes and neighbours as populated and leaves the lookup
of MAC addresses out. The lists given to `set_contract` are the program's
own and may be given again: the call that gives an object its first contracts takes the
first one out of the list for good. A ping
goes between all combinations of address types. Loaders run one after the other,
as `setup.py` runs them; `XdpStats` needs no such assumption. In `MapsPinned` the
result of `bpf_map__reuse_fd` is not looked at, as in the code, and a pin succeeds
only on a free name.

### libbpf

| Module | Code (`xdp/libbpf/src/`) | What it models, and leaves out |
|---|---|---|
| `XskQueue`, `XskRings` | `xsk.h` | two queues; the transmit and completion rings with producer, consumer and the two cached indices, wrapping at `Wrap`. Rings start zeroed |
| `XskSocket` | `xsk.c` | UMEM, contexts, sockets, with each step of their creation failing. Queues are exclusive (`Shared` FALSE). As in the code, the rings saved for a UMEM are gone after a failed first creation and a failure leaks the descriptor of a map it looked up; `munmap(MAP_FAILED)` is left out |
| `BpfRingbuf` | `ringbuf.c` | records reserved, committed and discarded on any CPU; one reader, one access a step; `epoll_wait` reports rings in any order |
| `BpfMultimap`, `BpfHashmap` | `hashmap.h`, `hashmap.c` | a list of values for each key, of which the first is found; chains, growth (which turns them around), every strategy, failing allocation |
| `BpfObject` | `libbpf.c` | opening, each step of loading and its failure, auto-pinning, unloading. As in the code, `bpf_object__reuse_map` keeps the descriptor it looked up open (`kept`, bounded by `MaxKept`), and after a failure an inner map stays open until close. The early phases of a load are one step |
| `BpfProgLoad` | `libbpf.c`, `bpf.c` | retries with shorter records, a log, a larger log, as a kprobe; no memory for the shortened records; six interruptions end a call and may leave a log that is cut |
| `BpfLink` | `libbpf.c` | links that own a descriptor or borrow one, pinned, disconnected, destroyed; a skeleton, attached once, whose struct_ops link goes before its object |
| `BpfPin` | `libbpf.c` | files one by one and the taking back; distinct names; `set_pin_path` on unpinned maps only; another process only creates. What is taken back includes pins that were there before |
| `BpfPerfBuffer` | `libbpf.c` | a ring per CPU, in slots; a record takes some and may wrap, the kernel writes between any two steps of the reader; the CPUs online do not change; the kernel reports a ring once per new data |
| `BpfNetlink` | `netlink.c`, `nlattr.c` | a fresh socket per call, one setter and one getter; the acknowledgement is an error of 0 |
| `BpfProgLinfo` | `bpf_prog_linfo.c` | cutting lines into functions, looking them up; instruction offsets are 2 per line |
| `BpfExterns` | `libbpf.c` | collecting, layout, values from Kconfig texts, kallsyms and BTF; a byte has one bit, names are numbers |
| `BpfRelocate` | `libbpf.c` | programs cut, relocations recorded, subprograms appended; `org` labels an instruction with where it was; one section of data |
| `BpfMapDefs` | `libbpf.c` | definitions of both kinds in words instead of bytes, inner maps; old maps have no section symbol, key types have a size |
| `BpfCoreRelo` | `libbpf.c` | candidates, matching, patching; little endian, types as trees, `ldimm64` one instruction |
| `BtfDedup` | `btf.c` | one action per pass, hash buckets in two orders; of `.BTF.ext` the lines, not the section names of `func_info` |
| `BtfBuild` | `btf.c` | parsing, splitting into three parts, `btf__add_*`; cells instead of bytes, `BaseGrows` FALSE, three places where memory runs out |
| `BpfStructOps` | `libbpf.c` | struct_ops maps, relocations, the kernel's layout; the kernel's own check is external |

## 4. Runs

Modules that share no state are checked side by side: a suite (`MCNewIP`,
`MCXdp`, `MCLibbpf`, `MCLibbpfData`, `MCLibbpfLive`) has a variable
`part`, fixed by the initial state, and lets only that part move. A suite extends the modules
whose theorems section 5 lists, so that the run checks the very definition the
theorem is about; it instantiates the others on variables of its own, and says
their properties of their part. What is not of the part stays at its initial
state. Each run ends within four minutes on two workers.

| Run | Instance | Properties |
|---|---|---|
| `qdisc_delay` | 3 LBF packets from four contracts, arriving at any of 4 instants | `ListSound`, `WatchdogCovers`, `NeverEarly`, `MostUrgentFirst`, `PromiseKept` (refinement), `TypeOK` |
| `qdisc_mixed` | 3 packets of LBF, MDF and plain traffic, limits 1 and 3, failing allocations, one reset | `PacketsAccounted` |
| `qdisc_live` | 2 LBF packets under `FairSpec` | `DelayedLeaves` |
| `newip` | chains of 1-3 routers and six contracts; the network of `setup.py`, 2 frames, one ping between any two hosts; one `Sender`, two lists its program keeps, up to three packets; 2 forwarding processes | `ContractKept`, `PathSound`, `HopsSuffice`; `NetworkSound`; `SendersSound`; `NothingStarves` (liveness) |
| `xdp` | a router with 2 interfaces, 2 frames of 8 kinds; 3 runs of the loader with 7 command lines, crashes; 2 runs beside `xdp_stats` on 2 CPUs; up to 3 options; packets with up to 2 tags; two processes sharing 2 maps | `RouterRight`, `LoaderRight`, `RatesOfOneMap`, `HelpersSound`, `ReportedIsPinned` |
| `libbpf_kernel` | 2 objects sharing a pinned map; 2 sockets on 2 queues; 3 struct_ops variables against 7 kernels; links of 3 programs; 2 interfaces, a setter that attaches twice and a getter; 3 frames, rings of 2, indices modulo 4; 2 maps and 3 program instances to pin | `ObjectSound`, `SocketsSound`, `StructOpsSound`, `LinkSound`, `NetlinkRight`, `RingsSound`, `PinsRight` |
| `libbpf_data` | 2 ring buffers; perf rings of 3 slots on 2 CPUs, samples of 1 and 2, 3 of each CPU; BTF of two or three units; BTF built on nothing and on a base; line info of 3 functions; old and new map definitions; 2-3 externs; 5 functions in 2 sections; 3 CO-RE relocations against 8 sets of kernel types | `RingbufSound`, `PerfSound`, `DedupSound`, `BuildSound`, `LinfoSound`, `MapDefsSound`, `ExternsSound`, `RelocSound`, `CoreSound` |
| `libbpf_live` | 2 frames; one ring; 3 CPUs, 2 online; a verifier with a log; 2 keys | `ImplementsQueues`, `ImplementsMultimap` (refinements), `LoadsRight`, `NothingIsStuck` (liveness) |
| `qdisc_last_pnode` | as `qdisc_delay` | `LastPnodeIsOnly` is violated, see section 7 |
| `maps_pinned_reuse` | as `xdp` | `ReportedIsUsed` is violated, see section 7 |
| `hashmap_finds_last` | the hash map of `libbpf_live` | `FindsLastInserted` is violated, see section 7 |
| `dedup_loss` | the units of `libbpf_data` that it leaves out | `LosesNothing` is violated, see section 7 |

What the properties with a collective name say:

* `ListSound`: heads, and only they, have an hnode pointer; queues are in order of
  release and hnodes in order of budget; every packet is in a range of its own.
* `PacketsAccounted`: nothing is held twice or kept after it left, and qlen counts
  what is queued, modulo its width, but for packets lost in a search and those a
  reset forgot.
* `ContractKept`, `PathSound`, `HopsSuffice`: a packet that was never late arrives
  inside the contract it was sent with; it is discarded only when it is too late,
  and every hop's window opens before it closes; the hops of the contract suffice.
* `NetworkSound`: a host gets only what is for it; a ping has lost one hop per
  router; no frame circles; a reply answers a ping that was sent.
* `RouterRight`: a frame for which an interface was looked up leaves through it,
  no New IP frame reaches the kernel's stack, and none that is whole is dropped as
  malformed; a frame without contract leaves as it came.
* `LoaderRight`: a run that reports success has its maps where the writer and
  `xdp_stats` look for them; a run without `--force` and `--unload` touches
  nothing that is attached, and pins change only after an attach.
* `RatesOfOneMap`: two readings that `xdp_stats` subtracts are of one map and in
  order, but for lines with a value no map gave (a lookup failed).
* `SendersSound`: each packet carries the contracts given for it and no others; a
  list given again lacks its first contract once for each packet it began.
* The `...Sound` and `...Right` properties of libbpf are described above each, in
  the module that defines them: that of the component or, for a component that is
  instantiated, the suite.

**Bounds.** Three packets are what it takes to have a head, a pnode put before it
and a third that displaces the second, or two hnodes of which one holds two. The
contracts of `qdisc_delay` are chosen so that two packets share a range, one has
the budget (9) that its own hnode does not accept, one is more urgent but due
later, and one arrives a hop before its last; the windows ([2,2], [0,1], [1,11],
[0,9]) all open within the four instants of the clock, and the first two close.
`MaxArrival` bounds arrivals, `MaxTime` the clock, `MaxResets` the resets. In
`qdisc_live` `MaxTime` is the last arrival plus the longest wait for a window to
open (2), so that the clock stopping there hides no packet that is still to be released.
Rings of two with three
frames are full, empty and in between, and indices modulo four wrap several times
over; the refinement and the liveness of the rings are checked with two frames. In the
network one ping between any two of the three hosts meets every table entry, and
a second frame its answer, or the same ping answered at once by another. Runs of the
loader are three: one to leave something behind, one to be killed, one to find it.
Deduplication runs over all pairs of units, over triples that have everything in
full somewhere, with and without a base, with both orders of a bucket; `DedupLossy`
is what `DedupSound` leaves to `dedup_loss`: a base that declares an enum another
unit has, or, in three units, a struct that both others have in full.
`MaxRuns`, `MaxPackets`, `MaxPings`, `MaxSends`, `MaxContracts`,
`MaxFd`, `MaxKept`, `MaxRecords`, `MaxOut`, `MaxNew`, `MaxCells`, `MaxStrs`,
`MaxCalls`, `MaxProgs`, `MaxMaps` and their like cap a counter in a guard, each
named at its declaration.

**Symmetry.** Packets of the qdisc's safety runs, objects and sockets of `libbpf_kernel`
and ring buffers of `libbpf_data` are interchangeable. No liveness run uses any.

**Deadlock** is not checked for the qdisc, which stops when it has no packets, and
in `newip`, `xdp` and `libbpf_live`, where parts end when packets
have arrived or calls have returned. In `MCLibbpf` and `MCLibbpfData` it is
checked of the parts that go on for ever; `Stops` lists the others.

**Fairness.** *Qdisc*: time advances, an hrtimer that has expired fires, a run of
the qdisc that is due takes place and completes (`__netif_schedule` puts the
qdisc on the queue of the NET_TX softirq, and `lbf_dequeue` has no unbounded
loop); weak fairness, since each stays due. *Network*: hooks run, a link delivers
or loses, a process that sniffs is scheduled; nothing obliges hosts to send,
links to lose or receivers to stop. *Forwarder*: every process is scheduled.
*Rings*: the kernel takes submitted frames (weak) and gives each back (strong, it
needs room in the completion ring that comes and goes); the program goes on
peeking and releasing. *Ring buffer*: the reader polls and goes on once it has
begun, whoever reserved a record finishes it. *Perf buffer*: somebody goes on
polling (strong, since poll is possible only when a ring is reported). *Loading a
program*: a sequential call that runs.

## 5. Proofs

TLAPS checks the following for every value of the constants. The assumptions are
the named `ASSUME`s and `...Assumption` operators: types of constants, finite
sets, a positive number of instants per unit. Those that say something of the
environment are named in the text. TLC evaluates each on the instances of the
runs.

| Module | Theorem | Property |
|---|---|---|
| `LbfQdisc_proofs` | `TypeCorrect`, `NotEarly` | `TypeOK`, `NeverEarly` |
| | `ListIsSound`, `MostUrgent` | `ListSound`, `MostUrgentFirst` |
| | `PacketsAreAccounted` | `PacketsAccounted` |
| | `WatchdogIsArmed` | `WatchdogCovers` |
| | `PromiseIsKept` | `PromiseKept`, the refinement of `LbfPromise` |
| `NewIPNetwork_proofs` | `RouterIsRight`, `NetworkIsSound` | `RouterRight`, `NetworkSound` |
| | `ContractIsKept`, `WindowsOpen`, `HopsAreEnough` | `ContractKept`, `PathSound`, `HopsSuffice` |
| `XdpStats_proofs` | `RatesAreOfOneMap`, `LoaderIsRight`, `HelpersAreSound` | `RatesOfOneMap`, `LoaderRight`, `HelpersSound` |
| `Xsk_proofs` | `RingsAreSound` | `RingsSound` |
| | `QueuesAreImplemented` | `ImplementsQueues`, the refinement of `XskQueue` |
| | `SocketsAreCounted`, `SocketsAreSound` | the counts, `SocketsSound` |
| `Libbpf_proofs` | `LinksAreSound`, `NetlinkIsRight` | `LinkSound`, `NetlinkRight` |
| | `LoadIsRight`, `PinsAreRight` | `LoadsRight`, `PinsRight` |
| `Buffers_proofs` | `RecordsAreRead`, `SamplesAreRead` | `RingbufSound`, `PerfSound` |
| `MapsPinned` | `Invariant`, `Shared` | `ReportedIsPinned` |

**The contract along a path.** The invariant says, of a packet in transit that was never late,
that what it has spent and what is left of each bound still fit: the time on the
clock lies between `experienced_delay` and `experienced_delay` plus one rounded
unit per hop; while hops are left `experienced_delay` has not passed the maximum;
when none is left it has reached the minimum. A step adds the hop's share, the
division lemmas of `LbfLemmas` bound it, and at the last hop the share is the whole
rest, which is where the end-to-end bounds come from.

**`LbfQdisc_proofs`.** Four invariants, each resting on those before.
*`IInv`*, for types and release times: `NeverEarly` is not inductive alone, a
packet in hand must not be stamped anew by an enqueue (`HandEmpty`: between
dequeues there is none), nothing may leave early through the fifo (`FifoKinds`),
and the delay measured at the end must be a natural number (`Clocked`). *`LInv`*,
for the list: `Fine` (sorted, no packet twice, each in a range of its own),
`HeadsOwned`, where every packet is (`Places`, `FifoOnce`, `LbfKinds`, `HandApart`);
what the list operators do to a fine list is in `LbfLemmas`, by least elements
instead of induction. *`QlenAccounts`*: counting modulo `QlenMod` what an action
adds to and takes from a finite set. *`TimerInv`*, without resets: `next_pnode` has
arrived (`NextKnown`); while it is in the list the timer is at its release, or has
fired for it and a run is due (`Armed`); and from the end of a dequeue on, unless a
run is due, the timer is no later than any release (`Covered`). The refinement takes
one lemma per way a step maps: an enqueue to `Admit`, `SearchNow` to taking the
most urgent, a return to sending, losses to giving up, all else to a stutter.

**`NewIPNetwork_proofs`.** For the two programs: between the hooks a frame's
metadata holds the interface that was looked up, if one was (`MetaKept`), a frame
before its first hook is as a neighbour sent it (`Fresh`), and tables hold
interfaces (`TableTyped`), whatever is written into them meanwhile. Assumed of the frames (`HeadersAssumption`): what `sender.py` builds, cut
anywhere. For the network, per frame: it is a ping or an answer to one that was
asked (`Asked`), it has crossed as many routers as its rank has fallen and its
hops have been decremented (`OnItsWay`), and the interface it is to leave by leads
toward its destination. Assumed of the environment (`TablesAgree`): tables and
routes lead one router nearer, and the hop counts are the ranks; TLC evaluates it
for the tables of `setup.py` and the routes RIP converges to.

**`XdpStats_proofs`.** The loader: an attached program has all its maps
(`LinkFull`), and what each stage of a run has done and not yet done (`Stage`). The
reader: the map it reads is the one it opened (`OneMap`), and the sums it builds
are between the counters when it began and now (`Sums`), CPU by CPU, since
counters only grow; a line in which a lookup failed has no map (`NoMap`) and nothing
is claimed of it. `RatesAreOfOneMap` holds for loaders at work at the same time;
`LoaderIsRight` assumes one run after the other (`OneAtATime`), as `setup.py` does.
The helpers: the mode is that of the last option that chose one (`ParamsInv`); the
cursor is within the packet, and the tags of a packet are those pushed on those
left of its own (`PacketsInv`), for packets of any layout (`PacketsAssumption`).

**`Xsk_proofs`, rings.** Assumed: the size of a ring divides the number of values of
an index and is smaller (a power of two below 2^32). Indices are compared modulo
`Wrap`; the lemmas on stretches of a ring say which cells lie between two indices,
that two stretches share no cell while they are no longer than the ring, and what
remains of a stretch that is written to, cut and joined. The invariant: in each ring the
entries, those reserved or peeked and those a copy still promises fit together
(`TxRoom`, `CompRoom`), every frame is at
exactly one place of four, with the program (which has the written descriptors
that are not submitted yet, each once), in the transmit ring, with the kernel or in
the completion ring (`Apart`), and what was peeked is what the copies cover. The refinement maps the stretches to sequences; every operation
appends to one, takes from the head of one, or changes copies only.

**`Xsk_proofs`, sockets.** Two theorems share the work. `SocketsAreCounted` needs
nothing but finite sets: a context has as many references as live sockets use it,
the UMEM at least as many as there are sockets (a failed creation may leave one
behind), and what one call opens and closes in a row ends where it should whatever
step fails. `SocketsAreSound` assumes exclusive queues (`~Shared`): with a shared
one the first delete closes the numbers of a context that the second goes on
using (section 7). Its invariant (`SocketsInv`) adds what a number stands for
(`RelyInv`): a live socket's stands for that socket or, for the first, for the UMEM,
a context's for its program and the map of it, and nobody else closes them.

**`Libbpf_proofs`, links.** What destroying a link
may hit is decided when its descriptor is closed, so the invariant (`LinkInv`) says
of every live link at every moment that its descriptor is open for what the link
was made of (`LinkFine`), that no two have the same one (`Distinct`, or the first to
be destroyed would free what the second holds), and that the map of a loaded
skeleton is open (`MapIsOpen`), which is where a struct_ops link gets its
descriptor. One lemma per call says that a new link takes a descriptor that was
free (`LowestUnused`, by well-foundedness of the numbers) and that an old one frees
its own only. `StillRuns` is the kernel's side: what it keeps attached because a
descriptor or a pin refers to it has a link, a pin, or an heir. Assumed
(`LinkAssumption`): the names of programs are not those of the two other links.

**`Libbpf_proofs`, netlink.** Per process (`ProcRight`): a setter that waits for an
answer has one on its socket, and it says what the kernel did. For a getter the
messages on the way are those of consecutive interfaces, each of them true when the
kernel wrote it; the one asked for is still to be told, on the way, or in the
answer, and what was in the interface since the call began contains it (`Telling`). So
an answer is of the interface asked for and of one moment, although a dump takes
many. Assumed (`NetlinkAssumption`): interfaces are told of in the order of their
numbers, setters and getters are different processes.

**`Libbpf_proofs`, loading.** `LoadInv` says of each step of a call what is open
(`OpenInv`: one descriptor if the last attempt succeeded, else none), what the log
is (`LogInv`: empty before a first attempt, and cut only if the error says so or
an attempt was interrupted) and
why a program the kernel would take has not been taken yet (`TakenInv`: its records
are too long, or its log is, or memory for the shortened records was not to be had, or the
kernel was busy: these two are left out of what `LoadsRight` says of acceptance, as
the code leaves them out of its diagnosis, see section 7). Assumed (`LogAssumption`): memory can be had for a log
as long as the verifier's; without it the retry rightly ends in `ENOMEM`.

**`Libbpf_proofs`, pins.** Calls pin file by file and take back file by file, and another
process may create a file between any two steps. The invariant (`PinInv`) follows
the call: the maps and instances still to be taken back are pinned where they
should be (`MapsAreLeft`, `InstsAreLeft`), and whatever file the call has made is
gone, or is one of those (`MadeIsLeft`); when nothing is left to be taken back,
nothing made is left. Assumed (`NamesAssumption`): no two maps and no map and
program share a file. In the code, names that `sanitize_pin_path` makes equal do.

**`Buffers_proofs`, ring buffer.** Assumed (`RingbufAssumption`): lengths and bounds are natural
numbers. Records lie one after the other, so a position of the ring is where the
first k records end (`Pos`), for one k only (`PositionIsOne`). The invariant: of
every ring the consumer position is such a position, and what was given are just the
committed among the records before it, none of them busy (`Settled`), except in the
ring being read between the step that takes a record and the one that stores the
position (`Taking`), where the reader is one record ahead (`Takes`). What
the kernel does meanwhile, on any CPU, only adds records and ends busy ones
(`Grown`), which takes nothing from that. Rings are read in any order, a ring may
be left after an error of the callback and taken up by the next call.

**`Buffers_proofs`, perf buffer.** Per processor (`PerfRight`), between where the user
has read (`Position`: the tail, or the reader's own while it reads) and the
kernel's head, which are never further apart than the ring is long: every slot is a
part of a record that lies there from end to end (`Whole`), and every record goes on
from the one before it or tells what was lost before the sample behind it
(`Numbered`); the first of them goes on from what the user has had (`GoesOn`).
The head the reader has read once stays behind the kernel's (`Holding`), and since the
kernel never writes between tail and head, what it puts in meanwhile leaves these
slots as they are. That is arithmetic modulo the size of the ring, which the
lemmas from `SlotsApart` to `PutCells` are about. Of the map: its keys are those of
the rings opened, and nobody reads a buffer that is not ready (`Keyed`). Assumed
(`PerfAssumption`): processors are numbered from 1, a ring has slots and a sample
takes some; a sample longer than a ring is allowed, and is lost.

**`MapsPinned`.** The map a process reports for a file is the one pinned there, by it or
by who was there first: `IInv` says so at every moment of the call and not only at
its end (`Reported`), that a loaded object has all its maps (`Loaded`), and that a
map once pinned stays behind its file (`PinsHold`).

## 6. Only model-checked

* Liveness (`DelayedLeaves`, `NothingStarves`, `NothingIsStuck`): the prover has no
  rules for fairness as it is installed.
* Algorithms defined by recursion over data, whose general statement needs
  induction with an operator as a parameter: `DedupSound`, `RelocSound`,
  `CoreSound`, `MapDefsSound`, `LinfoSound`, `ExternsSound`, `BuildSound`.
* `ObjectSound`, `StructOpsSound` and `ImplementsMultimap`, for the same reason: the
  modules count descriptors, lay out members and compare chains with folds, and what a fold yields for every input is an induction over data.
* `SendersSound`, for the same reason: it concatenates the lists that were given.
* That a shared queue keeps its promises (`SocketsSound` with `Shared`): it does not,
  see section 7.

## 7. Where the code and what it says differ

Four of these are runs that end in a counterexample:

* `qdisc_last_pnode`: `remove_pnode` is called on a pnode that is no longer the
  head of its queue and has no hnode pointer; the shortest way there is an
  enqueue of a packet with an earlier `tmin` after `next_pnode` was chosen.
* `maps_pinned_reuse`: a map that cannot be taken over is reported all the same
  (`common_libbpf.c:100`).
* `hashmap_finds_last`: `hashmap.h:95` promises the last value inserted for a key;
  `hashmap_grow` turns chains around (`hashmap.c:119`), so after a growth it is another.
* `dedup_loss`: `btf.c:2751` promises that no information is lost. With a base, a
  struct can be mapped to one of the base that only declares what it refers to: a
  declared enum is taken for the full one (`:3719`), or an earlier struct has made a
  declaration equal to the full struct (`:4121`, `:3922`) without the flag that would
  keep the later one (`:3967`).

Others were met on the way. The models do what the code does, and the properties
are stated so as not to deny it:

* *LBF.* ms times ten is kept in a `__u16`, so a minimum of 6554 ms becomes a wait of
  4 units (`sch_lbf.c:330`); expired packets stay counted in `qlen`, so an empty
  queue can be "full" for good (`:513`, `:454`, `:570`); no emptied hnode is ever
  removed (`:416`); the reported delay of an LBF packet is 64 times too small
  (`:609`, `:757`); after a reset a delayed packet has no timer, which is why
  `WatchdogCovers` excludes resets.
* *Router.* When the FIB finds no route the metadata is not written and the TC
  program redirects by what it finds there; the frame of an unknown 8-bit address
  is counted nowhere; a ping needs two bytes behind it, the padding of
  `struct ping_contract`.
* *Loader and helpers.* A run killed between two unpins leaves files that make every
  later run fail; `--unload` looks for the program of one mode only; the writer
  opens the map of an earlier run if the last one failed to pin; `xdp_stats` prints
  a line with what was on its stack after a lookup that failed (`xdp_stats.c:143`), and
  takes the 40 that `open_bpf_map_file` returns on failure for a descriptor; giving a
  destination MAC also asks for copy mode (a missing `break`); the header length is
  compared with the size of a pointer; popping a tag returns its priority bits too;
  a map that another process pinned in between is left out with a warning that its
  name is unknown.
* *Python.* A host that is source and destination runs two receivers and answers
  twice; an empty list of contracts raises instead of warning; `set_contract`
  takes the first contract out of its caller's list (`sender.py:117`); every contract but
  a ping is shown as LBF; every source of the forwarder sends
  `max(pktCount // sources, 1)` packets, and may die when `"8bit"` was the last
  type in its list.
* *libbpf.* `xsk_socket__delete` closes the numbers of a context that is shared again
  for its second socket, and a failed `socket()` leaves the UMEM busy for good; a
  positive answer of a ring buffer's callback is added to the count of records;
  when memory for shortened records is not to be had (`bpf.c:284`, `:296`), or the
  verifier was interrupted six times, a program the kernel would take is reported to
  be too large, of the wrong type or refused, with a log that may be cut; a weak typed ksym that is missing fails
  the load; a lone quote is taken for a string; a call to a function of the
  caller's own section is led into `.text`; CO-RE candidates may differ in the size
  of a field, and enums are said to be signed; "all the strings referenced from
  .BTF.ext" (`btf.c:2753`) are those of `line_info`, the section names of `func_info`
  keep their old offsets (`:3179`); "Ensure the addr is increasing _within_ a func"
  (`bpf_prog_linfo.c:71`) is not so of the last function, since the loop ends once it is
  found (`:47`); raw BTF with gaps is written back without them; adding to a base
  changes what a split says; a BTF that cannot be parsed closes descriptor 0.

## 8. Not modelled

`lbf_dump`, `lbf_dump_stats` (they print) and `lbf_destroy` (nothing of the qdisc is
left after it); `q_lbf.c`; packet captures, `tcpreplay` and the scripts of `extras/`;
the example scripts that only call the library in a row; finding MAC addresses;
of libbpf, printing types as C, probing and adapting to the kernel, the thin
wrappers of the `bpf` system call, headers with declarations only and error
texts; the vendored kernel headers. `PROJECT.json` gives the reason for each.
