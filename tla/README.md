# brutun in TLA+

brutun is a user-space tunnel: packets read from a tun/tap device are encoded,
handed to a *carrier* (a module loaded with `dlopen`) that takes them to the
other end, and written to the device there. This directory holds a TLA+ model of
it, TLC configurations that check the model on small instances, and TLAPS proofs
of the properties that hold for every instance.

To check a run: `tlc -config <run>.cfg <module>`; to check the proofs:
`tlapm <module>.tla`. `PROJECT.json` lists runs, properties, the source lines
behind every definition, the mutants that show a property can fail, and hazards.

## 1. Inventory

| Component | State | Operations | Talks to |
|---|---|---|---|
| main program (`main.c`) | `sig_exit_received` | load configuration, `pause()` loop, signal handler, shutdown | tunnel, configuration |
| tunnel (`tunnel.c`) | `tunnel_ctx`: device, `magic`, `flag_loop`, counters | `tunnel_new`, `tunnel_delete`, thread `thr_tun_reader`, callback `cb_recv` | device, carrier loader, encoding |
| carrier loader (`carrier.c`) | `carrier_t`: module handle and its context | `carrier_load`, `carrier_unload` | the carriers |
| carrier `simple_udp` | `context_st`: sockets, `peer_addr`, `dup_level`, `on_recv`; statics `serial`, `socket_id`, `serial_prev` | `mod_init`, `mod_send_packet`, thread `thr_rcv`, `mod_destroy` | UDP, `cb_recv` |
| carrier `simple_icmp4` (not built by `carrier/Makefile`) | the same over one raw socket | the same | ICMP, `cb_recv` |
| carrier `loop` | `on_recv` | `mod_send_packet` calls back at once | `cb_recv` |
| packet encoding (`cryp.c`) | none | `enc`, `dec` | called by the tunnel's threads |
| JSON items (`cJSON.c`) | linked items with keys and flags | create, add, insert, detach, replace, delete, reference, duplicate | allocator |
| JSON parser (`cJSON.c`) | position in the text, items and strings allocated, error pointer | `cJSON_ParseWithOpts` and what it calls, `cJSON_Minify` | allocator |
| JSON printer (`cJSON.c`) | texts printed so far, or the buffer with its length and offset | `cJSON_Print`, `cJSON_PrintUnformatted`, `cJSON_PrintBuffered` | allocator |
| configuration (`util_cjson.c`) | the document, files being loaded | `cJSON_loadfile`, `process_include`, `cJSON_lookup_*` | JSON items, files |

Three threads run in a process: main, the tun reader (which also runs the
carrier's `mod_send_packet`) and the carrier's receiver (which also runs
`cb_recv`). They share `tunnel_ctx` and the carrier's context without any lock.

What is hard here, and what makes each component correct:

* **simple_udp.** The network loses, duplicates and reorders; each packet is sent
  `dup_level` times and the receiver filters copies with one remembered serial.
  Two threads race on `peer_addr`; results of system calls are hardly tested; the
  address buffer is too small for IPv6; restarts reset the serials at one end
  only. Correct means: the receiver never blocks in `recvfrom`, no packet is
  handed over next to its copy, none is discarded but for another with its serial, packets
  keep their order on a path that does, enough copies survive enough faults, and the
  address of the peer is one somebody has.
* **tunnel, main, loader.** Start-up and shutdown interleave with two running
  threads and with signals. Correct means: nothing is used after it is freed or
  closed, shutdown completes, a signal is not lost for good, what is written to
  the device is counted and is what was sent.
* **encoding.** `dec` undoes `enc`, for all lengths, and only with the same magic.
* **simple_icmp4.** The raw socket gets all ICMP traffic of the host, the kernel's
  replies to its own packets included.
* **JSON items.** Any sequence of calls leaves well-formed lists in which every
  item is owned once; keys are freed if and only if they are on the heap.
* **JSON text.** `malloc` fails, or the text is wrong, somewhere deep inside; lengths
  are computed apart from the code that writes; escapes change length. Correct
  means: whatever happens nothing is lost, freed twice or written outside what was
  allocated, and what is parsed is what was printed.
* **configuration.** Files include each other, in arrays and under repeated keys, and
  some cannot be read. Correct means: loading ends with every include done. A
  path leads to what its keys and subscripts name; where it leads nowhere the default
  comes out, and the few paths that make the lookup fail otherwise are known.

`PROJECT.json` lists the hazards with the line at which each bites.

## 2. Modules

| Module | Models |
|---|---|
| `SimpleUdp` | two or more endpoints of `simple_udp` and the network between them |
| `OrderedDelivery` | abstract: packets come out in order, each at most once |
| `SimpleUdpLink` | the refinement mapping from `SimpleUdp` to `OrderedDelivery` |
| `Tunnel` | one process: `main.c`, `tunnel.c`, `carrier.c`, the `loop` carrier |
| `Cryp` | `enc()` followed by `dec()` |
| `SimpleIcmp4` | endpoints of `simple_icmp4`, the kernels that answer echo requests |
| `CjsonItems` | item lists of `cJSON.c` as pointers in memory |
| `ItemTree` | abstract: each array or object has a sequence of items |
| `CjsonItemsLink` | the refinement mapping from `CjsonItems` to `ItemTree` |
| `CjsonString` | strings of `cJSON.c`: `parse_string`, `parse_hex4`, `print_string_ptr` |
| `CjsonParse` | `cJSON_ParseWithOpts`, `parse_value`, `parse_array`, `parse_object` |
| `CjsonPrint` | `print_value`, `print_array`, `print_object`, with and without a buffer |
| `CjsonText` | composition: printer, `cJSON_Minify`, parser |
| `CjsonWriting` | the reference for `CjsonText`: JSON as others write it |
| `ConfigLoad` | `cJSON_loadfile` and `process_include` |
| `CjsonLookup` | `cJSON_lookup_obj` and the typed lookups, on a loaded document |
| `Config` | composition: loading, then looking up |
| `ConfigReference` | the reference for `ConfigLoad`: a document with its includes done |
| `*MC` | constants for TLC |
| `SimpleUdpProofs` | proofs about `SimpleUdp`: types, `poll()` and the filter; the peer's address; ordered paths |
| `CjsonRoomProofs` | proofs about the functions of `CjsonString` and `CjsonPrint`: lengths of strings, numbers and texts |
| `SimpleIcmp4Proofs`, `TunnelProofs`, `CrypProofs`, `CjsonItemsProofs`, `CjsonTextProofs`, `ConfigProofs` | proofs about the module each is named after |

### SimpleUdp

One action per step at which another thread or the network can interfere.
`mod_send_packet` is `SendBegin` (entry and its early returns), `SendCopy` (one
iteration of the `dup_level` loop: sent, lost, or interrupted, which skips the
advance of `socket_id`) and `SendEnd`. `thr_rcv` is `RcvPoll`, `RcvFrom` (or
`RcvFail`, since a negative result is processed like a datagram), `CopyAddr` (the
unlocked `memcpy` into `peer_addr`, one half at a time) and `Filter` (publish the
length, drop the copy or call `on_recv`). `Restart` is the end of the process at
any point followed by `mod_init`. A payload is its identity; an address is a host
and a port.

Two pieces of undefined behaviour are choices over what the build does.
`from_addr` is a `sockaddr_in` while the sockets are `AF_INET6`: the first
address is cut short (`Junk` may follow the port), and later ones are written
past the variable, which may turn the code byte of the buffer into 0
(`CODE_DATA`). The thread's stack is taken to be fresh zero pages.

The network (`Arrive`, `Duplicate`, `Stray`, `Spend`) is external: each kind of
fault is bounded by `MaxFaults`, and `InOrder` says whether it keeps the order. A
datagram on its way counts as queued at its socket, so `poll()` may flag it at once;
that it is still under way is an execution in which the thread runs later. A stray datagram is of
any kind: data like a peer's, with a serial a peer also uses, of another code, empty, or
one that ends before the code byte and leaves the buffer as it was. Those that
end later, inside the header, are left out, as are datagram lengths and `data_len`; an
endpoint without any socket is in `Tunnel`.

### Tunnel

`pc` holds the position of the three threads. Main goes through `LoadConf`,
`LoadCarrier`, `InitCarrier`, `Register`, `TunAlloc`, `Configure`,
`StartReader`, the `Wait`/pause loop and, after a signal, `StopReader`,
`JoinReader`, `CloseTun`, `StopCarrier`, `FreeContext`, `Unload`, `FreeTunnel`,
`Return`, each in the order of the source; failures of the configuration and of
system calls end the process as `exit`, `abort` or a failed `assert` do. `heap`
tells which object is allocated. A signal is handled by any thread and ends
`pause()` only in main's. A payload is the set of magics by which it has been
encoded an odd number of times, as `dec()` is an exclusive or with a key stream;
`magic` is an arbitrary value because `tunnel_new` never sets it.

Of `simple_udp` the module has what concerns the life of the process: the
receiver thread, the callback, and what becomes of the list of ports. An illegal
port ends the process in `mod_init`; an empty array of ports is accepted, the
receiver then polls nothing, and `mod_send_packet` divides by the number of
sockets once there is an address to send to.

### Cryp

A word is the set of its 1 bits, so that `^` is the symmetric difference and the
rotation adds to the positions modulo `W`; the code has `W` = 64. Every iteration
of the loop is a step. The history variable `stream` records the keys `enc()`
used; the proof compares those of `dec()` with it. The rotation by a multiple of 64 shifts
by 64, which C leaves undefined; a machine yields 0 or the word itself for that shift,
and either way the rotated word is the word, which is what `loop_left_shift` has.

### SimpleIcmp4

As `SimpleUdp`, without the races (the address is copied in one step) and with
`EchoReply`, the answer of a kernel that comes back to the sender's raw socket.
`serial` is the constant it is in the code and `EchoOf`/`SerialOf` are the lossy
`htonl` conversions into 16 bits. Only hosts that are endpoints have a kernel that
answers: a packet to another one disappears.

### CjsonItems and ItemTree

`mem` is the memory: `next`, `prev` and `child` of every cell. The loops that
walk a list are replaced by the item they stop at; each function of `cJSON.h`
that changes an item is one action. `held` is what the caller owns. The caller is
assumed to keep to the contract of the header: it links only items it holds,
never into themselves, does not change a list through a reference and does not
copy a tree with a reference in it. `Bounds` is a set of bounds, one of which an
execution has: how many cells, references and positions, which keys items have and
which of them may be constants. That a constant key is passed to `free()` by `cJSON_AddItemToObject` is not judged:
`free()` is taken to return.

`ItemTree` is the abstract view: a sequence of items per item, their keys, and roots.
It has each operation with its arguments and says what follows from them: an
insertion goes before the item its subscript stands for (below 0 is 0, and past the end is
last), an addition goes last, a key stands for the first item that has it, a
replacement takes the place and in an object the key, a copy has the order and keys of
its original under new items, a deletion takes the tree of the item and nothing else. A
key that `cJSON_strdup` has no memory for is none. `CjsonItemsLink!Lists`, which follows
`next` from the first item to the last, is the refinement mapping; a reference
borrows the list of its original and has none of its own. `ImplementsItemTree` is
more than the refinement: `AsDescribed` says that a step of an operation
is the step of the operation of that name in `ItemTree` with the same arguments, so that
one operation cannot pass as another.

### CjsonString, CjsonParse, CjsonPrint and CjsonText

Texts are sequences of bytes, because parser and printer are about bytes; numbers
are a mantissa and a power of ten. `CjsonString` has what one string literal
becomes: `Decoded` and `Quoted` for the bytes, `StringRoom` and `QuotedRoom` for the
memory that is asked for, computed the way the code computes it.

In `CjsonParse` the C stack of `parse_value`, `parse_array` and `parse_object` is the
sequence `up`; a step handles one value, key, bracket or comma, and wherever the
code calls `malloc` there is the alternative that it fails. `item` is the memory of
the items with their pointers, `live` the blocks that are not freed, so that a
failure frees what `cJSON_Delete` reaches (`Below`, the least set of items that
contains the root and is closed under its pointers) and nothing else.

`CjsonPrint` has both printers: the one that collects the texts of keys and values,
adds up their lengths and composes them, and the one that writes into a buffer it
enlarges with `ensure`, piece by piece, where a failure frees the buffer.

`CjsonText` composes them: a value is printed and the text parsed again; or a text
of somebody else, an element of the constant `Writings`, is parsed as it is or after
`cJSON_Minify`. `CjsonWriting` says how others write a value (white space, escapes,
comments) and gives TLC these texts together with malformed ones; `Write` is the
project's reference for `RoundTrip` and, being recursive, is kept out of `CjsonText`.

### ConfigLoad, CjsonLookup and Config

`calls` is the stack of `cJSON_loadfile` calls under way, each with its document and
the place `process_include` has got to. What parsing makes of a file is the constant
`Content`; a file that exists may still fail for lack of memory. `StackDepth` is the
number of calls the stack has room for. `ConfigReference!Expanded` is the reference:
the document with all its includes done, defined by recursion over the tree and
therefore in a module of its own, which the proofs do not use.

Each tail call of `cJSON_lookup_obj` is a step; a path is a sequence of characters
because the function is about `.`, `[`, `]` and `\`. `Target` is the reference: paths
are built from keys and subscripts, escaped and rendered, and `PathFinds` compares
the function's result, as the typed functions pass it on, with a direct walk. Where the
walk leaves an array and the next segment is a subscript (`Beyond`), it demands the crash
that the code has there. `LookupSafe` is about all paths, well-formed or not: it names
the only places where the function dereferences NULL, reads past the end of the
path, or returns NULL instead of the default. Lookups start when the document is loaded.

## 3. Runs

| Run | Result | Instance and why it is enough |
|---|---|---|
| `udp_any_network` | pass | an active endpoint with two sockets, a passive one; three packets one way, one back (the filter must see serial 0, its first accepted serial and an older one), one loss, one duplicate, one stray datagram of any kind, any order |
| `udp_in_order` | pass, with fairness | three copies, a loss, an interrupted send (either costs a copy) and a failing receive (which does not), order kept; also the refinement of `OrderedDelivery` |
| `udp_restart` | pass | two restarts of either side and one loss; three packets per incarnation |
| `udp_first_packet` | violation | no faults at all |
| `udp_two_ports` | violation | no faults; three packets towards an endpoint with two sockets |
| `tunnel_lifecycle` | pass, with fairness | complete configurations of both carriers and one with each defect (no or unloadable carrier, unknown mode, no addresses, no or illegal ports); two magics; counters stick at 2 |
| `tunnel_payload` | violation | two processes with different `magic` |
| `cryp` | pass | `W` = 3, so the rotations by 0, 4 and 8 differ; all magics; lengths on both sides of the stride |
| `icmp_raw_socket` | pass | one packet in two copies each way, one fault of each kind, all echo replies |
| `cjson_lists` | pass | six cells: a list of three and an item to replace its middle one, an array of two and its copy, trees of depth two, all subscripts up to past the end; four cells with a key, so that items of an object share it; four with up to two references; three with constant keys, and two with a reference as well; also the refinement of `ItemTree` |
| `cjson_text` | pass | values of depth up to four with all kinds of members, strings at every change of length in UTF-8 and next to the surrogates; buffers of 1 and 12 bytes (enlarged often, seldom) and none; all texts of up to four of eleven characters, and valid ones cut off at every place; `malloc` failing anywhere |
| `config` | pass, with fairness | eleven files: includes in objects, arrays, under repeated keys, of missing files, in circles of one and two; then all paths of up to six characters over `. [ ] \ a 0 1`, all well-formed paths of up to three segments and these with the last character cut off, in a document with escaped keys and nested arrays, and paths of four segments in the others |

Deadlock is not checked where the system may stop: the packets of an instance are
used up, the process ends, the call returns. The cells of `CjsonItems` are
interchangeable, which justifies its symmetry set; the refinement checked with it
is a safety property, and its mapping treats all cells alike.

`LostOnlyToNamesake` is what can be said of the filter on any network: another program's
datagram, or a packet of another incarnation, may come with the serial of a packet of the
peer and make the filter take that packet and all its copies for copies of itself. That
this costs a restarted peer one packet at most is `OneFalseDropPerStart`. `udp_in_order`
has no stray datagrams: a short one would leave what `BufferIsLastAccepted` is about,
but a whole one leaves its own serial in the buffer.

**Fairness.** `SimpleUdp!Fairness` and `Tunnel!FairSpec` give each thread weak
fairness: the threads are preemptively scheduled and `poll()` returns after
100 ms at the latest. Nothing is assumed of the network, the device, new packets
or signals. `Config!Spec` gives `Loading` weak fairness: it is a sequential program
that waits for files only. `FurtherSignalStops` has its own premise, that the main thread gets
another signal whenever it waits in `pause()`: without it the property is false,
since a signal between the test and `pause()` is missed.

### What the violations show

* `udp_first_packet`: `serial` and `serial_prev` both start at 0, so the first
  packet of a peer is dropped as redundant with all its copies.
* `udp_two_ports`: with several local ports the scan alternates between sockets,
  the filter sees n, n+1, n, n+1, and every packet is handed over twice.
* `tunnel_payload`: `tunnel_ctx.magic` is never set, so the two ends decode with
  different bytes.

Further differences met while modelling, for which there is no run:

* the README's `MagicWord` has no effect in `simple_udp` (the comparison is
  commented out, `simple_udp.c:315`); in `simple_icmp4` a datagram that ends
  before the magic is judged by the bytes of the one before;
* a passive `simple_udp` endpoint follows the source of every data datagram, not
  of the first one only as the README says (`simple_udp.c:323`);
* the README's minimal configuration has no `Carrier` object and fails the
  assertion at `tunnel.c:126`;
* `simple_icmp4` never increments `serial`, so every packet is dropped;
* a subscript past the end of an array yields NULL, which the tail call passes on
  (`util_cjson.c:143`); a second subscript right behind it then reads `j->type` through it
  (`util_cjson.c:121`), so that a path such as `.a[2][0]` crashes, where the unit tests
  (`util_cjson.c:333`) have the default for a subscript past the end. `PathFinds` demands
  this crash;
* a last subscript past the end makes `cJSON_lookup_obj` itself return NULL instead of the
  default (`util_cjson.c:141`); the typed functions turn it into theirs;
* a path that ends in a backslash is read past its end when the key is there
  (`util_cjson.c:112`);
* `cJSON_AddItemToObject` frees an old key without testing
  `cJSON_StringIsConst` (`cJSON.c:1674`), and the flag can outlive its key;
* the error pointer of the parser stays as it was when a string ends in a lone
  backslash or `malloc` fails, where the comments have it set;
* `process_include` expands strings that are members of an object: neither strings
  in arrays nor those in an object inside an object (`util_cjson.c:33`), and a
  repeated key replaces its first item, which need not be the string;
* files that include each other in a circle recurse until the stack is used up;
* a file of 65536 bytes or more has its terminator written past the buffer
  (`util_cjson.c:69`);
* `cJSON_Minify` goes past the terminating 0 after a string or comment that is not
  closed (`cJSON.c:2161`);
* the buffered `print_object` counts tabs in the variable that holds the offset it
  returns (`cJSON.c:1433`), which does no harm since nobody uses the result of a
  nested call;
* an empty `LocalPort` array with a `RemoteAddress` is accepted and divides by zero
  at the first packet (`simple_udp.c:273`).

## 4. Proofs

All theorems hold for every value of the constants that meets the `ASSUME`s: any
number of endpoints, sockets, copies, faults; any configurations; any word
width; any number of items and any texts. Some have a further hypothesis on the
constants, named where it occurs below, which the constants of some run satisfy.

* **`SimpleUdpProofs`.** `TypeOK` is not inductive alone, since `Tail` of an empty
  queue is no queue: it needs `RecvNeverBlocks`, and `RecvNeverBlocks` needs the
  types. `TypeCorrect` and `NeverBlocks` are proved together from
  `TypeOK /\ RecvNeverBlocks`; the lemmas `ArriveQueues` and `TakeQueues` say what
  an arrival and a receive do to the queues. `NoDuplicateNextToItself` and
  `FilterLosesOnlyToNamesake` rest on `FilterInv`, which adds `SerialPrevIsLast` (the one
  serial the filter remembers is that of the last packet delivered), that every
  serial but 0 that reached the filter has been delivered, and that nothing else has: so of
  the packets with one serial one was delivered, and a packet alone with its serial is
  that one.
  `AddressHeals` has no hypothesis; its invariant, `HealInv`, is that the first data
  datagram makes `from_addr_len` large enough for the second, which puts a whole address
  into `from_addr` and, when it is copied, into `peer_addr`.
  `PublishedAddress` assumes `Configured`: each endpoint is passive, or has a port
  configured and no failing `recvfrom`, since one that fails before the first datagram
  has an address copied that nobody wrote. `WriteInv` ties the length to the half of the
  `memcpy` that is done. `BufferIsStale` assumes that nobody but the peer sends
  (`MaxFaults["stray"] = 0`): a stray datagram leaves its serial in the buffer and not in
  the filter. `BufInv` says that the two agree between two datagrams.
  The last section is about paths that keep the order (`OrderedPath`: nothing is
  duplicated or comes from elsewhere, partners name each other, an address is none or
  the partner's, and a sender of packets faces a single socket; with two sockets the
  filter fails, see `udp_two_ports`). `OrderInv` says that between the datagram in an
  endpoint's buffer and the packet its partner is at, the queue is in the order of
  sending, by incarnation and serial; `SoundInv`, that of each incarnation at most one
  packet was taken for a copy, and why the next one will not be: the filter remembers a
  packet of the incarnation in the buffer as soon as it has seen one. `OneDropPerStart`
  follows for any number of restarts. `DeliveredInOrder` (from `IncreaseInv`) and
  `LinkImplemented`, which shows for each action which step of `OrderedDelivery` it is, or
  that it is none, assume in addition that nobody restarts, as the serials start again.
* **`SimpleIcmp4Proofs`.** `TypeCorrect` is inductive as it stands. `EchoesAreDropped`
  and `PeersHaveMagic` rest on `MagicInv`: as long as no datagram was cut short, those on
  their way are another program's without the magic, or an endpoint's, or its echo,
  with the serial 0, which the filter remembers from the start. A datagram that ends
  before the magic is judged by the one before, and is excepted in both properties.
* **`TunnelProofs`.** `LifeInv` ties the position of main to what is allocated,
  open and running: a thread exists only from its start to its join, and each
  object is live in between. `UseBeforeFree`, `ReaderHasDevice` and `CrashWindow`
  follow. The last needs that `on_recv`, once set, stays set. `TypeCorrect` is
  inductive as it stands. `LoopGivesBack` and `WrittenIsCounted` rest on `PacketInv`:
  only one thread runs `cb_recv` (which one depends on the carrier), with `loop` it
  has a packet encoded once, and a packet is written and not yet counted only while
  that thread is between the two; `LifeInv` then says that no thread is there when
  main has returned.
* **`CrypProofs`.** `DecUndoesEnc` rests on `KeysInv` (the keys of a pass depend on
  the magic only, not on the buffer, so `dec()` derives the keys `enc()` used) and
  `WordsInv` (which words are encoded at the moment); `WrongMagic` on
  `FirstWordInv` (two different magics never cancel out in the first word).
* **`CjsonItemsProofs`.** Five properties of `CjsonItems` follow from `ForestInv`:
  the lists are well linked, no two arrays or objects that are not references share one,
  what is held is in none, and the items the caller holds lead to every allocated one
  (`Forest`); free cells point nowhere, and a key that is constant is
  flagged (`Keys`). Hardly any of it is inductive alone: that an insertion makes no
  cycle needs that what is inserted is held and therefore not in the list, and that
  `cJSON_Delete` keeps the rest needs that nothing else leads into what it frees. Lists and
  trees are least closed sets, so that instead of an induction each lemma exhibits a
  set that is closed; that a list has a last item is a pigeonhole argument
  (`OntoItself`), for which the assumption that there are finitely many items is needed.
  `ListsImplementItemTree`, the refinement of `ItemTree`, rests on `ListInv`: what is read
  along `next` are finite sequences that the pointers spell (`Spelled`). Two lists that
  start alike are equal (`SpellsOne`), no item is in two places (`SpelledOnce`), and every
  allocated item the caller does not hold is in some list (`SpelledAll`); a first place
  where this fails leads to a contradiction (`Least`), so that no induction rule is
  needed. From this follows that the recursive function of the mapping exists and
  has these sequences as its values (`FollowsExists`, `FollowsNext`, `FromIs`), that the
  item the code finds for a subscript or a key is the one of `ItemTree!Subscript` and
  `ItemTree!Named` (`SubscriptIs`, `NamedIs`), and that what `cJSON_Delete` frees is the
  tree of the abstract item (`BelowIsTree`). Then one lemma per change says what
  the pointers do to the sequences (`PutSpelled`, `TakeSpelled`, `SwapSpelled`,
  `DropSpelled`, `NewSpelled`) and one per operation that it is, with its arguments,
  the operation of `ItemTree` (`AddItemToArrayIs` ... `DuplicateIs`), which `StepAsDescribed`
  collects.
* **`CjsonTextProofs`.** `FailureFreesAll` rests on `ParseInv`: whatever set contains the
  root and all that its members point to contains every item (`Reached`), every string
  has one place (`Kept`), the item being filled has no value, key or
  list to lose in the mode the parser is in (`Fresh`), and the items around it were
  allocated before it and have no successor yet (`Nested`), so that going back to one of
  them loses nothing either. `PrinterKeepsText` rests on `PrintInv`: the blocks that
  are not freed are those of the frames (`Owed`, a running sum over them) and the text
  just returned or, with a buffer, the buffer as long as it is there.
  `ParserFits` and `PrinterFits` bring the room lemmas below to every state. For the
  parser all it takes is that `text` is a sequence, since `StringFits` holds at every
  place of every sequence. For the printer, `FitInv` says what the printer relies on when it
  composes: each frame has as many keys and values as it has done, none longer than its
  room (`Waiting`, and `Ready` for the frame being worked on); and with a buffer, that no
  byte has strayed, and that a value just printed ends in a 0 at or after the offset,
  with nothing unwritten before it, which is what makes the `strlen` of `update` safe.
* **`CjsonRoomProofs`.** `StringFits`, `QuotedFits`, `LeafFits` and `TextFits` compare
  what the code writes with what it asked for, for every string, number, array and
  object. Both are recursive functions of the text. The proofs need no induction rule
  with an operator parameter: a set of numbers has a least element (`Least`, by the
  pigeonhole principle), a recursive definition along a function that descends has
  exactly one solution (`Recursion`, `RecursionType`), and an induction is a
  contradiction at the least counterexample. `StringFits` goes backwards through the
  string: what is decoded from place k on is no longer than the number of places from
  k on that are not skipped in the count (`Counted`). `UnitIs` is the step: an escape
  ends inside the string, not behind a backslash, and has one counted place for each
  of its bytes (a surrogate pair has at least four).
* **`ConfigProofs`.** `LookupIsSafe` rests on `LookupInv`: what is left of the path is an
  end of the path passed in (`IsRest`), `j` is NULL only right behind a subscript, and an
  outcome is as `LookupSafe` says. One lemma says that the rest of a rest is a rest
  (`RestOfRest`), one that the subscript just read ends where the rest begins
  (`EndsHere`). It holds for every document, hence without any invariant about loading.

The assumptions on the constants say what they stand for: `ValuesAssumption` (a string is
of bytes other than 0, an integer fits into an `int`), `TreesAssumption` (what is printed
are such values), `PrebuffersAssumption` (the size `cJSON_PrintBuffered` is called with is
not negative), `WritingsAssumption` (texts are of bytes other than 0),
`LookupAssumption` (paths are sequences of characters; `NULL` and the default are no
nodes), and the others that counts are natural numbers and marks are not addresses.

Only model-checked, and why:

* liveness (`EveryPacketArrives`, `ShutdownCompletes`, `FurtherSignalStops`,
  `LoadReturns`), which is beyond the prover;
* `RoundTrip` of `CjsonText` and `IncludesExpanded`: their references `Write` and
  `Expanded` are `RECURSIVE` operators on trees, which no module with a theorem may
  use, and relate a whole run of the parser, or of the loader, to a tree;
* `PathFinds`: paths are rendered and read with `ToString`, and escapes removed with
  `SetToSortSeq`, about which the provers know nothing.

## 5. Not modelled

* What floating point makes of a number (`pow` in `parse_number`, the formats of
  `print_number` for other numbers than integers), and the `printf` handler of
  `util_cjson.c`, which only prints.
* Lengths: of datagrams against `data_len`, of packets against 65535 bytes, byte
  counters, `in_cksum`; `tunnel_statics`, which nothing calls, and `util_time.c`,
  whose result nothing uses.
* What `cJSON_Minify` does with memory after its text, and the byte after the buffer
  of `cJSON_loadfile`.
* The C stack that `parse_value`, the printers, `cJSON_Delete` and `cJSON_Duplicate` use
  for each level of nesting; only that of `cJSON_loadfile` has a bound.
* The protocol in `protocol.h` (hello, ping, FEC), which no code implements.

## 6. Plan

1. Lengths of datagrams in `SimpleUdp`, for `data_len`.
2. Weaker hypotheses for the theorems about ordered paths (a sender that is restarted
   once its packets have all arrived).
