# TLA+ models and proofs of the WCH11P driver

WCH11P is a proof-of-concept Linux driver for an NXP/Cohda 802.11p modem
("MKx"). It registers two mac80211 devices, one per radio of the modem (A and
B), and translates between mac80211's callbacks and the modem's LLC API. The
code is small, takes no lock (every `spin_lock` is commented out) and is called
from five sides: insmod/rmmod, mac80211's control paths, mac80211's transmit
path in interrupt context, the kernel's work queue, and the LLC's threads. What
can go wrong is almost entirely a matter of order, which is what the modules
here are about.

At this commit the code does not compile as it stands: `WCH11P_tx` uses
`chanctx_conf` and `channel` without declaring them, `WCH11P_get_stats` has a
syntax error, `adaptBSSID` is static in another file, `mac80211-ops.c:483` ends
a comment that was never opened. The models translate the statements as written.

## Inventory of the system

| Component | Source | State | Operations |
|---|---|---|---|
| Transmit path | `mac80211-ops.c:32-151`, `wch11p-ops.c:78-88` | one `sk_buff` and one `devWork` per frame | `WCH11P_tx`, `WCH11P_TxWorkCallback`, `WCH11P_TxCnf` |
| Module life cycle | `netdriver.c:160-299`, `util.h` | `HW.pMKx`, `pMKx->pPriv`, the callbacks, `radio[].pMacDev`, `HW.status` | `WCH11P_init` with five failure labels, `WCH11P_exit` |
| Radio configuration | `mac80211-ops.c:153-239, 304-349, 401-467`, `netdriver.c:41-75`, `radio.h` | the fields of `struct radio`, the LLC's `Config.Radio[]`, `result()` | `start`, `stop`, `config`, `bss_info_changed`, `set_antenna`, `get_antenna` |
| Receive path | `wch11p-ops.c:14-76` | receive buffers | `WCH11P_RxAlloc`, `WCH11P_RxInd`, `WCH11P_NotifInd` (does nothing) |
| Interface and filter | `mac80211-ops.c:241-288, 469-504` | none kept | `add_interface`, `remove_interface`, `configure_filter` |
| Channel contexts, survey, statistics | `mac80211-ops.c:290-302, 351-399, 506-610` | none kept | not in the operations table (`netdriver.c:76-85`), never called |
| Band and rate tables | `netdriver.c:86-158` | constants | none |
| Debug output | `debug.c`, `debug_ieee80211.c` | strings allocated per call | `display_*`, `shrink`, `dump_buffer` |
| Build files | `Makefile`, `wireless-stack.h`, `compile_commands.json` | none | none |

How they interact:

* mac80211 calls the driver through `mac80211_ops` from the moment
  `ieee80211_register_hw` returns, which is in the middle of `WCH11P_init`.
* `WCH11P_tx` may not sleep and `TxReq` may, so the frame travels to `TxReq`
  through a work item on the system work queue. The item points to the radio,
  and through it to the device and the MKx handle, and runs at any later time.
* The LLC calls `RxAlloc`, `RxInd` and `TxCnf` from threads of its own, from the
  moment `WCH11P_init` fills in the callbacks until `WCH11P_exit` clears them.
* Each radio's configuration exists twice: in the LLC and in `struct radio`.
  Callbacks copy the first, overwrite some fields from the second and push it.

What is hard, and what makes each part correct:

* Transmit path: the duty to free a frame moves from `WCH11P_tx` to the work
  item to the LLC by the order of calls alone, and the next owner may be done
  before the previous one has seen the call return. Correct is: freed exactly
  once, on every path, and never while somebody still uses it.
* Life cycle: any statement of `WCH11P_init` may fail, while interfaces are
  already up. Correct is: what is released was held, in the reverse order, and
  nothing remains of a failed load; a callback and a work item find what they
  dereference.
* Contents of frames: sender and receiver are the same code on two machines, and
  each counts header, frame and check sum for itself. Correct is: no buffer
  operation leaves its buffer, and what one radio's mac80211 was given arrives at
  another's as it was, with what its modulation says of its rate and with the
  frequency it was heard on.
* Radio configuration: whole-record read-modify-write without a lock, failing
  pushes that are not rolled back. Correct is: what the LLC has is what the
  driver noted, and the radio is on exactly while its interface is up.

`PROJECT.json` lists each hazard at its line, with the properties that watch it.

## Modules

| Module | Models |
|---|---|
| `TxPath` | the transmit path, for a set `Skbs` of frames |
| `FrameLife` | abstract: a frame is with the stack, the driver or the radio, and is released once |
| `TxRefinement` | the mapping under which `TxPath` implements `FrameLife` |
| `Skb` | an `sk_buff` as the driver moves in it: memory, offset and length of the data (external) |
| `Link` | a frame's contents from the mac80211 of one radio to that of another |
| `MCLink` | `Link` with two radios, one loaded with `adaptBSSID`, for TLC |
| `LinkProofs` | theorems about `Link` |
| `TxPathProofs` | theorems about `TxPath` and the refinement |
| `Lifecycle` | loading and unloading, with interfaces and receive callbacks beside |
| `LifecycleProofs` | theorems about `Lifecycle` |
| `Driver` | `Lifecycle` and `TxPath` together: frames sent on interfaces that come and go |
| `MCDriver` | `Driver` with one frame per radio, for TLC |
| `DriverProofs` | theorems about `Driver` |
| `RadioConfig` | one radio's configuration in the LLC and in `struct radio` |
| `RadioConfigProofs` | theorems about `RadioConfig` |
| `DebugStrings` | the strings the callbacks build of their arguments: length, allocation, freeing |
| `DebugProofs` | theorems about `DebugStrings` |

An operator named `X_Mistake`, placed before `X`, is `X` with a mistake a
programmer could make at that place. No action uses it; it records which property
would notice it. `PROJECT.json` pairs each property with one.

### TxPath

The state of a frame `s` is four functions. `tx[s]` is how far `WCH11P_tx` has
come: `"queued"` and `"refused"` are the moments after `schedule_work` has
returned 1 or 0 and before its result is tested (139). `work[s]` is the work
item: `"orphan"` is one that was allocated but is on no queue, which the code
never frees. `llc[s]` is whether the LLC holds the frame. `frees[s]` counts
calls of `dev_kfree_skb`.

`TxNoChannel`, `TxNoMemory`, `TxSchedule` and `TxNotScheduled` are the four ways
through `WCH11P_tx` (121-140), `TxReturn` the rest of it. `TxWorkPrepare` is the
callback up to `TxReq`, `TxReqAccept` and `TxReqReject` the call itself, which
happens inside the LLC, and `TxWorkFinish` the test of its status, `Error` and
`Exit`. Accepting and returning are two steps because the confirmation may come
in between. Header, rate and contents are in `Link`.

`TxRefinement` maps a frame to its place in `FrameLife`: with the stack until
`schedule_work` took it or it was dropped, with the driver until `TxReq` accepts it,
then with the radio until the confirmation frees it. A frame that was confirmed and
not freed stays with the radio: in `TxPath` that cannot happen, in `Driver` it can.

### Link

Several machines with this driver, in reach of each other. The part of
`WCH11P_TxWorkCallback` that `TxPath` leaves out is here: push of the header, the byte
of `adaptBSSID`, length and rate; `TxPath`'s part, who frees the frame and which
calls fail, is left out in turn. `WCH11P_RxAlloc` and `WCH11P_RxInd` are one action
each. `Transmit` is the LLC and the air: `air` only grows, so that a frame is heard
late, again or never. `WCH11P_config` is kept to its channel: what more it does is
in `RadioConfig`.

Buffers are size, offset and length (`Skb`); memory is known by the offset at which
somebody put a frame. `Reads` yields the frame only to who looks for it there and with
that length, so that a header left before it, a check sum left behind it or a byte
written into the header shows. Of a frame's bytes only the first of its third
address is told apart, which `adaptBSSID` overwrites (`mac80211-ops.c:50`, before the
push).

`Handed` has exactly the headroom `WCH11P_init` asked for and no more; `Spare` lets an
LLC ask for a larger receive buffer than it needs. `retuned` is a history variable: was
the radio retuned between the reception and `WCH11P_RxInd`, which reads the frequency
only then? `OBUMCS` are the modem's numbers for the modulations, from a header that
is not in the repository: any bytes (`OBUMCSAssumption`). `wch11p-ops.c:55` takes for
granted that they begin at 10 and rise with the table; the model does not, and
`rate_idx` is a difference in an unsigned byte.

### Lifecycle

`pc` is the next statement of `WCH11P_init`, a label of its unwinding, or the next
statement of `WCH11P_exit`. Each resource has a small life (`null`, `alloc`,
`registered`, `unregistered`, `freed`) and becomes `corrupt` when a release finds
it in another state than the release needs. Each fallible call has a success and a
failure; the assertion at 172 has a third outcome, success without a handle,
because `GOTO_ASSERT` stores `RET`, which is then 0. `BadMKxComm` (250) is a label
no statement jumps to.

Beside the loader, `WCH11P_start` and `WCH11P_stop` bring the interface of a
registered device up and down, and the LLC calls `RxInd`: `RxBegin` is the moment
the LLC has read the callback, `WCH11P_RxInd` the function's body. `refused` is a
history variable: whether the LLC ever refused a `Config` call. The callbacks that
change a radio's configuration without starting or stopping it are left to
`RadioConfig`; that they are nothing to `Lifecycle` is proved
(`RadioImplementsLifecycle`).

### Driver

Adds to the two modules only what couples them: `WCH11P_tx` runs while the
interface is up; the work item needs the device for the rate lookup and the
handle for `TxReq`; a confirmation finds the callback set or `NULL`. A worker that
would dereference what is gone faults and takes no further step: nothing is
claimed about a kernel after that, and `UnloadedIsQuiet` shows the case.

The composition implements both specifications it is related to: `Lifecycle`, whose
variables its transmit steps leave alone, and `FrameLife`, although not `TxPath`,
since a confirmation that finds no callback is a step `TxPath` does not have.

### RadioConfig

One radio; the two share no state here. `radio` is the LLC's record, `shadow` the
fields of `struct radio`, `Cfg[c]` the local copy of a call in progress. `start`,
`stop`, `set_antenna` and `get_antenna` are single steps, `bss_info_changed` three
(note, copy, push), `config` four (and return), since others may run in between.
`Config` either takes the whole record over or returns an error and changes nothing.
`result` is the radio's `result()`, one field for all calls: `config` returns what is
in it by then (`mac80211-ops.c:465`), not what its own push put there (458).
`overlap`, `refused` and `queried` are history variables that state the conditions
under which a property is promised: two calls overlapped, a call was refused, and
nothing has settled it since; `get_antenna` ran between the two lines. A `config` call that begins alone ends an overlap, for it copies
both fields anew; a start, a stop or a `config` call that runs alone and succeeds ends
what a refusal left behind. The module begins after a load that left the radio off;
a "Disable" that fails, or that comes late, is in `Lifecycle`.

### DebugStrings

A stack machine for the tree of display functions a callback calls in a build with
`DEBUG`, which the Makefile sets. Each display function is one definition: the parts
it asks other functions for, the length of its own text, the size of its buffer,
which of its parts it frees, and whether it shrinks. A string is a length, the size
of its allocation and a pointer; `heap` is the set of pointers allocated, and a pointer
is the number of the `kmalloc` that returned it (`kmallocs` counts them) and the
function that asked for the string.

`Descend` and `DisplayNull` are the call for a part whose argument is there or `NULL`,
`sprintf` the `kmalloc` and printing, `Return` the `kfree` of the parts and `shrink`,
`Destroy` the end of the callback's use of its strings. `shrink` either allocates,
copies and frees what it copied from, or finds no memory and returns what it was
given. What one callback leaves in the heap is not followed into the next. The
contents are left out; a length is what was counted in the layout plus the widest each
conversion prints for its type. `WCH11P_start` displays the same as `stop`, `config`
and `configure_filter` and stands for them, `WCH11P_add_interface` for
`remove_interface`.

## What is assumed of the environment

The code outside the repository is modelled from how the driver uses it:

* mac80211 calls `tx` only on an interface that is up, and waits for running
  calls before `stop`; sets antennas only while the device is stopped; makes the
  first `config` call after `start` with all flags set, and ignores its error.
  `config` and `bss_info_changed` may overlap, and `get_antenna` answers a query at
  any time: nothing in the driver prevents either.
* `ieee80211_unregister_hw` closes the interface, and thereby calls `stop`.
* The LLC may confirm a frame before `TxReq` returns, passes over a callback that is
  `NULL` (the driver leaves `DebugInd` and `C2XSecRsp` so), and changes its
  configuration only in `Config`.
* A frame of mac80211 has three addresses, so at least 24 bytes, and the headroom
  the device asked for. The LLC asks `RxAlloc` for at least header, frame and check
  sum, writes them in this order to the data, and says so in `Hdr.Len`; it sends
  `TxFrameLength` bytes from behind the header, on the channel the radio has by then,
  and hears what is sent on its own channel. The code tests none of this.
* `mgmt_stypes` is set, addresses of kernel structures are multiples of four. Of the
  numbers of the modulations only that they fit a byte.

## Runs

| Run | Module, cfg | Checks |
|---|---|---|
| `tx_path` | `TxRefinement` | `TypeOK`, `NoDoubleFree`, `NoUseAfterFree`, `NoLeak`, `EveryFrameFreed`, `ImplementsFrameLife` |
| `lifecycle` | `Lifecycle` | `LifeTypeOK`, `ReleasedInOrder`, `AllOrNothing`, `RxFindsRadio`, `RadioOffWhenReleased`, `OnlyDisableSilences` |
| `driver` | `MCDriver`, `Driver.cfg` | `NoUseAfterFree`, `WorkFindsDriver`, `NobodyWaitsInDriver`, `LostOnlyComingOrGoing`, `EveryFrameLeaves`, `ImplementsFrameLife` |
| `radio_config` | `RadioConfig` | `RadioTypeOK`, `AntennasAsReported`, `OnWhileStarted`, `RadioFollowsShadow`, `PowerChosen`, `ConfigReturnsApplied` |
| `link` | `MCLink`, `Link.cfg` | `LinkTypeOK`, `BuffersFit`, `DeliveredAsSent`, `FreqAsHeard` |
| `debug_strings` | `DebugStrings` | `DebugTypeOK`, `TextFits`, `StringsLive`, `OnlyStationLeaks` |

What they show:

* `tx_path`: whichever of `WCH11P_tx`, the worker and `TxCnf` comes first, a frame
  is freed once, not while anyone uses it, and in the end; a frame the radio
  accepted is released by the confirmation alone.
* `lifecycle`: every jump of `WCH11P_init` lands on the label that releases what is
  held, nothing is left after a failed load or an unload, a receive callback
  before the unload finds what it dereferences, and the radios are silent when
  their devices go although `WCH11P_exit` never says so. `up_means_on` shows an
  interface that is up without its radio; `OnlyDisableSilences` shows the full extent
  of it: whatever fails or is refused, that takes `WCH11P_init`'s "Disable" of that
  very radio, and no other statement does it.
* `driver`: the frame properties survive composition with a driver that comes and
  goes. A work item loses its device before the unload in one case only: the
  registration of radio B fails while an interface of radio A has frames under
  way; `WCH11P_tx` itself loses it in none. Until the driver goes, whoever has a frame finds what it needs to go on
  (`NobodyWaitsInDriver`): a loaded driver never faults in a work item, and no frame
  gets stuck. None is ever freed out of turn or twice (`FrameLife`), the lost
  confirmations included. `confirmed_freed` shows a frame that is lost, and
  `LostOnlyComingOrGoing` says when that can happen at all, where lost is a frame not
  freed that nobody can free any more. Either the LLC has it, and is done with it
  before `netdriver.c:227` sets the callbacks, or the registration of B fails (no
  callbacks will be set), or 283 clears them: all frames the LLC holds by then are
  lost at 283 at the latest, before `MKx_Exit` closes it. Or a work item has it, queued
  or on its way, when the loader frees the item's device or closes the handle it needs;
  or the item hands it to an LLC that will find no callback any more, because the load
  failed or 283 is past.
  `WCH11P_tx` loses none, and nobody loses one of a driver that is loaded.
* `radio_config`: the antennas always agree, and the radio of a started device is on,
  whatever is refused and whatever overlaps. That of a stopped device is off, unless
  a refusal has not been settled. Channel and power are those noted unless calls
  overlapped or one was refused, and one `config` that changes something, runs alone
  and succeeds repairs both: the harm of the missing locks and of the missing
  roll-back is not for good. What `config` returns says as much, except when
  `get_antenna` resets `result()` between its push and its return: mac80211 is then told
  that a refused change was made, and `ConfigReturnsApplied` leaves out just this. The
  noted power begins as the marker `OBU_POWER_TX_DEFAULT`, and no push brings the
  marker to a radio that is on: a `start` puts a number there, and the first `config`
  notes one before `bss_info_changed` can push what was noted.
* `link`: header, reserve and check sum are counted alike by who allocates, who
  writes and who strips. What arrives was sent, from its first byte to its last, with
  the frequency it was heard on unless its own radio was retuned before `RxInd`;
  retuning the other radio does no harm. The rate index is worked out from the
  modulation of that very frame; it is the index the sender chose if the modem numbers
  the modulations from 10 (the corollary `RateAsChosen`), and with the numbers of the
  run, those of 802.11, it is another. Of the byte a sender with `adaptBSSID` overwrites
  nothing is claimed: see "Where code and text disagree".
* `debug_strings`: every text but one fits its buffer, which nothing in the code
  measures, for any values of the fields. The one is
  `display_struct_ieee80211_tx_info_1_1`: it repeats the longest text of the interface,
  with its two channels and five `%d` in each, and can come to 2085 characters, with
  the terminator 38 more than its 2048 bytes and never more than that (`Overrun`). It
  takes values no driver is likely to set: at 2015, with levels of at most four
  characters, it fits. Every string is allocated as long as somebody has yet to print or
  to free it, no two functions free the same, and whoever asked for a string frees it,
  whether `shrink` found memory or not: only `display_struct_ieee80211_sta` forgets its
  two, so each frame to a known station loses two allocations.

Bounds. Frames share no state but the driver's life, so two show every
interaction; `tx_path` has three, 8000 states. `MCDriver` puts one frame on each
radio, as A can send while `WCH11P_init` still runs and B hardly can. `RadioConfig`
has two frequencies, two powers and two antenna masks: enough for a stale copy to
differ from the current one in each field. `MCLink` has two radios (a sender and a
receiver, both ways), two frames and two receptions (they can be confused, reordered,
or the same frame heard twice), two channels, the shortest length and a longer one, the
first rate and one whose number is below 10, so that the subtraction wraps, receive
buffers of the right size and larger, and header sizes
that differ from each other. No counter needs a bound: `frees` is
kept at 1 by the property that is checked. `DebugStrings` is finite as it is, 18000
states: a callback allocates a bounded number of times. It has no constant but the display functions themselves, so TLC's search is the whole
of what the model can do.
Deadlock is checked where the system cannot stop (`RadioConfig`, `Link`,
`DebugStrings`); elsewhere all frames may be done, or the module gone.

Fairness, in `TxFairSpec` and `DriverFairSpec` only: weak fairness of the functions
once entered, of the work queue, which runs every item it accepted, of the LLC's
confirmation, which `mac80211-ops.c:88` relies on, and of insmod. Nobody has to
send, to bring up an interface or to unload, and no strong fairness is used. It is
stated per frame (`FrameFairness`, `DriverFrameFairness`). Weak fairness would demand
nothing of an action that is never enabled. In `TxPath` the guards of the three are
all there is to them; in `Driver` a device or a handle may be missing, and
`NobodyWaitsInDriver` checks that each can go on when its turn has come.

### Where code and text disagree

Each of these runs checks one statement of the source and finds it violated:

| Run | Text | What the code does |
|---|---|---|
| `callback_priv` | `netdriver.c:281` "Used in callbacks" | `WCH11P_exit` clears `pPriv` before the callbacks, and under a running `RxInd` |
| `up_means_on` | `mac80211-ops.c:168` "Setup radio as {A\|B}0 on frequency" | an interface brought up between 218 and 246 has its radio switched off by `WCH11P_init` |
| `loaded_handle` | the assertion at `netdriver.c:172` | its second half fails with status 0: the module is loaded without a handle |
| `confirmed_freed` | `mac80211-ops.c:88` "pSkb freed in TxCnf() callback" | a frame of radio A confirmed before 227 meets a `NULL` callback and is never freed |
| `unloaded_quiet` | `netdriver.c:293` "unloaded succesfully" | a work item is still queued; nothing flushes or cancels it |
| `tx_sleeps` | `mac80211-ops.c:130` "We are on interrupt context and TxReq might sleep" | `WCH11P_tx` displays its arguments before that, with allocations that may sleep |

Divergences that need no run:

* The module parameters `chanFreq` and `antenna` (`netdriver.c:25-31`) are never read.
* `adaptBSSID` is described as "Translate first byte of BSSID between 0xF2 and 0xFF and
  back" (`netdriver.c:36`). The code writes 0xFF over whatever byte is there, without
  looking for 0xF2 (`mac80211-ops.c:49-50`), and the way back is commented out
  (`wch11p-ops.c:65`): a receiver's mac80211 gets 0xFF. `DeliveredAsSent` claims the byte
  of senders without the parameter only.

## Proofs

TLAPS proves, for any set of frames, any assignment of frames to radios, any
frequencies, powers and antennas, and any lengths and sizes of headers:

* `TxPathProofs`: `TypeOK`, `NoDoubleFree`, `NoUseAfterFree`, `NoLeak`,
  `TxSpec => ImplementsFrameLife`, and that every frame is freed. The invariant
  `FrameCore` ties the three parties together for one frame: at each stage of the work item, where
  `WCH11P_tx` and the LLC can be, and whether the frame has been freed.
  `NoUseAfterFree` alone is not inductive: it does not say that an accepted item and
  a refused `schedule_work` exclude each other. `CoreStep` states it for one frame
  and one step, without the driver around it, so that `DriverProofs` uses it again;
  `NoLeak` needs in addition that a confirmed frame was freed, which holds in `TxPath`
  and not in `Driver`.
* `LifecycleProofs`: all six properties of `lifecycle`. The invariant says of each
  value of `pc` what is held there (`Held`) and where receive callbacks and
  interfaces can exist at all (`Beneath`). `RadioOffWhenReleased` needs one thing
  more, `OffWhenDown`: from the statement that switches a radio off until the end,
  a radio that is on has its interface up. `OnlyDisableSilences` goes through the
  statements of the loader and the calls beside it one by one.
* `DriverProofs`: all six properties of `driver`, `NoDoubleFree` in the composition,
  and `DriverSpec => LifeSpec`, with which the properties of `Lifecycle` hold with
  frames in flight. `DriverInv` adds that a frame with a work item was sent
  on an interface that was up, which pins down where the loader can be from then on
  (`UpPcs`) and with `Held` what it still holds; and that an interface stays up under a
  call of `WCH11P_tx` (`UpInCall`).
  `NobodyWaitsInDriver` rests on `GoesOnWhileStaying`, which reads off from it where
  the loader can be while somebody has a frame. For `LostOnlyComingOrGoing` the steps
  are two kinds: one of the loader or an interface (`LostByLife`), under which a frame
  with a work item loses its way only where `StrandedPcs` says (`Strands`) and one with
  the LLC only where `UnheardPcs` says (`Unhears`); and one of a frame (`LostByFrame`).
  `HeldWhere` and `OpenWhilePresent` say where the loader can be in each case.
* `RadioConfigProofs`: all six properties of `radio_config`. `RadioInv` adds what a
  call in progress carries: its copy agrees with the shadow in the antennas and has the
  radio on always, and agrees in channel and power unless calls overlapped; and that the radio has what
  `config` pushed, as long as `result` can be relied on. For
  `PowerChosen` a second invariant, `PowerInv`: nobody pushes the marker, neither from
  the shadow nor from a copy. `RadioImplementsLifecycle` relates the module to
  `Lifecycle`: with interface and mode mapped, each of its steps is a `WCH11P_start`,
  a `WCH11P_stop` or a stutter there. That a push never moves the mode is the part
  that needs `RadioInv`.
* `LinkProofs`: all four properties of `link`. `LinkInv` ties everything in the air
  (`AirInv`) and every packet received (`PacketInv`) to the frame it came from, and
  every buffer to its packet (`BufferInv`); none of the properties remembers that.
  Below it are lemmas on one buffer: `PushedFrame`, `TransmittedFrame`, `BufferOf`,
  `Stripped`; and on the rate, `RateNumber` and `RateIndex`. `RateAsChosen` has the
  numbering from 10 as a hypothesis of its own, which no other theorem uses.
* `DebugProofs`: all four properties of `debug_strings`. Each display function has a
  bound, `Longest`; `Rows` checks it against the function's own text and the bounds
  of its parts, and against its buffer and its `Overrun`. `DebugInv` has two halves.
  `FramesInv` says of each place on the stack that the text is within what the parts
  held so far allow, and that what is above it displays its next part; `TextFits` alone
  says nothing of texts not yet printed. `HeapInv` says that every string on the stack
  is an allocation of its own, made for the function that has it, with a number
  `kmalloc` has given, and that nothing else is allocated but what was for a station:
  the number makes the next pointer a new one, and whom it is for makes what `Return`
  frees exactly what the function asked for. A change to one display function is
  checked by its row and those of its callers.

The only assumptions are the named ones in the modules: `RadioOfAssumption`,
`ConstantsAssumption` (frequencies, powers and masks are numbers), `LinkConstants`
(lengths and sizes are natural numbers, frames have 24 bytes, rates are indices into
the table) and `OBUMCSAssumption` (the modulations' numbers fit a byte).

Liveness. `TxEveryFrameFreed` and `DriverEveryFrameLeaves` prove the two liveness
properties. A frame passes through six stages (`FrameRefused`, `FrameQueued`,
`FramePrepared`, `FrameRejected`, `FrameHeld`, `FrameFreed`); no step of anybody moves
it but to the next (`StageStep`, `DriverStageStep`), and the step that is fair there
does (`StageMoves`, `DriverStageMoves`). What remains is that this step is enabled, and
`ENABLED` the provers cannot expand. So it is a hypothesis:

* `TxEveryFrameFreed` assumes `[]TxGuardsEnable`, `DriverEveryFrameLeaves` assumes
  `[]GuardsEnable`, and no more than this is taken: that `WCH11P_tx`, work item and
  confirmation are enabled where the guards written in `TxReturn`, `TxWork` and `TxCnf`
  (in the driver: in `DriverWork` and `DriverConfirm`) hold. Each follows from the
  definition by naming the successor, so it is no property of the code and no run
  repeats it; TLC finds both true of the instances.
* That the guards do hold in `Driver` while it stays, which is what could be wrong (a
  device freed, a handle closed), is proved: `DriverNobodyWaits` derives
  `NobodyWaitsInDriver` from `[]GuardsEnable`.

Only model-checked, on the instances of the runs and not for every set of frames: these
two hypotheses.

## Plan

Done, in this order: `TxPath` with its refinement and proofs, `Lifecycle` and proofs,
`Driver` and proofs, `RadioConfig` and proofs, `DebugStrings`; then `Link` and proofs, the power marker in `RadioConfig`, that `Driver` implements
`Lifecycle` and `FrameLife`, and the proofs about `DebugStrings`; then how far the
divergences go (`OnlyDisableSilences`, `LostOnlyComingOrGoing`, the repairs in `RadioConfig`),
the proofs of liveness, and that `RadioConfig` implements `Lifecycle`.

Left:

1. `Link` composed with `Driver`, for frames heard while the driver goes. `RxFindsRadio`
   already says when `WCH11P_RxInd` finds its device.
2. `RadioConfig` from any state a load can leave the radio in. The two radios have
   records, shadows and `result()` of their own, so a second one would add nothing.

## Not modelled

* Channel contexts, survey and statistics are not in the operations table
  (`netdriver.c:76-85`), so nothing calls them, and `get_stats` does not compile.
* `add_interface` writes constants nobody reads, `remove_interface` logs,
  `configure_filter` computes a flag from its arguments and keeps nothing; the radio
  is never told.
* The channels and the 2 GHz band are constants for mac80211; the driver reads
  neither. The 5 GHz rates are in `Link`. Of the unit conversions of `radio.h` only
  `DBM_TO_HALFDBM` is used, in `RadioConfig`. The address table of
  `mac80211-ops.c:184-186` is a constant: what it filters is decided in the firmware.
* The display functions no callback reaches, wording of debug output, the build.
* The LLC and the kernel are not in the repository; only their interface to the driver
  is modelled.
