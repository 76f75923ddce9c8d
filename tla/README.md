# A verification development for meta-webos-ports

The repository is the OpenEmbedded layer of LuneOS. Almost everything in it is build metadata
(recipes, classes, patches of other projects). What it carries of its own, and what runs on a phone, is of two
kinds. There is a set of small daemons and scripts that stand between the kernel, systemd, the display manager
and Android containers: no lock or only one, restarted by systemd at any point, and tested by hand on a device.
And there is a file system driver, squashfs 3.3 for the older kernels, which serves every process at once and
has locks, wait queues, caches and many ways to fail. This directory models those programs in TLA+, checks the
models with TLC and proves the most important properties with TLAPS.

Paths below are relative to `meta-luneos/`.

## 1. Inventory

### 1.1 Programs with state that other actors change under them

**luneos-remote-wakelock** (`recipes-luneos/luneos-remote-wakelock`). Keeps the phone awake while somebody is
attached over ssh or adb.
State: one token file per ssh connection, one marker per class (`ssh`, `adb`), the kernel's wakelocks with
their timeout, the pid and ticks of adbd as the watcher last saw them.
Operations: `lock` and `unlock` (ExecStartPre and ExecStopPost of every `sshd@` unit), `watch` (the service:
`evaluate` every `POLL_S`), `release` (its ExecStopPost).
Interaction: all four take one flock; the watcher also asks systemd about the tokens and the kernel about
connections; the kernel ends a lock by itself after `TIMEOUT_S`.
Hard: hooks of several sessions and the poll in any order; a process killed between the kernel write and the
marker; a refused write; a `systemctl` that fails; the service stopped under live sessions.
Correct when: a session keeps its lock whatever the others do; marker and kernel agree; stale tokens go; no
lock outlives by more than the timeout the poll that saw its last reason; the locks follow the reasons in the end.

**kbdscroll** (`recipes-luneos/kbdscroll/kbdscroll/kbdscroll.c`). Turns slides on a second touch surface (a
touch keyboard, a trackpad) into a drag that it injects into the touchscreen, and into arrow keys while a
modifier is held.
State: the contacts read so far, the gesture (tracking, scrolling, rejected, its slot and anchors), cursor
mode (wasAlt, altBlock, the driver), the injected contact, the typing and echo windows.
Operations: the event loop (poll, keyboards, pad), configuration from four sources, device discovery, the
injected contact.
Interaction: reads two kinds of evdev queue, writes the touchscreen's own node, which real fingers also use,
and the keyboard's, which it also reads.
Hard: keys, fingers, modifiers and signals in any order; frames that lift and touch at once; a full kernel
buffer; a surface that disappears; a relative pad, whose lift is only silence.
Correct when: the contact is down exactly while a one-finger gesture scrolls and is up at exit; typing and
steering fingers never scroll; what is injected is a plausible drag inside the screen.

**wlan-suspend-mode** (`recipes-connectivity/wlan-suspend-mode`). Tells the WLAN driver when the display is
off, through the first of three mechanisms that works, the last of which takes `wlan0` down.
State: `STATE` and `DOWNMARK` in `/run`, the variable `cur` in two shells (the reading loop is a subshell),
the driver's filter, the link.
Operations: `apply` (seven kinds of command), the subscription loop, `on`/`off`/`normal` by hand, the unit's
ExecStopPost.
Interaction: Luna subscription in, ioctl/netlink/`ip link` out; nothing locks.
Hard: kills and other runs between two commands of apply; a stale `cur`; a mechanism that changes with an
upgrade; a lost subscription; the user's own WiFi switch.
Correct when: `STATE` and `DOWNMARK` tell what the hardware does whenever nobody is inside apply; a phone in
use ends up unfiltered and connected, a sleeping one filtered.

**Waydroid launcher and launch daemon** (`recipes-support/waydroid`: `waydroid-luneos-launchd`,
`waydroid-luneos-app.sh`). A FIFO of `launch`/`close` lines, one thread per launch, a poller, one lock round
the binder, a status file, and one shell script per open app that waits for its task to disappear.
Hard: `close` of an old instance behind the `launch` of a new one for the same package; a status written
outside the lock; a retry of a launch that took effect; a launch counted as done when it was only queued.
Correct when: an instance lives exactly as long as its Android task.

**MTP gadget** (`recipes-luneos/umtprd`: `luneos-mtp-gadget`, `umtprd.service`). Puts an MTP function into the
USB gadget that Android has bound with adb in it, or builds a gadget of its own, and takes it out again.
State: configfs (the UDC, functions and links, IDs), seven files in `/run/luneos-mtp` that tell cleanup what
prepare found, the "reconfiguring" marker with the pid of the run that made it.
Operations: `prepare` (ExecStartPre), `bind` (ExecStartPost), `cleanup` (ExecStopPost), and the release of the
marker some seconds later in the background.
Interaction: systemd runs the three and ends them; whoever watches adb looks at the marker.
Hard: a stop between taking adb's function out and linking it again; a timer of an old run beside a newer run; a
busy UDC; a run that lost its files. Correct when: adb comes back as it was, the marker covers every rebind and
goes, a service that is wanted serves in the end.

**squashfs** (`recipes-support/squashfs/files`: `inode.c`, `squashfs2_0.c` and four headers). The driver of a
compressed read-only file system, version 3 with version 2 behind the same calls.
State: two caches of blocks (metadata and fragments) with their entries' counts and wait queues; one zlib stream
under `read_data_mutex`; the kernel's buffer heads; `meta_index`, places in the block lists of the files last
read, under `meta_index_mutex`; the buffer `read_page` under `read_page_mutex`; the pages; the kernel's inodes and
dentries; what the superblock's `squashfs_sb_info` points to.
Operations: `squashfs_cache_get/put`, `squashfs_get_cached_block`, `squashfs_read_data`, `squashfs_readpage` and
the symlink's, `squashfs_readdir` and `squashfs_lookup` of both versions, `squashfs_iget`, `squashfs_read_inode`,
the exported inodes, `squashfs_fill_super`, `squashfs_put_super`, module load and unload.
Interaction: every read of names, inodes, block lists and fragments goes through the caches, and those through
`squashfs_read_data`; the VFS calls from many threads and holds the directory's mutex, page locks and new inodes.
Hard: sleeps between a test and its use; a wake-up outside the lock; one buffer and one stream for all files; slots
that change files while they are followed; reads at every edge of the device's blocks; a failure at any step.
Correct when: what is read is what the image has there, or an error that belongs to it; nothing is lost, given back
twice or waited for in vain.

**start-android-hals** (`recipes-core/android-system`). Plays Android's init: starts services from `.rc` files
behind property gates, forces a gate after a grace period, starts late services when theirs are up.
Hard: a forced gate against a late real one; order and absence of prerequisites.

### 1.2 Programs without such state

| Part | What it does | Why it is not modelled |
|---|---|---|
| application permissions (`appinstalld2`) | scans an app for API names and resolves permission groups | string matching; the resolution is planned as an operator |
| Waydroid session, preparation, download | host set-up, a question to the user | idempotent and sequential; the environment of the launcher |
| bounded waits (`wlan-dynamic-start`, `biomd`, `ofono`) | poll for a device, give up after a count | one loop each, nothing shared |
| camera and codec gates | a bounded wait, probe and restart at most four times | sequential; the outcome is the vendor provider's |
| device configuration generators | device description to configuration files, once per boot | text in, text out |
| WLAN power set-up | one `iw` command when the interface appears | no state |
| wrappers of daemons | set an environment, `exec` | no state |
| reports and diagnosis | read `/proc` and `/sys`, print | change nothing |
| byte order and packing of squashfs (`SQUASHFS_SWAP_*`, bit fields) | lays a struct out as on the disk | data only; `SquashfsRead` models the swap of a block's length, the rest is taken as read |
| ACG and LS2 checks of the build | one pass over JSON at build time | no state |
| recipes, classes, patches, data | input of BitBake | the semantics is BitBake's, not this code's |

## 2. Modules

| Module | Models | Proofs |
|---|---|---|
| `RemoteWakelock` | luneos-remote-wakelock, its units, the kernel's timed wakelocks, adbd | `RemoteWakelockProofs` |
| `FingerDrag` | abstract: what the compositor is promised | |
| `Kbdscroll` | kbdscroll's event loop; implements `FingerDrag` | `KbdscrollProofs` |
| `WlanSuspendMode` | wlan-suspend-mode, its unit, runs by hand, the WLAN driver | `WlanSuspendModeProofs` |
| `MtpGadget` | luneos-mtp-gadget, its unit, configfs | `MtpGadgetProofs` |
| `SquashfsBlocks` | abstract: a reader has the block it asked for, unchanged, or that block's own error | |
| `SquashfsCache` | the cache of blocks; implements `SquashfsBlocks` | `SquashfsCacheProofs` |
| `SquashfsRead` | `squashfs_read_data` and `get_block_length` over the device's buffer heads | `SquashfsReadProofs` |
| `SquashfsFile` | `readpage`, block lists, the meta index, fragments, symbolic links | `SquashfsFileProofs` |
| `SquashfsDir` | readdir, lookup, directory index, inodes, exported handles, in versions 3 and 2 | `SquashfsMountProofs` |
| `SquashfsMount` | extends `SquashfsDir`: module load, every step of a mount, unmounting | `SquashfsMountProofs` |

The `.cfg` files (`MC*.cfg`) give the constants directly; where these are functions (the sizes and places of an
image's blocks, files and names) a module `MCSquashfsRead`, `MCSquashfsFile` or `MCSquashfsMount` defines them.

### 2.1 RemoteWakelock

One action is one command of the script that others can see the effect of. `owner` is the process that has the
flock and `at` the command it is about to run, so `LockCmd`, `UnlockCmd`, `Watch`, `ReleaseCmd` are "the flock
has been granted", and from there a `lock` runs `WriteToken`, `Arm`, `Mark`; an `unlock` runs `RemoveToken`,
`Unmark`, `Disarm`; the watcher runs `QueryToken` per token, `DecideSsh`, a hold or a drop, `DecideAdb`, a hold
or a drop. `hold` is `Arm` (kernel first, "|| return 1") and `Mark`; `drop` is `Unmark` (nothing without the
marker) and `Disarm`. `release` starts at `Unmark`.

systemd is modelled from the unit files: a connection's unit goes none, pre (ExecStartPre), active, post
(ExecStopPost), gone; a killed hook does not stop its unit (the "-" prefix); the service goes down, up,
stopped/failed (ExecStopPost), wait (RestartSec). A name of a connection is never reused (it contains ports and
a counter).

Time: one `Tick` is one `POLL_S`. A script is assumed to finish within a Tick (they take milliseconds, a poll is
five seconds), so `Tick` is enabled only when no script runs or waits. adbd is none, idle, shell (it has a
child) or busy (it burns ticks without one). `adb_ticks` is the watcher's variable as seen from the running
adbd: no baseline of this adbd ("none": another adbd, a new watcher), or one since which it has burned few or
many (`ADB_BUSY_TICKS`) ticks. `Burn` is adbd at work; `DecideAdb` arms on a child that is there now or on many
ticks, although adbd may be idle again by then, so that a poll may find a reason that went in the Tick before
(`Late`). The commands of `adb_in_use` read nothing that the script changes and are one step; a child that comes
or goes among them is one that came or went before.

Faults: kill -9 of any script between two commands, a refused write to `wake_lock`, a failed `systemctl`; at
most `MaxFaults` together.

### 2.2 Kbdscroll and FingerDrag

`pc` is where the loop is: in `poll()`, at the keyboards, reading the pad, or handling a frame. One pad frame
(the events up to a `SYN_REPORT`) is one record: slots lifted, put down and moved. `ReadContacts` (absolute and
single-touch surfaces; the latter have one slot) or `ReadMovement` (relative pads) reads it and one disjunct of
`Handle` carries out everything the code does with it: the handlers are named for the branch of
`kbdscroll.c` they are. Between any two of these steps the world moves: fingers (`Slide` is any change of any
number of fingers, including a slot lifted and touched in one frame), keys, modifiers, the backlight, the
text-focus file, a signal, an unplugged pad, an overflow of the kernel's buffer (`Report`).

Milliseconds are flags: `typed` (typing-ms), `echo` (150 ms after a word-delete chord), `still` (rel-lift-ms)
are set by the code and taken down by a step of time at any later point, `echo` too: `EchoOver` may come before
the chord is read, in the middle of it, or after keys of the user's. What comes back is the chord as the kernel
makes it (`Chord`): `ChordMod` is the modifier in it that is also one of the cursor's (profiles/athena.conf:34
puts leftalt into `word-delete`, and leftalt is in the default `cursor-modifier`); one that is down already is
not pressed again, and is up afterwards, whoever holds it. So a chord read too late may switch cursor mode on,
and a window that is open swallows the user's own modifier. `ModifierLetsGo` says that neither leaves cursor
mode on without a modifier; that a swallowed press is lost and a late chord counts as typing is so in the code,
and no property forbids it. All keyboards are one queue. The world waits while more than `KeyMax` of its events
are unread; an overflow of a keyboard's buffer, which the code does not look at either, is not modelled. Of
values the code can no longer read (a lifted slot's position, the start of a finished gesture) none are kept.
`LeaveCursor` falls through to the scroll part, as the code does, as a second step of the same frame.

`FingerDrag` is the other side of the touchscreen: a finger comes down at a fixed place, keeps to one lane,
may take hold again (vertically only) and lifts. `Drag == INSTANCE FingerDrag WITH ...` maps the axis and the
side margin; `OneFingerDrag == Drag!Spec` is checked as a property, so every step of the loop is a step of the
drag or a stutter.

`barred`, `typedIn` and `seen` are history for the properties. Real fingers on the touchscreen are not in this
module: `inj_touch` and `inj_up` are one step each.

### 2.3 WlanSuspendMode

`apply` is a sequence of commands, each an action for a process in {daemon, cli}: `Ioctl`, `Testmode`,
`LinkSet`, `Record` (cur and `STATE`), `Undo` (undo_iface_down), `Mark` (`DOWNMARK` made or removed). Each of
the three mechanisms fails when the chip lacks it or there is no interface, and may fail once more as a fault.
`chip` is chosen at the start and covers every combination.

The unit: `Start`, `WaitIface` (exit 3 after `WaitMax` rounds, never restarted), `Subscribe` (the first reply
carries the display's state), `ReadLine`, `LoopEnds`, `PipelineEnds`, `Exit`, and from everywhere `Stop` and
`Kill`; every end goes through `Ends`, which starts ExecStopPost, an `apply normal` with a fresh `cur`. The
parent shell's `cur` is a variable of its own (`pcur`) because the loop runs in a subshell.

The rest: the display, dimming, the loss of the subscription, the interface appearing, an upgrade after which
testmode works, the user's WiFi switch, and commands by hand. `whole` is history: no command has failed, been
cut short, or overlapped another process's, and the user has not touched WiFi.

`TailNotices` is an assumption about the image, not about this code: that `tail -f /dev/null` ends when its
reader has gone. GNU tail does, busybox's does not (see section 5).

### 2.4 MtpGadget

A step is a command of the script that leaves something behind: a file written, a function made, linked or
removed, an ID, the UDC bound or unbound. `pc` is the command about to run and `s` holds the script's variables;
`unit` follows the service (ExecStartPre, the wait for READY, ExecStartPost, running, ExecStopPost, RestartSec).
`halium` tells whether Android has bound a gadget. Between any two commands the service can be stopped, which ends
prepare and bind where they are and starts cleanup, `umtprd` can crash, and timers of earlier scripts fire:
a timer tests the marker, removes it and then the directory, in a step each.

Cleanup is not ended by another stop but by TimeoutStopSec (`Kill`: at any time when the UDC stays busy, else a
fault). A refused UDC, a crash and a kill of prepare or bind count as faults too. `harmed` and `raced` are history:
`Harm` names the two places (lines 143-145 and 181-186) where a plain stop does what no later command undoes, and
`raced` is set when a marker is made while an older timer stands between its test and its `rm`. Without these
exemptions TLC shows the counterexamples of section 5.

### 2.5 SquashfsBlocks and SquashfsCache

The abstract module has one variable: what each reader holds between get and put, a block with its data or an
error, and the blocks a read of which has failed. `SquashfsCache` is both caches (they are one code since
`squashfs_cache_init`); an action is what runs under `cache->lock` at a time, or one test or wake-up outside it.
`Hit`, `Full`, `Claim` are the three ways through `squashfs_cache_get`; `Sleep` and `Await` are the tests of the two
`wait_event`s; `Filled` is the return of `squashfs_read_data`, `FillWake` and `PutWake` the wake-ups after the
unlock. A reader walks over one block or more, as `squashfs_get_cached_block` does, with `next_index`.
`Blocks == INSTANCE SquashfsBlocks WITH held <- Held` reads `held` from the entry a reader has.

### 2.6 SquashfsRead

The image lies on device blocks of `D` bytes. A byte is its address, so that a read was right if the right
addresses came out in order. Buffer heads have a state and a count; `Answer` is the device's reply, a success or,
for the flaky ones, a failure. A reader gets the length (one buffer, or two when it straddles), skips the marker,
gets and submits the buffers, takes the mutex, feeds zlib buffer by buffer, ends the stream, and puts back what it
still has; an uncompressed block is copied.

The array of buffer heads is as long as a block of `block_size` needs (187-188), but metadata blocks and whole tables
are read through it too, and nothing bounds those: `Src` and `Size` are any numbers here, and the run has a metadata
block and a table that are longer. `ArrayHolds`, a part of `TypeOK`, says what is true of the array: more heads than it
has room for are had only by a block that is itself longer on the device than `block_size`; for all others the one
head to spare is enough, wherever length, marker and block lie. What a store behind the array's end does is undefined;
of its outcomes the model has the one in which the read goes on, as it does where kmalloc rounded the array up.
`SRAssumption` asks that `block_size` is a multiple of the device's block size (both are powers of two, and
`sb_min_blocksize` asks for 1 KiB).

### 2.7 SquashfsFile

A thread is in one call of `readpage`: it looks for a meta slot of its file (`Locate`, `NoPlace`: the critical
section of `locate_meta_index`), claims one if there was none (`Empty`, `NoEmpty`: that of `empty_meta_index`,
which begins after the mutex was given back, so that other threads take and leave slots in between, of the same
file too), reads the block list ahead and releases the slot, walks to its block, takes `read_page_mutex`, reads,
copies, and pushes what is left of the block to those other pages it can lock without waiting. `release_meta_index`
clears `locked` without the mutex and has its barrier behind the store (1424-1428): the model has one order of
memory, in which what was written to the slot before is seen before. Reads of metadata and fragments keep the
promise of `SquashfsBlocks`, so they are one step with the data or an error. Sizes are in units of which a page
holds `PageSize`.

### 2.8 SquashfsDir and SquashfsMount

A directory is a sequence of items, headers and names, each of `Item` units, in a table with blocks of `Block`
units, which is what the directory index and `f_pos` are about. `Major` and `Minor` choose the code of `inode.c` or
`squashfs2_0.c`: only version 3 lists the dots and makes an inode it cannot read a bad one; directories of version
2.0 are not sorted, and version 2 allocates its fragment index apart. The VFS is external: it holds the directory's
mutex, calls lookup only without a dentry, and lets one thread read a new inode while others wait (`Await`).
`SDImages` says what `mksquashfs` writes and the code relies on: the names of a directory are in order where there is
an index or the version sorts (`Ascending`, which the early end of `squashfs_lookup`, line 2021, takes for granted), and
an index points at headers. `SMAssumption` says that only an image with fragments has files that end in one: the code
would look into a fragment table it has not read.

`SquashfsMount` has a place per step of `squashfs_fill_super` and counts allocations in `heap`; `ptr` is what
`squashfs_sb_info` points to. A fault at any step goes to `failed_mount` or to the way out the code has there.
`MetaIndex` is the allocation of `empty_meta_index` in a mounted volume. `Unmount` needs the volume at rest. `lapsed`
is history: it counts, per resource of `Left`, how often the code took the one way on which it lets go of it
without freeing it (1094, 1239, 2060-2075), and changes nowhere else. `AllGoesBack` then asks that between mounts each
of the three is there that often, and nothing else at all: a leak on any other way would show.

## 3. Runs

| Run | Instance | Asks |
|---|---|---|
| `wakelock` | 2 sessions, Timeout 3, 1 fault | do sessions keep their lock, markers tell the truth, tokens go stale, locks leak? |
| `wakelock_live` | 1 session, Timeout 2, 1 fault, fair | do the locks follow the reasons in the end, also after an unlock that took the lock of another reason? |
| `kbd_modes` | 2 slots, pad 1x2, 1 modifier, 1 key | who may scroll, over keys, modifiers and second fingers |
| `kbd_drag` | 1 slot, pad 3x4, screen 20x16, scale 4.5 and 18.5 | is the injection one finger's drag that follows the finger? |
| `kbd_words` | 1 slot, pad 2x1, word delete, backlight, unplug, overflow, 1 modifier | does cursor mode let go of its modifier, whenever the chord's echo is read; is the contact up whatever fails? |
| `kbd_relative` | pad 2x2, vertical only, fair | a pad without contacts: does its contact lift by silence? |
| `wlan` | WaitMax 2, 1 message, 1 fault, 1 loss, 1 command by hand, fair | does `STATE` tell the truth; where does the phone end up? |
| `mtp_gadget` | both kinds of device, 2 starts, 2 pids, 1 fault, fair | does adb come back, does the marker cover every rebind and go, does the service serve in the end? |
| `squashfs_cache` | 3 readers, 2 entries, 3 blocks, structures of two blocks, 1 block that may fail, fair | does the cache keep the promise of `SquashfsBlocks`, lose no wake-up, copy a structure in its order; do calls return? |
| `squashfs_read` | 2 readers, 7 blocks (two longer than `block_size`) on device blocks of 4 bytes, 2 buffers that may fail, 2 reads, fair | do the right bytes come out at every edge; do buffers, array and mutex go back? |
| `squashfs_file` | 2 threads, 3 files (a long one, one with a hole and a fragment, a link), 2 slots, 3 reads, fair | does a page hold what its file has there, whatever the other file does to slots and buffers? |
| `squashfs_volume` | 2 threads, 5 images (3.1, 3.0, 2.1, 2.0, 4.0) and a broken one, 3 calls, 1 fault, 2 mounts, fair | are listings whole, lookups right, inodes read once; does a mount that fails at any step leave nothing behind but what is known to lapse there? |

Each property's comment in its module says what it means and which lines it is about; each property of a passing
run has a mutant of the code (an operator such as `RemoveToken_AnyToken` beside the real one, "Mutant: ...") that
breaks it. The runs together take every action of every next-state relation; the largest have about
5 million (`wakelock`), 4.5 million (`kbd_words`) and 1 million (`wlan`, with liveness) distinct states, the
squashfs runs 870,000 (volume), 550,000 (cache), 330,000 (file) and 170,000 (read), `mtp_gadget` 230,000.

Every safety property of these runs is also a theorem (section 4).

### 3.1 Why the bounds are enough

- *wakelock*: the script distinguishes "my token", "another token" and "no token", so two sessions show every
  interleaving of one session with the rest; a name is used once, so a third adds only order. Timeout 3
  (12 in the script: 60 s, a poll every 5 s) lets a
  lock outlive a poll, be re-armed, and run out. One fault at every point; the theorems have no
  bound on sessions or faults. The fault-free poll that `settled` asks for can happen before, between and after.
- *kbd_modes*: the code tells "none", "the tracked one" and "another or several" fingers apart. A pad of 1x2
  units with slop 1 has a slide and a stillness. Sideways slides need the other two runs.
- *kbd_drag*: the screen is small and the scales large so that one pad unit is much of the screen: the drag
  runs into both margins, takes hold again, and every product is rounded in both directions.
- *kbd_words*: one slot is enough, the chord is sent by the one finger that scrolls; the modifier is in the chord, and
  two keys of the user's in the queue put a press, a release or a real key before, behind and on both sides of it.
- *kbd_relative*: the virtual surface is smaller than the largest delta, so clamping happens at every edge.
  Cursor mode on a relative pad is in no run; the theorems `TypeCorrect`, `ContactIsOwned` and
  `SteeringFingersBarred` include it.
- *pad queue of 1*: the loop drains its queue before it polls again; a longer queue delays reading, which a
  later `Poll` also does. The proofs hold for any queue.
- *wlan*: `apply` looks at its own `cur`, the two files and the hardware; two processes show every
  interleaving. One loss and one fault give restart, then one more failure inside it. WaitMax 2 has a round
  that goes on and one that gives up.
- *mtp_gadget*: a timer is about its own pid, another's, or none, so two pids do (a pid returns once no marker and no
  timer names it); two starts are a run and one after it that finds what it left. The properties also held with
  three pids, and with two faults (1.05 million states), outside the runs.
- *squashfs_cache*: three readers are one that holds, one that waits for its block and one that waits for an entry;
  two entries are one to find and one to claim. Structures of two blocks claim a second time while others sleep.
- *squashfs_read*: the blocks put the length, the marker, the first byte and the end on every side of a device
  block's edge, in metadata and data, packed and not, sound and corrupt, one past the end of the image, and a
  metadata block and a table for which the array is too short. Two readers are enough for a mutex and for shared
  buffer heads, as a third only waits.
- *squashfs_file*: pages 12 and 13 of the long file lie behind two index entries, so a slot is claimed, filled,
  followed and extended; the other file takes the slots away. Every read of the two flaky files may fail.
- *squashfs_volume*: an image per version the code treats apart, one with an index, one whose directory crosses a
  block, one unsorted, a hard link, a device node, names before, between and behind those there are. One fault at
  every step of a mount and of a call; a second mount shows what the first left.

Deadlock is checked in every run but `squashfs_file`, `squashfs_volume` and `mtp_gadget`, where the bounds on calls
and starts let the system come to rest; there the liveness properties tell rest from deadlock. kbdscroll may end:
`Exited` is its last, stuttering step.

### 3.2 Fairness

- `RemoteWakelock`: WF of the scripts' next command (processes are scheduled); SF of every hook's flock (the
  kernel queues the waiters, so a hook cannot lose the race with the watcher for ever); SF of `Tick` (time
  passes; it is disabled only while a script runs). No user, adbd, crash or admin has to act.
- `Kbdscroll`: WF of the daemon's next step, WF of `StillOver` (stillness that lasts does pass rel-lift-ms).
  Fingers that never come off are allowed, so `LiftLetsGo` is about fingers that stay off.
- `WlanSuspendMode`: WF of the daemon and its unit, WF of a command by hand that was started. The display may
  go on and off for ever, hence the "in the end always" premises.
- `MtpGadget`: WF of the script's next command, of systemd's own steps and of each pid's timers. Nobody has to start,
  stop or crash anything; `ServedInTheEnd` is about a service that stays wanted.
- Squashfs: WF of every thread that can run and of the device's replies; SF of the two mutexes, which the kernel hands
  to its waiters in their order. Nobody has to read, so `CallsReturn` and `ReadsReturn` are about when no more calls
  come; `wait_event` needs no more than WF, because a waiter's test runs again when it is woken.

## 4. Proofs

For every value of the constants that satisfies the named assumption of its module (`RWAssumption`: a timeout of
at least two polls, no connection called "watch"; `KSAssumption`: positive sizes and steps; `WSAssumption`: at
least one round of waiting and room for one message; `SCAssumption`: at least one entry and one block, finitely
many readers; `SRAssumption`: the blocks' places and sizes, and a `block_size` of whole device blocks;
`SFAssumption`: positive sizes of pages, blocks and the meta index, no hole in a fragment or a link;
`SDAssumption`, `SDImages` and `SMAssumption`: positive sizes, names of two digits, and images as in 2.8;
`MGAssumption`: the bounds are numbers, and what stands for "none" is no pid and no content of a file):

| Theorem | Says |
|---|---|
| `RemoteWakelockProofs!TypeCorrect` | `Spec => []TypeOK` |
| `RemoteWakelockProofs!LeakIsBounded` | no lock outlives by more than the timeout the poll that saw its last reason |
| `RemoteWakelockProofs!NoTokenIsStale` | after a faultless poll, every token's unit is attached |
| `RemoteWakelockProofs!MarkersAreTrue` | after a faultless poll, a marker means a lock the kernel holds |
| `RemoteWakelockProofs!SessionsKeepLock` | after a faultless poll, a started session keeps the lock |
| `KbdscrollProofs!TypeCorrect` | `Spec => []TypeOK`: in particular no function is applied outside its domain |
| `KbdscrollProofs!ContactIsOwned` | contact down = one-finger gesture scrolling; up at exit |
| `KbdscrollProofs!TypingRejects` | a key before the slide rejects the gesture |
| `KbdscrollProofs!SteeringFingersBarred` | a finger that steered the cursor does not scroll before it is lifted |
| `KbdscrollProofs!ContactFollows` | a touch moves no further than its finger, scaled: `Spec => NoJump` |
| `KbdscrollProofs!ImplementsFingerDrag` | the refinement: `Spec => OneFingerDrag` |
| `KbdscrollProofs!ModifierIsLetGo` | with the keyboards drained, cursor mode is on only while a modifier is down |
| `WlanSuspendModeProofs!TypeCorrect` | `Spec => []TypeOK`: in particular the wait ends |
| `WlanSuspendModeProofs!StateTells` | `STATE` and `DOWNMARK` tell the truth while nothing failed or overlapped |
| `SquashfsCacheProofs!TypeCorrect` | `Spec => []TypeOK`: no count goes below zero |
| `SquashfsCacheProofs!BlockHasOneEntry` | no block is in the cache twice |
| `SquashfsCacheProofs!CountsAreTrue` | `locked` counts an entry's readers, `unused_blks` the entries without one |
| `SquashfsCacheProofs!NoLostWakeup` | a sleeper has a reason to sleep, or somebody who is about to wake it |
| `SquashfsCacheProofs!WalkInOrder` | a structure is copied from consecutive blocks |
| `SquashfsCacheProofs!CacheImplementsBlocks` | the refinement: `Spec => BlocksSpec` |
| `SquashfsReadProofs!TypeCorrect` | `Spec => []TypeOK`: in particular only a block longer than `block_size` gets more buffers than the array holds |
| `SquashfsReadProofs!BlocksRight` | a read that succeeds has the block's bytes in their order; one that fails has a cause |
| `SquashfsReadProofs!BuffersReturned` | a buffer's count is the readers that have it: none is lost or put back twice |
| `SquashfsFileProofs!TypeCorrect` | `Spec => []TypeOK` |
| `SquashfsFileProofs!SlotsSound` | one filler per slot of the meta index; what a slot tells is its file's block list |
| `SquashfsFileProofs!PagesTrue` | a page that is uptodate is what its file has there; errors stay in their file |
| `SquashfsMountProofs!TypeCorrect` | `Spec => []TypeOK`: whatever works on a volume finds the tables its version reads |
| `SquashfsMountProofs!NothingElseLeaks` | what a mount made goes again once; the three things of `Left` stay as often as their own way out was taken |
| `SquashfsMountProofs!InodesSound` | one thread reads a new inode and nobody is given it before |
| `SquashfsMountProofs!LookupsAnswer` | a lookup that no read failed in tells the truth about its name |
| `SquashfsMountProofs!ListingsWhole` | a listing taken in pieces has every name once and in order, and ends at the end |
| `MtpGadgetProofs!TypeCorrect` | `Spec => []TypeOK`: no function is linked twice, nothing is left where the directory is gone |
| `MtpGadgetProofs!GadgetReturns` | when the service rests, Android's gadget is as it was, but after harm: a stop where `Harm` says, a cleanup that was killed or refused five times |
| `MtpGadgetProofs!LayoutHolds` | MTP is first in a bound gadget, with the IDs that go with what is linked |
| `MtpGadgetProofs!MarkerHeld` | the UDC is changed by the scripts under a marker only, but for `raced` |

How they go:

- *LeakIsBounded*. `LeakBounded` bounds `klock[c] + idle[c]` and is broken only by an `Arm` at a moment when the
  reason has been gone for too long. So the invariant carries the justification along the script: a reason resets
  `idle` (`ReasonSeen`), a token being written belongs to a unit still starting (`TokenJustified`), `alive` was
  set in this same poll (`QueryJustified`), whoever is about to arm saw the reason since the last Tick, for adb since
  the one before (`ArmJustified`), because adbd's ticks are read at every poll and many of them are of this Tick, or
  of the last one until the poll has read them (`TicksSeen`); `Tick` waits for the script, which is where the
  assumption on scripts' duration is used. `AdbHalf` and `NoScriptIdle` keep the class and the owner straight.
  `Spec => []TypeOK` needs `TokenJustified` too: only a session writes a token.
- *NoTokenIsStale, MarkersAreTrue, SessionsKeepLock* share the invariant `Kept`. `Roles` ties the command to the
  process that has the flock and to its unit; `TokensSeen` follows the poll through the tokens: what it has asked
  about is live, and if one is left `alive` is set; `DropsWhenEmpty` says that whoever is about to drop ssh has no
  token to drop it for, so that in its adb half the poll has ssh right (`SshDone`); `MarkerInside` orders marker and
  kernel lock; `TimeLeft` counts the one Tick to the next poll, which is where `Timeout > 1` is needed;
  `SessionMarked` is what a hook's lock or a poll leaves. `Polls` says that a service that is down settles nothing.
- *TypeCorrect of Kbdscroll* is split into flags, world and daemon (`FlagsStep`, `WorldStep`, `DaemonStep`), with
  lemmas on what reading a frame gives (`BetweenHands`, `ContactsHand`) and on the integer arithmetic
  (`TruncInt`, `ClampRange`, `DragInt`).
- *ContactIsOwned* is inductive as stated. *TypingRejects* needs that the key was remembered (`TypingInv`);
  *SteeringFingersBarred* that a finger is barred only while on the pad, and that one which steered is either
  still steering or blocks all scrolling (`SteeredInv`).
- *ContactFollows* and *ImplementsFingerDrag* rest on `DragInv`: the contact is as far from its anchor as the finger is
  from its own, scaled, and it keeps to its row in a horizontal drag. A step leaves the contact alone, lets it go, puts
  it down or drags it (`ContactSteps`); of C's division it is enough to know how far two quotients can be apart
  (`TruncStep`).
- *ModifierIsLetGo*: if cursor mode is on, or a press of a modifier is still to be read, then the modifier is down or
  its release is behind in the queue (`HeldKnown`, `PressKnown`), since a chord ends with the release of what it
  pressed. Only an open window could swallow that release, and while one is open cursor mode is off (`WindowClear`):
  no chord is sent from cursor mode, and no press is acted on within the window.
- *StateTells*. At every command of apply, `Stage` says what the driver, the link and the two files already are;
  `Exclusive` that only one process is inside while `whole`; `Reach` that the driver filters only if something
  could have told it to and will be tried again, so that the fallback never takes `wlan0` down under a filtering
  driver; `Quiet` that the daemon is not inside apply while its unit waits or rests.

- *SquashfsCacheProofs*. `IInv` is `TypeOK /\ Counts /\ Entry /\ Waking /\ Walks`. `Counts` ties `locked` to the set
  of an entry's holders, and with it a claim is seen to take an entry nobody has; `Entry` says that a block is in
  one entry only, that at most one reader fills it, that what a reader has is pinned to the block it wants, and that
  an entry not being read is its own block or an error that block has met; `Waking` relates the sleepers to `unused`
  and `waiting` at the tests outside the lock; `Walks` relates `next_index` to the walk. `CacheImplementsBlocks`
  follows in four lemmas: while a reader holds an entry it keeps it (`KeptIsHeld`), what it holds is sound
  (`HeldIsSound`), the end of a get is the abstract Get (`GetImplemented`), and every other step is a Put, a failed
  read or a stutter (`StepImplemented`).
- *SquashfsReadProofs*. `IInv` is `TypeOK` with five conjuncts. `Proper` says of each reader, by where it is,
  what its locals are: while the length is read the next byte is the header's next one (`Measuring`), so the
  buffers that are got lie one behind the other from the block's first byte, and each is needed (`Getting`,
  `Lie`); the bytes had are a prefix of the block (`Reading`), and all of it with the last buffer (`Ended`).
  From "each is needed" and `BlockSize % D = 0` follows how many heads a block can have (`FewFit`, `Roomy`), and
  so which fit into the array. `Counted` equates a buffer's count with the readers that have it, so that the
  kernel takes no buffer back between its read and its use (`Answered`), and `Mutexed` gives zlib's stream
  (`fed`) to one reader at a time. An action moves one reader (`Moves`), and `StepKeeps` says what such a step
  owes the others; each action then pays in a lemma of its own.
- *SquashfsFileProofs*. The lock of a slot is a flag that is taken down without the mutex (`release_meta_index`), so
  the proof has to say who may look at a slot: `Filling` ties a locked slot to the one thread that fills it, and
  `EmptySlots` says that a slot is left without entries only by a file that could not be read. With that, what a slot
  tells never becomes another file's while it is followed, and a cursor stands at `off` strides of its own file's list
  wherever the thread took it from (`CursorsStand`). So the walk ends at the block asked for (`WalkEnds`), `read_page`
  holds that block while its mutex is had (`Reading`), and each page is cut from it at its place (`PageCut`), also
  those that are pushed along: `Holding` says that they are locked.
- *SquashfsMountProofs*. `Pointers` says at each step of `fill_super` what `squashfs_sb_info` points to, and
  `Heap` that this and what has lapsed is what was allocated and not freed (`AllocHeap`, `ReleaseHeap`); a
  mounted image then has the tables its version reads. Of lookups: a thread that no fault led astray stands
  before an item of its directory and has passed its name nowhere (`AtHeader`, `AtEntry`). The index cannot lead
  it behind the name, because the names it jumps over are smaller than the one it jumps to (`SearchAdvances`);
  at a name that is larger the search may end only where names are in order (`BehindIsGone`), and otherwise it
  ends at the end. `Readers` gives a new inode to one reader, so that what a lookup was given stays what it is
  (`Answered`) until the call returns. All but two operations move one thread and leave the inodes alone
  (`Advances`); a new inode and the end of its reading are proved apart (`NewInode`, `Done`). *ListingsWhole*
  adds `ListInv`: what was listed is the set of numbered names that end by `f_pos` (`Volume`), and a thread that
  lists stands at an item before which every name is listed (`Lists`), because the index lands on a header that
  is not behind `f_pos` (`JumpLists`). Then a name the code skips as `Known` was listed, and one it gives to
  `filldir` is the next (`NextName`). Only who holds the directory's mutex lists, so the others keep this by
  what they leave alone (`Elsewhere`); bytes of the index that could not be read are the exemption (`strayed`).
- *MtpGadgetProofs*. `Phases` says which commands run in which phase of the unit; `Variables` and `Recorded` what the
  script's variables and the files in `/run` say at each of them, also after a run that was cut short; `Owned` that
  nothing is edited in a gadget that is bound. Then the order of the commands alone gives the layout (`Ordered`,
  `BindLinks`, `BoundStands`). *GadgetReturns* needs three invariants of Android's gadget, none of which holds after
  harm: as soon as a file names it, the files say all that cleanup reads (`AndroidNoted`, which is where a stop between
  the files breaks it); each ID is in the gadget or in its file (`AndroidIds`); adb is linked but at `link` and
  `relink`, where the script's variable says so (`AndroidWhole`, broken by a stop there). For a gadget of our own it is
  enough that it is bound only while the files name it (`Luneos`). *MarkerHeld* follows from `Covered`: the pid
  in the marker is none that an older timer has. Each invariant says of a place in the scripts what has been done
  there, so the proof that a step keeps it goes command by command.

Only model-checked: all liveness (`LocksFollow`, `LiftLetsGo`, `OnIsNormal`, `OffIsSuspended`, `MarkerGoes`,
`ServedInTheEnd`, `ReadsReturn`, `CallsReturn`). `ListingIsWhole` says with numbers of names (`Rank`) what a filter of
the directory's sequence would say by recursion, so that it can be proved.
Liveness under fairness and ENABLED are out of the prover's reach, as are induction over data and RECURSIVE
operators; no module here uses the latter two.

## 5. What was seen while modelling

The runs state what does hold; each of the following is where the code differs from a comment or from what a
reader would expect, and where a property therefore has an exemption or stops short.

kbdscroll:

- a key press during the slide is said to cancel the gesture (`kbdscroll.c:15-17`); line 1097 sets `rejected` only
  before the slide scrolls, so a scroll in progress goes on (`TypingBeforeSlide` is about the key before it);
- `poll()` is said to come back with EINTR so that the loop can exit (1026-1027); a signal between the test on line
  1064 and `poll()` on line 1070 is noticed only when a finger or a key wakes the loop;
- a disappearing surface is relied upon to end the process (`kbdscroll.service:14-16`); `poll()` then reports POLLHUP
  and POLLERR without POLLIN, and the loop (1112) reads only on POLLIN and spins;
- a touch ignored because of typing scrolls after all once a second finger has come and gone
  (1269, against `kbdscroll.conf:78-79`);
- of two held modifiers the first release ends cursor mode (1092, against `kbdscroll.conf:87`);
- a chord that is read more than 150 ms after it was sent counts as typing, and its modifier as the user's (against
  641-644); within the 150 ms the user's own keys are swallowed, a modifier's press or release among them (1083).

luneos-remote-wakelock: a release of the service under a live session drops its lock until a restarted watcher
polls, and `unlock` drops a class that the watcher's connection check still holds it for, until the next poll. An adbd
that was busy is held by the poll after it, though it may be idle by then.

wlan-suspend-mode:

- a failed subscription is said to end the reader loop and restart the unit (363-365); the shell goes on only when the
  whole pipeline has ended, which a busybox `tail -f /dev/null` does not (366; `TailNotices`);
- `DOWNMARK` is "set while the interface is down *because we downed it*" (52); the fallback (319) also sets it on an
  interface the user had switched off, and the next screen-on switches WiFi on;
- a failed `undo_iface_down` is not tried again until the display goes off and on; a kill between the ioctl and the
  write of `STATE` leaves "already normal" for a driver that filters; one passing failure of the ioctl goes on to take
  the interface down, against the comment on line 248. `StateIsTrue` excludes these with `whole`.

luneos-mtp-gadget (`Harm` and `raced` in the model):

- a stop between lines 181 and 186 loses adb: it is out of the gadget, and only the script's variable knew (against
  lines 12 and 19);
- a stop between lines 143 and 145 leaves a state without the file `udc`, and cleanup leaves the gadget unbound;
- cleanup tries a busy UDC five times under a TimeoutStopSec of two seconds; if it is killed, the marker stays and the
  next prepare sees no bound gadget and builds one of its own;
- a timer that has tested the marker removes the one a newer run has made since (against lines 72-73).

squashfs:

- the array of buffer heads is sized for `block_size` (187-188) but used for metadata (8 KiB) and tables too, which may
  be longer than a block of 4096; `fill_super` does not look at it (2.6);
- an error stays in the cache with its block until the entry is claimed for another;
- a failed read under lookup is "no such name" and becomes a negative dentry, under readdir it is the end, and under
  the directory index (1744) it is not noticed; a symbolic link's page that could not be read becomes a page of
  zeros;
- version 2 leaves a half-read inode hashed, so that a later lookup gets it (`LookupAnswers`);
- a mount leaks `s_fs_info` when there is no workspace (1094) and the root inode when it cannot be read (1239);
  unmounting leaks `inode_lookup_table` (`Left`); a NULL of `new_inode` (1237) is not looked at;
- `SQUASHFS_MK_VFS_INODE` of version 2 wraps at 32 bits, and `squashfs_lookup_2` uses `d_add` where version 3 uses
  `d_splice_alias`; neither is modelled.

Further hazards, in no list of `PROJECT.json` because no property is near them: `kbdscroll.c` 596 (slots shared with
the touchscreen's driver), 1040 (a finger down at the start), 1175 and 1189 (an overflow inside a gesture), 1286 and
1092 (above), 1356 (killed with the contact down); `luneos-remote-wakelock:86` (a lock file that cannot be
opened); `wlan-suspend-mode:276`; in the Waydroid launcher `launchd` 241 and 322 and `waydroid-luneos-app.sh:314`; in
`start-android-hals.sh` 304 (a forced gate answered late).

## 6. Plan

Done: the three daemons, in this order because a phone that does not sleep, does not wake, or scrolls by itself is
what their users notice; then the squashfs driver from the block cache up to mounting, because everything above reads
through what is below; then the MTP gadget.

Next modules, most important first:

1. `WaydroidLaunch`: launchd's FIFO, launch threads, poller and status file, composed with the launcher scripts
   (`waydroid-luneos-app.sh` with its traps and polls) as the other party. Abstract specification: an instance
   is open exactly while its package has a task; the detailed one is expected to refine it only without the
   `close`-behind-`launch` order. Two instances of one package, one of another.
2. `KbdscrollInject`: the injected events one by one over the touchscreen's slot state, with real fingers, the
   kernel's de-duplication and SIGKILL; `Kbdscroll`'s one-step contact as its abstract specification.
3. `HalStart`: gates, grace period, late services; no gate forced and then answered twice, no service before its
   prerequisites.
4. `KbdscrollConfig` (precedence of option sources) and `AppPermissions` (`resolve_groups`) as operators against
   reference definitions.

Every safety property of the runs is proved; the theorems to come are those of the modules above.

## 7. Working with the project

From this directory: `tlc -config MCWlan.cfg WlanSuspendMode` checks a run (`PROJECT.json` pairs each run with its
module and configuration), `tlapm WlanSuspendModeProofs.tla` checks proofs. The longest runs (`wlan`, `kbd_words`,
`kbd_modes`, `wakelock`, `squashfs_volume`, `mtp_gadget`) take one to three minutes each on two cores.
`PROJECT.json` also maps every definition to the lines it models and lists the hazards of this code with the
properties that cover them.
