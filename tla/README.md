# Ausverse-OS in TLA+

A verification project for the kernel in `src/`: TLA+ modules for its file
system, its memory, its network stack and card, its console and its window
manager, TLC configurations that check them on small instances, and proofs,
checked by TLAPS, that take away the bounds. `PROJECT.json` lists the runs, the
definitions with the source lines they model, the hazards, the findings and the
theorems; this file explains them.

To check: `tlc -config <X>.cfg <MCmodule>.tla`; `tlapm <M>.tla` for `Fat32Proofs`,
`DirectoryProofs`, `HttpProofs`, `MemoryProofs`, `E1000Proofs`, `NetStackProofs`,
`ConsoleProofs` and `DesktopProofs`.

## 1. Inventory

The kernel is one address space and one thread: `kernel_main` initialises the
devices and runs the shell, which runs one command at a time. What runs beside
it are interrupt handlers (timer, keyboard, mouse) and hardware: the disk, which
can lose power, the network card, and what is at the other end of the wire.

| component | state it keeps | operations | used by |
|---|---|---|---|
| FAT32, `fs/fat32.c` | FAT, clusters, directory slots on disk; one FAT sector and one cluster buffer in memory | find, list, read, write, append, create, delete | VFS |
| VFS, `fs/vfs.c` | current directory: a cluster and a path string | resolve, stat, read, write, append, create, mkdir, delete, chdir | shell, pkg, elf |
| ATA, `drivers/ata.c` | none (polled ports) | read, write with cache flush | FAT32 |
| heap and pages, `core/heap.c`, `core/pmm.c` | block list, page bitmap and count | kmalloc, kfree, alloc, free | FAT32, elf, render |
| TCP and HTTP, `net/net.c` | one connection slot with an 8 KiB ring, a port counter, header buffer | connect, send, recv, close, http_get | shell, pkg |
| ARP, DHCP, DNS, ping, `net/net.c` | 8-entry cache, own and gateway address | request, then poll until a deadline | TCP, shell |
| e1000, `drivers/e1000.c` | two descriptor rings shared with the card | send, recv | all of net.c |
| keyboard, mouse, tablet | 256-byte ring; packet and position; a polled transfer descriptor | interrupt handler or poll, get | shell, window manager |
| window manager, `gui/wm.c` | 8 window slots, z-order, drag, dirty flags | open, close, raise, mouse, key, run | shell |
| rendering, framebuffer, font | pixels, text cursor, blink timer | draw, flush | all output |
| shell, pkg, ELF loader | line, history, static copy buffers | commands | the user |
| boot, interrupt tables, ACPI, PCI, PIC, PIT | tables; the tick counter | initialise, dispatch, shut down | all |

How they interact: by plain calls downwards, by polling (`e1000_recv` inside every
network loop), by shared variables with interrupt handlers (keyboard ring, mouse
state, text cursor, tick counter) and by callbacks (`dir_iter`'s entry callback,
`http_get`'s body callback, window paint and key handlers). There are no locks.

What is hard, and what makes each part correct:

* **FAT32.** Each operation is a sequence of disk writes without a journal; power
  may fail or a write may be refused between any two, and the disk may fill up in
  the middle. Correct means: chains are disjoint and lead to no free cluster,
  clusters are not lost, a call that returned 0 is readable back, other files do
  not change, the loops over chains end.
* **Directories.** A long name takes several slots, which two functions read with
  different rules. Correct means: the listing is exactly what was created, slots
  are neither orphaned nor overwritten, what is found can be deleted.
* **TCP and HTTP.** One slot, no retransmission, no sequence check, frames of old
  connections still in the card. Correct means: acknowledged data is kept and in
  order, connections do not mix, the callback gets the body, calls return.
* **VFS.** Cluster and path of the current directory are kept separately and may be
  deleted under it; clusters are used again. Correct means: path and cluster name the
  same directory, directories form a tree, a call acts on the node its path names.
* **Heap, pages.** The memory map is what the machine says. Correct means: blocks tile
  the heap, none is handed out twice, free memory is whole again when the callers are
  done, the counters agree with the bitmap.
* **e1000.** Driver and card work on the same descriptors. Correct means: each ring is a
  queue, a full one is not taken for an empty one, a descriptor comes back.
* **ARP, DHCP, ping, DNS.** One thread that waits for one thing at a time and throws
  the rest away, on a network that answers late, twice or never, and that other
  machines with the same transaction id share. Correct means: packets go to their next
  hop, the lease is one that was offered and asked for, an answer is to a question that
  was put, every call ends.
* **Line editor and screen.** The editor redraws character by character while the timer
  blinks the cursor. Correct means: the screen shows the line, no underline is left
  behind, the history is what was entered.
* **Window manager, pointer.** Handlers change the windows in the middle of a drag;
  two devices and a timer run beside the loop. Correct means: order, slots and drag
  agree, the screen is never half painted or outdated, the pointer is where it is.

The hazards in `PROJECT.json` give the line at which each of these bites.

## 2. Plan

Modelled and checked, in this order - what can destroy a user's data first, then what
can hang the machine, then the rest:

1. `Fat32` with `Fat32Proofs`
2. `NameSpace` (abstract) and `Directory` (detailed, implements it), with `DirectoryProofs`
3. `Tcp`, and `Http` on top of it
4. `Tree` (abstract) and `Vfs` (detailed, implements it), with the shell's commands
5. `Pmm`, `Heap` on its pages, and `Memory`, the kernel that uses both
6. `FrameQueue` (abstract) and `E1000`, driver and card, whose two rings implement it
7. `NetStack`: ARP under DHCP, ping and DNS
8. `Console`: line editor, history, screen and blink
9. `Pointer`, and `Desktop` on top of it

Each of 1 to 3 and 5 to 9 has a module of proofs; section 6 says what they prove. What is
left are the invariants of `Vfs` and the refinement `KeepsTree`. No module uses
RECURSIVE operators, so it could be proved about too.

## 3. Modules

### Fat32

One directory of files (and subdirectories, whose own children are left out) on a
volume of `NumClusters` clusters. `fat` is the table, `data` the clusters,
`dirent` the entries by name; an entry takes one slot, `DirSlots` to a cluster.
`pc` is the place in the running operation, and the other locals have the code's
names: `walk` is `c` of `fat_free_chain`, `first`, `prev`, `written` those of
`fat32_write`, `got` what `fat_alloc` returned. The steps are the disk writes:

| action | code |
|---|---|
| `CallWrite`, `CallAppend`, `CallCreate`, `CallMkdir`, `CallDelete` | the operation up to its first write; for delete, with that write, the 0xE5 mark |
| `FreeCell`, `FreeEnd` | one turn of `fat_free_chain`; its last `fat_set`, through the end mark (`ZapEoc`) |
| `ResetEntry` | `dir_update_entry(.., 0, 0)` of `fat32_write` |
| `FatAlloc`, `FatLink`, `DiskFull` | `fat_alloc`: take and mark a cell, link it, none left |
| `WriteData`, `WriteDataError`, `MkdirDataError` | `write_cluster` of a chunk or of a new directory |
| `DirAlloc`, `DirLink`, `DirZero`, `DirFull` | `find_free_slots` enlarging the directory |
| `WriteEntry`, `EntryError` | the final entry; a directory write that fails |
| `LosePower` | only the disk is left; the volume is mounted again |

`goal`, `file` and `health` are history variables. `file[n]` is what callers may
believe `n` holds. `health` says what an interrupted operation may have left:
`leaky` (clusters that belong to nothing, which the format tolerates) or `torn` (an
entry whose chain is partly freed, which the code cannot exclude, as it has no
journal). The safety properties are claimed up to `torn`: that the code gets no
further than that is a fact about it. `ChainsEnd`, on which every loop over a chain
depends, is claimed of torn volumes too, with the one exception that section 5
describes: a cell that leads to itself. `ZapEoc` is the store through the end mark with
which `fat_free_chain` ends; `EocVictim` is the cluster it falls into, 0 on a disk up
to 1 GiB, which is what the runs take.

Left out: read errors, a failed write of a FAT sector (`fat_cache_flush` ignores it
too), the copy in the second FAT, the sector cache (written through on every
`fat_set`). The emptiness test before a directory is deleted is in `Vfs`.

### NameSpace and Directory

`Directory` is the same directory seen slot by slot: `slots` is the sequence of all
32-byte slots, cluster after cluster; a name is a sequence of 13-character parts,
and a record stands for each slot (`Zero`, `Deleted`, `Label`, `Lfn`, `Short`).
`Walk` is the loop that `dir_iter` and `delete_iter` share; the argument `strict`
is what distinguishes them. `Create` is everything in `fat32_create` up to the
first slot written, with `find_free_slots`; `PutLfn`, `PutShort` and `MarkDeleted`
write one slot each; `Interrupt` is a failed write or a power loss. `known` and
`whole` are history variables: names created and not deleted, and whether no
operation broke off. `Alias` is `make_83` as a function on names; in the model
`x` stands for a name that is its own alias, such as `abcdef~1`. `Header` is what a
directory is made with: "." and ".." by `fat32_create`, a volume label or nothing in a
root directory that `mkfs` made. The assumptions on names say what holds of any: no part
is empty of characters, "." and ".." are no names to create (the callers resolve
them), and an 8.3 name has one part.

`NameSpace` is what a directory promises: a set of entries, entered and removed at
once. `KeepsPromise` checks that the slots implement it, with `Entries`, what
`dir_iter` shows, for its variable; a delete may first degrade an entry to its 8.3
alias, and this is all that a crash can leave.

### Tcp and Http

`Tcp` is the connection slot and its functions, with the peer and the link as far as
the code depends on them (marked external in the map). Data is counted in units,
and unit `i` of connection `p` is `<<p, i>>`, so that the properties can tell what
came from where. `Http` is `http_get`: `pc` is "connect" in `tcp_connect`'s loop,
"read" before and "take" behind `tcp_rx_once` in `tcp_recv`. `TcpRxOnce` takes the
next frame of the card, as the code polls it; between two frames the peer and the
link move. A poll that finds nothing changes nothing and is left out, so a client
that polls for ever shows as a behaviour that stops.

The peer answers a SYN, sends its response after the request in segments of any
length up to `Mss`, and closes; with `Faults` it may also reset, fall silent or send
again, and the link may lose a frame. It does not reorder or invent data.

### Tree and Vfs

`Vfs` is `resolve_path` and every call of `vfs.c`, with the shell's file commands as the
actions: `Create` (touch), `Mkdir`, `Write`, `AppendTo`, `Delete` (rm), `Copy` (cp),
`Mv` (mv), `Chdir` (cd). Below it `fat32.c` is taken call by call, as an operator on
`disk` that returns the new disk and the code's result: clusters, their use, and what a
walk finds in each, including the ".." entry and the contents that a freed directory
cluster keeps until it is used again. A path is a sequence of components; `Resolve`
goes through them as the loop does. Calls that change nothing are left out.

`tree`, `misused`, `gone` and `plain` are history variables. `tree` is what the callers were
promised: each action changes it at the node that the path names, read as text
against the prompt, and `DiskHoldsTree` says that the disk agrees. `cmd` is the command
that came last. `misused` is set when a caller replaces the contents of a directory, or
".." itself, which the code lets him do; nothing is claimed afterwards.

Two other things that go wrong are followed, as they are the code's doing: a call whose
path leads through the ".." of a first-level directory, which names cluster 0, and a call in
a current directory that was deleted. Both return 0 and leave a node where no path leads.
`lost` has the clusters they use up, and `TreeIntact` accounts for every other used cluster,
by an entry that the root leads to. `gone` says that the current directory was deleted,
`plain` that the prompt has no ".." and was not cut.

`Tree` is the abstract specification: a function from paths to directories and files of
some size, and for each command the steps it may take. touch and mkdir make a node where
there is none, write and append change or make a file, rm drops a node with nothing
below it, cp stores a file, mv moves one. A file goes only by rm and mv, and with mv
its contents are at the target - except, as in the code, when the target is the source
itself or in a directory that is in the tree no longer: mv then drops the only copy.
`Mv` calls such a command "mv astray", and no other may do it. `KeepsTree` is the
refinement.

### Pmm, Heap and Memory

`Pmm` has the page bitmap and counters with `pmm_init`, one region of the memory map a
step, and the two calls. `Heap` has the block list as a sequence in address order, with
`Kmalloc` and `Kfree` as operators. `Memory` is who uses them: boot (`alloc_pages` page by
page, with the page it gives back when one does not follow), the mount, an append and
`elf_exec` with all its ways out. `asked` is a history variable: the bytes each pointer was
allocated for. Addresses are bytes, `HEADER_SIZE` and `MIN_SPLIT` are the code's.

### FrameQueue and E1000

`E1000` is driver and card. The driver's calls are cut where the card can come between:
waiting for a descriptor, filling it, the tail register; copying out, giving back, the
tail register. The card (external) sends what lies between its head and the tail and
later writes the DD bit, and stores what arrives, buffer first, DD bit second.
`FrameQueue` is a bounded queue; `TxQueue` and `RxQueue` are what the two rings hold of it
(the frames of `Unsent` and `Unread` descriptors), and `SentInOrder` and
`ReceivedInOrder` the refinements.

### NetStack

One `pc` for the loop the kernel is in. `IpSend` is `ip_send` up to the wait for an ARP
answer: then `pc` is "resolve" and `back` the loop to return to, and the frames `arp_resolve`
is not interested in are lost with no step of their own. `Discover`, `DhcpOffer`, `DhcpAck`
are `dhcp_run`, `Ping` and `DnsResolve` the two request calls. A host may answer what it was
ever asked as often and as late as it likes, or not at all; a DHCP server also
broadcasts offers and ACKs to another machine that runs this kernel, which `dhcp_run`
cannot tell from its own. An ARP frame may come at any time: `Resolve` and `NetPoll` learn
from it, and `Discard`, which stands for the loops of dhcp, ping and dns, throws it away.

`announced` (the hardware address each host announced last, whether or not anyone took
note), `missed` (the hosts whose last announcement was thrown away), `astray`, `asked`,
`offers` and `foreign` (an ACK for the other machine was taken) are history variables.

### Console

`todo` is what the foreground has yet to put on the screen: positions, characters, new
lines; `Draw` and `Move` are the two halves of `vga_putchar` and `fb_set_cursor`, between
which the timer's `Blink` may come. A key is handled when `todo` is empty. The screen is
characters and the set of places that show an underline. `recent`, `scrolled` and
`crossings` are history variables: the lines entered, whether the screen scrolled under
the line, and ticks that fell between two halves.

### Pointer and Desktop

`Pointer` is the position and button as the PS/2 interrupt or the USB tablet leave them,
with the transfer descriptor and data toggle the tablet shares with its controller, and the
report buffer, which starts as zeros.
`Desktop` is `wm.c`: a round of `wm_run` is `Wake`, `HandleMouse`, `Key` or `NoKey`, `Draw`,
`Paint`, `Flush`, and the timer, the seconds and the pointer move in between. The key
handler of a window is not part of the manager: it opens, closes or raises any
window. `stale`, `torn` and `shown` are what is on the screen, as far as the properties
tell it apart.

## 4. Runs

| run | expected | question |
|---|---|---|
| `fat32_full` | pass | no crash, no write error, but a disk that fills up: `ReadBack`, `NoLostCluster` |
| `fat32_crash` | pass | power loss and failed writes anywhere: `NoCrossLink`, `NoDangling`, `DirIsDir`, `ChainsEnd`, `OthersKept`, `TypeOK` |
| `directory` | pass | the listing, orphaned slots, other names, refinement of `NameSpace`, with one interruption |
| `directory_hole` | violation | a creation that returned 0 can be found |
| `vfs` | pass | the directories form a tree and no cluster is unaccounted for, the prompt is true, the disk is what was promised, each command does what `Tree` says |
| `memory` | pass | counters, pages of the heap, tiling, buffers, wholeness of what is free |
| `http` | pass | two requests with losses, resets, silence, repetition |
| `http_split` | violation | the callback gets the body, when the header comes in two segments |
| `nic` | pass | both rings are queues, the receive ring is full only of unread frames, descriptors come back |
| `netboot` | pass | next hops, the lease, answers to questions that were put, calls end |
| `console` | pass | the screen shows the line, no ghost of the cursor, the history |
| `desktop` | pass | the windows' order, what is on the screen, where the pointer is shown |

`TypeOK` is stated in every module. For the eight with proofs it is a theorem; as a
run's property it is kept in `fat32_crash`.

Bounds. In `fat32_full` four clusters and two names are enough for a directory that grows,
a file of two clusters, a cluster freed by one file and taken by the other, and a full
disk; payloads of none, one and more units give files that end inside a cluster and at
its end (`ClusUnits` 2) and chains of one to three clusters. In `fat32_crash` three names on
three clusters make the directory grow past a cluster that a stale entry still claims,
which is how a torn volume gets its self-link; with two names it does not happen. The run
goes on from torn states; of those, where no property speaks of contents, the view
`MCView` keeps the lengths of contents, on which alone the table and the entries
depend. `MaxUnits` bounds what an append may build.

In `directory` three names, two of one part and one of two, give runs of two and
three slots that leave gaps of both lengths; `DirSlots` 2 lets runs straddle clusters,
and four clusters fill up. The run's constraint `NoHole` cuts off the states that
finding `directory_hole` is about (a never-used slot before a used one), so that the
other properties are checked in what remains; `directory_hole` uses a volume label,
which shifts the slots by one, as on the root directory that `mkfs.fat -n` makes. On
a disk of 512-byte clusters (16 slots) a label and seven names of two slots get
there; the model has smaller clusters. Where all comes in pairs of slots the constraint is
an invariant; that is proved (section 6).

In `http` a header of one unit and a body of two arrive in one to three segments, the
ring of three is one larger than a segment, and two connections follow one
another. One frame is lost or the peer falls silent once in a behaviour, resets come
before that, and the peer sends again once on a connection: enough for a gap, a
repetition and a late frame of the first connection in the second. The run stops
after the second connection, hence no deadlock check.

In `vfs` two names on a volume of four clusters give three levels, a full disk, and
cluster numbers that come back for another use; ten paths, absolute and relative, with
".." at the start, in the middle and at the end, and five pairs for cp and mv, one of
them of a file with itself. The constraint `Bounded` stops at a misuse, at trees of more
than four nodes and at more than one cluster lost (`MaxLost`); the pwd buffer has room for
two components, so that it is cut. The view `MCView` leaves out what decides nothing: the
last command, the entries in clusters that no walk from the root or the current directory
reaches, and the prompt where nothing is claimed of it.

In `memory` a page has 64 bytes and the machine ten pages; all 1024 maps of two regions
from a set whose ends lie on, beside and across pages, available or not, include
overlaps, holes and too little memory. The sizes asked for are on both sides of a split
and of a multiple of 8.

In `nic` the rings have three descriptors, so that both wrap and fill, and frames two
contents. In `netboot` two DHCP servers, one without a gateway, each with an address for us
and one for another machine, a router that changes its card, one host beyond it, and a
cache of two entries that overflows. In `console` a
screen of three rows of two columns, lines of two characters (so that with the prompt a
line fills a row, wraps and scrolls), a history of two, and at most one tick between
the halves of an output. In `desktop` two windows that overlap on a screen of 8 by 7 and
three places for the pointer, which are a title bar, a close button or another window
according to where the windows are, and the corner, where a failed first transfer of the
tablet puts it.

Fairness. `http`: weak fairness of the client's steps while a call is running, of
`ConnectTimeout` (the timer interrupt advances the clock that `tcp_connect` reads)
and of the peer and the link for what they have to do. Nothing is assumed of
losses. `GetReturns` therefore holds only while nothing is lost.
`nic`: the card works off its ring, and a call that has filled a descriptor goes on to
the tail register; nobody need call the driver. `netboot`: the clock passes the
deadlines, and a loop whose deadline is past ends; nothing of the network.
`desktop`: the loop is the only foreground and each hlt ends with the next timer
interrupt; seconds pass; nobody need move the pointer or press a key.

Deadlock is not checked in `vfs`, `http` and the finding `http_split`: calls that change
nothing are no steps, and the HTTP runs end after the last connection.

Each property of a passing run has a mutant in `PROJECT.json`: a definition of the
model, changed as a slip in that code would change it (marked `slip` in the modules),
under which the run fails.

## 5. Findings

Two runs show the code at odds with its own headers:

1. **A created file may be invisible** (`directory_hole`, `fat32.c:697`): an entry that
   does not fit in the never-used slots of the last cluster goes behind them. It takes an
   odd number of slots to get there, by a label or by a name of more than 13
   characters: `PairsLeaveNoHole` is a proof that a subdirectory of shorter names is safe, and
   `CreatedFoundWithoutHoles` that there is no other way to lose a created name.
2. **A body is cut when the header spans two segments** (`http_split`, `net.c:633`).

### Observations

Met while modelling and followed by the models, without a run of their own:

* An append that fills the disk loses the file: the old chain is freed before the new
  one is allocated, and the entry is not reset (`fat32.c:939`, `949`).
* An entry that kept its chain after the clusters were freed (power lost in a
  rewrite, or the observation before) may share the directory's last cluster later.
  Deleting it frees that cluster, and `find_free_slots` then takes that very cluster to
  enlarge the directory and links it behind itself (`fat32.c:697-701`); from then on every
  walk of the directory that does not meet a 0x00 never ends. `ChainsEnd` says that this
  is the only cycle there can be.
* Freeing a chain stores through the end mark (`fat32.c:243`), on a disk above 1 GiB into
  the data area.
* After an interrupted delete a file is listed under its 8.3 name, and `fat32_delete`,
  which decodes long names less strictly, may not find it by that name (`fat32.c:1065`).
* `http_get` polls for ever when the peer falls silent (`net.c:617`).
* `vfs_write` and `vfs_append` onto a directory replace its contents by data
  (`vfs.c:223`); `vfs_delete` takes "..", of which the parent then knows nothing.
* `mv a a` deletes the only copy (`shell.c:422`), and a file over 8192 bytes is cut.
* `cd ..` fails in a first-level directory: its ".." names cluster 0 (`vfs.c:325`). From
  there `mkdir ../a` and `touch ../a` return 0 (`vfs.c:259-288`) and make nothing that a path
  leads to; the disk loses one or two clusters.
* The current directory may be deleted; the kernel goes on working in its cluster. What is
  made there is nowhere, `mv` into it loses the file, and once the cluster is a file's the
  entries are written into that file.
* `kfree` merges with what follows only, where `heap.c:20-22` speaks of all adjacent
  blocks. The callers' order makes up for it (`FreeIsWhole`).
* `elf_exec` asks for 1 MiB (`elf.c:46`) from a heap that never has as much: it always
  answers "out of memory".
* An offer without a gateway leaves the one before; with two servers, address and
  gateway may be of two offers (`net.c:327-345`).
* The DHCP transaction id is a constant, answers are asked for by broadcast, and whom they
  are for is not looked at (`net.c:267`, `274`, `318`): of two machines that boot this kernel
  together, one may take the other's address. `LeaseFits` holds but for that (`foreign`).
* Pings and queries carry a constant identifier, so a late or repeated answer to an
  earlier one is taken for that of the call under way (`net.c:383`, `713`); a ping whose
  own packet never left, for want of an ARP answer, may succeed on it.
  `AnswersARequest` is what remains true.
* The loops of dhcp, ping and dns throw ARP frames away (`net.c:311`, `379`, `706`): requests
  for our address are not answered, and a host that announces a new card meanwhile is sent
  to at the old one (`missed`). Without a gateway, packets for beyond the subnet go to
  whoever probed with address 0.
* When a line scrolls the screen, the row where it starts is not corrected, and further
  editing goes to the wrong row (`shell.c:83-94`), at the bottom to one below the last, where
  drawing does not look at the row (`framebuffer.c:66-87`).
* A tick between the drawing of a character and the step to the next leaves an underline
  behind (`framebuffer.c:162-187`; `crossings`).
* A motion between the two looks of a round is not noticed until the next second
  (`wm.c:320`).
* A failed transfer of the tablet is taken for a report, and the next report is lost
  (`usb_tablet.c:682-712`); if it is the first, the pointer jumps to the corner, as the
  buffer is zeroed (`usb_tablet.c:639`).
* With all transmit descriptors in flight the card reads the ring as empty and stops
  (`e1000.c:219`; `Wedged`).

## 6. Proofs

Every theorem is of the component's specification and holds for all values of its
constants under the assumption named in its module. Every inductive invariant was
checked by TLC on the run's instance as well (an unbounded \E cut to the run's range). `TypeCorrect` is proved in
each of the eight modules, from `TypeOK` alone where that is inductive and as a
consequence of the invariants below where it is not.

**`Fat32Proofs`**: any number of clusters, cluster size, names and payloads, power losses
and write errors included (`Fat32Assumption`: sizes are positive, the end mark is no
cluster number, payloads are sequences).

* `OwnershipInvariant`, and from it `CrossLinkFree` and `DanglingFree`. `NoCrossLink` and
  `NoDangling` speak of reachable clusters and are not inductive: a step changes one FAT
  cell, and what that does to reachability depends on every other cell. `Ownership` says
  it locally. Every place a chain may start - the directory, an entry, the rest of a
  chain being freed, the chain being built, a cell taken and not linked yet - is a root;
  no cluster has two references among links and roots, and none that is referenced is
  free (`OneOwner`); `Phase` says what the locals mean at each point. Five lemmas say
  what the kinds of update do to `OneOwner`; one lemma per action applies them.
  `ReachDisjoint` and `ReachUsed` draw the properties from it without induction:
  `Reach(c)` is the least set closed under links, and suitable closed sets are given.
* `NoCycles`: `ChainsEnd`. Its invariant, `Marked`, is the property itself: a `fat_set` that
  frees or marks a cell takes a link away (`MarkEnds`), and one that links leads to a
  cell that was just marked (`LinkEnds`), which on an undamaged volume is not the linking
  one, by ownership.
* `NothingLost`: `NoLostCluster`. The invariant, `NoneLost`, is the converse of ownership in
  the same style: every closed set that holds all starts holds all used cells
  (`Covered`). Four lemmas for the updates, one per action.
* `DirectoryKeepsSlots`: `DirIsDir`, and `OthersUntouched`: the action property `OthersKept`.
  `BuildInv` says that the cluster a step will write is on the chain under construction or
  on the directory's; with ownership, it is then on no other file's (`StepWritesOwn`,
  `OwnIsNotOthers`). `SameContent` concludes that what is read is unchanged; it rests on the
  existence and uniqueness of the walk along a chain, which are shown by least
  counterexample. Both assume that the store through the end mark falls into no
  cluster, as on a disk up to 1 GiB, which the run assumes too; on a larger disk the
  first observation about it in section 5 applies.
* `WrittenIsRead`: `ReadBack`, under the same assumption. `FileInv` adds to it what a running
  operation has promised (`Promised`): the data it was given is what the name will hold, and
  there is a path of clusters from `first` to an end mark (`Path`) that holds the data piece
  by piece as far as the loop has come (`Building`). `BuiltStep` has a case per kind of write;
  the end of a path is moved only by the operation that builds it, as the directory's
  chain is apart from it. `PathIsChain` and `HoldsReads` say that the loops of `fat32_read`
  follow such a path and return the data: a walk and a read are recursive functions,
  and both lemmas go by the least index at which they could differ. `OthersStep` keeps
  the other names.

**`DirectoryProofs`**: any names, alias function, cluster size, header and largest
directory, with a power loss or failed write at any slot (`DirectoryAssumption`,
`HeaderAssumption`).

* `StructureInvariant`, and `TypeCorrect` from it. `Structure` needs no condition: every 8.3 slot
  behind the header belongs to some name and has that name's LFN slots before it, all of
  them or the last ones (`Block`); while an entry is written its first slots stand and the
  rest are free (`Putting`), and what a deletion marks is one block (`Marking`).
* The walks are recursive functions over the slots. `VisibleIs` and `DeletableIs` say, slot by
  slot, what they return on a directory with this structure, by the least slot at which
  they could differ; from there on no proof looks into the recursion. `CompleteFound`: an
  entry that is complete before the first 0x00 slot is found, under its name, by both.
* `WholeInvariant`: while no operation was cut off, the complete entries are the known names,
  each once, and every other used slot belongs to the operation under way. It is a theorem
  of `Spec /\ []NoHole`, as are `CreatedFoundWithoutHoles`, `NoOrphansWithoutHoles`,
  `ListsKnownWithoutHoles`, `OthersKeptWithoutHoles` and `ImplementsNameSpace` (`CreatedIsFound`,
  `NoOrphanSlot`, `ListsKnown`, `OthersFound` and the refinement `KeepsPromise`, step by step):
  finding 1 is that they are false without, and the run `directory` has the same
  hypothesis as its constraint. The theorems say that a hole is the only thing that goes wrong.
* `PairsLeaveNoHole`: where names have one part, and the header and a cluster an even number
  of slots (`PairsOnly`), and no operation is cut off, `NoHole` is an invariant.
  `Paired`, the inductive one, says that slots `2i-1` and `2i` are free or used together
  except under the operation. `PairsKeepEverything` draws the other properties from it, with no
  condition left. (TLC checked `Paired` with three names, clusters of four slots and the
  header "." and "..", which no run has.)

**`MemoryProofs`**: any memory map, page size and number of pages, any sizes asked for
(`PmmAssumption`, `HeapAssumption`, `MemoryAssumption`: a map is a sequence of regions, a
page is larger than a block header).

* `PagesAreCounted`: `PagesCounted`. The invariant `CountInv` has the loop of `pmm_init` in it: the
  bitmap counts up to the page the loop has come to.
* `HeapHasItsPages`: `HeapOnOwnPages`, from `PlaceInv`: the pages `alloc_pages` has taken so far
  are consecutive, marked and offered by the map.
* `HeapIsTiled`, `BuffersStayApart`, `FreeStaysWhole`: `Tiled`, `BuffersApart`, `FreeIsWhole`, from
  `HeapInv`. None of the three is inductive, as `kfree` merges forwards only: the invariant
  says that the blocks are those of the buffers in the order in which they were
  allocated, followed by one free block (`Packed`). That the callers free in reverse is
  what keeps it.

**`HttpProofs`**: any number of connections, response, segments and ring, under loss,
repetition, reset and silence (`TcpAssumption`, `HttpAssumption`: a segment is smaller than
the ring, 1514 bytes against 8192, and fits in one chunk of 4096).

* `LateFramesAddNothing`: `OwnDataOnly`, from `NetInv`, which types the frames on the way, and
  `OwnInv`, which has the ring empty except between `tcp_rx_once` and the copying out.
* `AcknowledgedIsKept`: `AckedIsKept`, from `OrderInv`: while nothing is lost the frames on the
  way are a chain from what is acknowledged to what the peer sends next. The assumption
  is needed: with a ring no larger than a segment the property is false.
* `CallbackGetsBody`: `BodyExact`, from `StreamInv` (what was received is the beginning of the
  stream) and `BodyInv`, for the responses of which it is true: `HeaderWhole`, the header
  comes in the first segment and fits in `hdr_buf`. Finding 2 is that it is false without.

**`E1000Proofs`**: any length of the two rings (`RingSizes`: one transmit descriptor, two
receive descriptors at least).

* `ReceiveRingIsQueue` and `SendRingIsQueue`: the refinements `ReceivedInOrder` and `SentInOrder`, step
  by step. `RxInv` and `TxInv` say which descriptors are the card's, which the driver's and
  which in between, as intervals of the ring modulo its length.
* `FullRingIsUnread`: `FullOnlyOfUnread`.

**`NetStackProofs`**: any hosts, servers, names and size of the ARP cache, any delay, loss
and repetition (`NetAssumption`: the hosts on our network and those beyond it are
different, the leases are nobody's address, broadcast is no missing address).

* `PacketsReachNextHop`, `LeaseIsGranted`: `SentToNextHop` and `LeaseFits`, from one invariant,
  as `ip_send` may wait for ARP in the middle of each call: what the loop to return to
  knows (`CallInv`), which requests are in hand or out and for whose offer (`LeaseInv`), and
  `CacheInv`: one entry for an address, of a card of that host, the one announced last
  unless a loop threw that announcement away. `CacheFollowsAnnouncements` states the last.
  The announcements are recorded as they come, whether or not the kernel takes note; ACKs
  and offers for another machine come at any time.

**`ConsoleProofs`**: any size of screen, line and history (`ConsoleAssumption`: they are positive).

* `CursorLeavesNoGhost`: `NoGhost`, from `UnderlineInv`, which knows the half of an output that
  is missing.
* `ScreenIsTheLine`: `ScreenShowsLine`. The invariant says, for each place, what the output
  still to come leaves there: the rest of the line is drawn from `x` to `y`, and every place
  outside already shows what it should (`Redrawing`); before that the old line is blanked,
  and nothing behind `start` is in the way but what the blanks will cover (`Blanking`). Once
  the screen has scrolled under the line only the places behind it are claimed
  (`Mine`), which is what the next line needs to begin on blanks (`Between`).
* `HistoryIsRecent`: `HistoryRecalls`, from `RecallInv`: the ring holds the last lines, indexed
  modulo its size.

**`DesktopProofs`**: any number of windows, geometry, places of the pointer and behaviour of
the key handlers (`DesktopAssumption`).

* `StackStaysSound`: `StackSound`, from `StackInv`. `ScreenIsCurrent`: `ShownIsCurrent`, from `PaintInv`, which
  ties what is outdated to the flag that will repair it.

Only model-checked:

* `Vfs`, all properties, among them the refinement of `Tree`: what `Resolve` computes is a
  recursive function over a path, to be related to another one over the tree, along
  directories that are deleted and whose clusters are used again.
* `AnswersARequest`.
* Liveness, out of the prover's reach: `ConnectEnds`, `GetReturns`,
  `DescriptorReturns`, `CallEnds`, `CursorSettles`.

## 7. Not modelled

* Read errors of the disk. `fat32_find` takes one for a missing file (`fat32.c:586`), and
  a creation may then make a second entry.
* The keyboard's ring: each index is written by one side only, and what could go wrong is
  in the table of scan codes.
* ATA, PCI, ACPI, PIC, the tablet's enumeration, boot and interrupt entry: register
  programming and table scans in a fixed order, whose correctness is in the values.
* Painting: pixels, fonts, colours.
* Parsing: HTTP status digits, DHCP options, DNS names, ELF headers, checksums; pure
  functions of their input.
* The package manager, a line parser over `http_get_buf` and `vfs_write`.
* The wrap of the millisecond clock after 49.7 days (`net.c:526`), which ends deadlines
  early or never.

`PROJECT.json` gives the reason for each component.
