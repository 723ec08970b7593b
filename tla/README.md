# A TLA+ model of ParanOS

ParanOS (`src/kernel`) is a small operating system for x86_64. Limine boots it;
it sets up interrupts and drivers, mounts a FAT32 or exFAT volume over ATA, and
runs a windowed desktop from one loop, `kmain` in `kernel.c`. The tree also holds
the sources of the boot loader (Limine, with its menu, file systems, protocols,
libfdt and the flanterm console). This project models the kernel's own logic and
the parts of the boot loader that have state worth checking.

1. [Inventory](#inventory)
2. [Modules](#modules)
3. [Runs](#runs)
4. [Findings](#findings)
5. [Behaviour kept in the models](#behaviour-kept-in-the-models)
6. [Fairness](#fairness)
7. [Proofs](#proofs)
8. [Not modelled](#not-modelled)
9. [Plan](#plan)

## Inventory

| component | state | operations | talks to | what makes it correct |
|---|---|---|---|---|
| FAT32 driver, `fs_fat32.c` | the volume: FAT, directories, data | path write, root write, create directory, read, list | ATA (one sector per call), `kernel.c` | what was reported written reads back; no cluster has two owners; nothing in use is free; names are unique; all of it whatever sector transfer fails and wherever power is lost |
| exFAT driver, `fs_fat32.c` | FAT, allocation bitmap, entry sets | path write, create directory, read, list | ATA, `kernel.c` | as above; bitmap and FAT agree; nothing leaks; the end marker is the end |
| ATA, `ata.c` | the controller's registers, a command in the device | read, write | file systems | it is a sector store: what lands, and when, whatever wait gives up |
| Tasks, `task/task.c`, `switch.S` | ring of tasks, states, slices | create, yield, schedule, tick, end | PIT | the ring is whole; one task runs, and it is the ring's head; the dead stay dead |
| Interrupts, `idt.c isr.c pic.c pit.c`, `panic/` | handler table, masks, lines in service | dispatch, acknowledge, panic | all drivers | every interrupt is served and acknowledged; a panic names the first exception, unless that was overtaken before it was recorded |
| Sound, `drivers/ac97.c`, `wav.c`, `kernel.c` | heap, rate, sample buffer, descriptor list, DMA engine | play | DMA engine, volume | what plays is the last sound that was started |
| Keyboard, `keyboard.c` | one scancode, modifiers | interrupt, poll, dispatch | `kmain` | a code is acted on once, in order; modifiers follow the keys |
| Mouse, `mouse.c` | packet bytes, position, buttons | interrupt, read | `kmain` | on the screen, follows the packets, one press one click, finds packet starts again |
| Windows, `wm.c` and `kernel.c` | seven windows, the front one, the picker, login | open, close, minimize, maximize, click, drag, resize, Alt+Tab, pick, login, logout | mouse, keyboard, desktop, volume | open windows are on the screen and within reach; a picker has its window |
| Session, desktop and applications, `kernel.c`, `desktop.c` | accounts, icons, explorer list and path bar, document, prompt, menus | boot, login, logout, save, create, delete, browse, pick | volume, windows | what is saved stays; a delete removes what was selected; a login shows the user's own files |
| Console, `flanterm.c`, `flanterm_backends/fb.c` | parser flags, attributes, grid, queue | write, flush, switches | boot loader's menu and messages | any byte sequence leaves a parser that parses, a queue that fits and a screen that shows the text |
| Memory map, `mm/pmm.s2.c`, `mm/pmm.c` | the entries, the firmware's copy | allocate, free, range, release, hand over | the whole boot loader | no memory is handed out twice, lost, or taken from the firmware |
| Paging, `mm/vmm.c`, `build_pagemap` | page tables | map, unmap, query | boot protocol, kernel | an address translates to what it was mapped to |
| Boot protocol, `protos/limine.c` | requests, answers, revision, paging mode | one step per feature | memory map, paging, processors | every request is answered, at a time when it can be |
| Menu, `menu.c`, `lib/config.c` | tree, selection, editor | keys, timeout, boot, failed boot | configuration, console | what is selected is what is shown and booted |
| Disks, `drivers/disk.s2.c`, `lib/part.s2.c` | volumes, block cache, firmware handles | index, match, read | firmware | volumes are the partitions while reads succeed; reads give the disk's data |
| Files, `fs/`, `lib/uri.c`, `pxe/` | a handle and its memory | open, read, read all, close | disks, network | a path opens the file that has it; memory is freed once |
| Configuration, `lib/config.c` | the text | load, macros, look up | menu, boot protocol | a value is what is written for it |
| Processors, `sys/smp.c`, `sys/cpu_riscv.c` | one shared block of parameters, places | start, wait, give up | boot protocol | each processor waits at its own place |
| Device trees, libfdt | a blob | write, edit, overlay, search | boot protocol | an edit does what it says or nothing, and leaves a sound tree |

Interaction: in the kernel one thread matters, `kmain`. It polls the keyboard and
the mouse, whose interrupt handlers share unprotected variables with it; it calls
the file systems synchronously; it draws. The scheduler exists and creates
threads, but the timer does not call it (see [Findings](#findings)). The boot
loader is sequential; its parts hand each other values (a volume, a file, a text, an
entry, a map) and meet the firmware, the other processors and the disk's content.

What is hard to test here:

* **Power loss and failing transfers.** A path write is four to ten sector writes
  with no journal. Whether the volume survives depends only on their order.
* **State somebody else made.** Volumes of a host, memory maps of a firmware, device
  trees, request lists: long chains, overlaps, duplicates, full tables.
* **Interrupts between two statements.** Look, read and clear of the keyboard's
  one-place buffer; the pointer, read once for the click and once more for the drag;
  an exception during the panic of another.
* **Time limits.** A disk that answers after the driver gave up; a processor that
  wakes up when its block of parameters is already about another one.
* **Lost bytes and cut sequences.** A mouse packet is three bytes without a frame; an
  escape sequence can end anywhere.
* **Long sequences of legal steps.** Seven windows with flags that are set in one
  place and cleared in another, a picker that outlives the session that started it.

`PROJECT.json` lists the hazards one by one, each at its line and with the
properties that would notice it going wrong.

## Modules

### Kernel

**Fat32** (`fs_fat32.c`, FAT32 half). `fat` and `sect` are the volume on disk;
`pc`, `path`, `comp`, `dir_cl`, `cl`, `found`, `at`, `target_cl` and `s` are the
local variables of the call in progress, with the names they have in C.
`fat32_write_file_path`, `fat32_ensure_dir_path` and `fat32_write_file_root` are
cut into steps so that each ends with at most one sector write; a read fault, a
write fault (the sector keeps its old contents) or a power loss (the call is
gone, the volume stays) may come at each of them. A sector is a row of 32-byte
cells; lengths are counted in sectors. `make_name83` is a parameter: a function
that may map two spellings to one name, as the real one does. `dirs`, `home` and
`acked` are history variables: the clusters that belong to directories, which
directory each of them is part of and at which place in its chain, and what each
path was last reported to hold. **Fat32Read** defines what `dir_find_entry`, the
reading and the listing calls return, by recursion over chains, and the
properties stated with them. **Fat32Proofs** holds the proofs, **MCFat32** the
volumes for TLC.

**ExFat**, **ExFatRead**, **ExFatProofs**, **MCExFat** (`fs_fat32.c`, exFAT half).
The same division. A directory cluster is a row of cells, an entry a set of FILE,
STREAM and NAME cells; allocator, bitmap, chain building and its undo, extension of a
directory and the update of a set are steps of one write each. `dirs`, `home` and
`leaked` are history: the clusters of directories, the path each belongs to, and
whether a call gave its new clusters up because the directory could not be extended.

**Disk** and **SectorStore** (`ata.c`). `SectorStore` is what the file systems
expect: one request at a time, sectors that land in order, a failed request that
has landed a part, and a last sector that may land after the request has ended but
not after the next has taken effect. `Disk` is the PIO driver with its waits and an
external device; `StoreRefined` says that it implements the store (the media are
the store, the device's progress is `landed`, a sector in the device's latch after
the call is `late`). Requests have at most 128 sectors and addresses below 2^28.

**Task**, **MCTask** (`task/task.c`, `pit.c`). The ring is the
function `next`; the boot thread creates tasks with `rq_push`'s two stores as two
steps; `schedule` runs with interrupts off and is one step. `Hooked` says
whether the timer interrupt calls `schedule_from_timer`: the comments say so,
`pit_irq` does not. Every task's page directory is NULL (`pmm.c:7`), so none is ever
loaded. With `Hooked` the functions are called as their comments have it, and where the
call would stand is left open: within the handler, before the acknowledgement, a switch
leaves the tick owed by the task that was switched from (`owing`), and no tick comes
until that task runs again. `SCAN_LIMIT` is the 1024 steps of the search.

**Irq** (`idt.c`, `isr.c`, `pic.c`, `panic/panic.c`, `kmain`'s boot order). A stack
of handlers that have begun, the two 8259 controllers with request, service and mask
bits, and a boot that goes on while interrupts may already come. Vectors 3 and 4
enter through trap gates. Exceptions come in whatever runs, `MaxFaults` of them, in
handlers and in the panic too; gate, record and screen of a panic are steps, and the
record (`g_panic_info`) is another variable than what is on the screen.

**Sound** (`sound_play_wav_path`, `kmalloc`, `resample_linear_16`,
`ac97_play_pcm`). The heap without free, the buffer and list that are rewritten while
the engine may read them, the rate register, which is set before the allocation that
can fail, the reset, and the 16-bit length that the mark of the last descriptor is ored
into. Sizes are scaled down.

**Keyboard** (`keyboard.c` and `kmain`'s dispatch of modifiers). The keyboard is
external and sends make and break codes, repeats the make code of a held key, and puts
a prefix byte before those of extended keys; `makes` is history and counts the repeated
ones. The loop's look, read, clear and dispatch are steps, the interrupt comes between any
two of them and overwrites the buffer.

**Mouse** (`mouse.c` and the edge detection of `kmain`). The mouse is external and
sends three-byte packets, of which a byte can be lost. Movements are 8-bit two's
complement bytes, and bit 3 of a byte decides whether the driver can take it for the
first of a packet.

**Windows**, **WindowsProofs**, **MCWindows** (`wm.c`, the windows of `kernel.c`,
`kmain`'s loop). The C globals `g_notepad`, `g_filewin`, ... are the records
`ws.win[w]`; `ws.front` is `g_front_id`, `ws.picker` is `g_file_picker.cb`,
`ws.login` is `g_login_active`. Operators on the whole state (`Open`, `Close`,
`PickerStart`, `Logout`, ...) carry the names and the order of the C functions; a
step is one round of the loop, composed of them as the loop is. What depends on
text (which menu entry, icon or file lies under the pointer) is left open, so a
click has several possible results; what depends on geometry (title bars, buttons,
taskbar, overlaps) is computed. Coordinates are the real ones.

**Session**, **SessionProofs**, **MCSession** (`kernel.c`, `desktop.c`). The complement of Windows: a
round of the loop with a key or a click on anything the loop would look for, and what
it does to accounts, icons, explorer, document, prompt, menus and the volume. The
volume is what the file system modules promise, missing directories that a write makes on
its way included. In every round the disk may refuse to read, to write, or a part of
either: a write then fails behind the data, which lies over the file's old data
(`Torn`), or behind the directories it has made (`late`), and a list ends at the sector
that cannot be read, with success. Lists read `LIST_MAX` entries (128 in the code),
the launch menu `LAUNCH_MAX`. `saved`, `chosen`, `listed`, `seen` and `late` are
history: what was last saved where, what the user's last selection was, and how much of
the directory the icons were read from.

**Terminal** (`flanterm.c`, `flanterm_backends/fb.c`). The whole byte parser as
operators on the context record, one client call a step; the backend's queue, grid,
map and cursor, and the pixels as a glyph and two colours per cell.

### Boot loader

**BootMem** (`mm/pmm.s2.c`, `mm/pmm.c`, `efi_exit_boot_services`): E820 or UEFI map in,
kernel map out; allocations punch entries into it. The raw and the kernel's map may only
be asked for behind the end of boot services, and both close the allocator
(`mphase`: closed, handed, released); a call at the wrong time is the panic it is in
the code. **Vmm** (`mm/vmm.c`, `build_pagemap`, `map_kernel_heap`): tables with two
entries each and four levels, of which two may hold large pages; a step of the loader is
one turn of a loop in `map_pages`, a page small or large. `vmm_alloc_page` keeps its
mask and the panic of its undoing.
**LimineProto** (`limine_load`): an image is a sequence of tags, the two
searches go through it tag by tag, then a feature is a step; the three calls of
`get_raw_memmap` are there, with what they refuse and close on UEFI.
**BootMenu** (`menu.c`): tree, keys (also one without a meaning, which only stops the
countdown), timeout, editor with its window and buffer, and
what the `no_unwind` variables keep over a failed boot.
**BootDisk** (`drivers/disk.s2.c`, `lib/part.s2.c`): partitions, with reads of their
tables whose failure nobody looks at (an entry is then what lay there, `Junk`), cache,
and the two ways a firmware handle is matched with a volume. **BootFile** (`lib/uri.c`,
`fs/`, `pxe/tftp.s2.c`): lookups on FAT and ISO 9660, TFTP, and every block of memory
that is taken on the way, with its type and place.
**BootConfig** (`lib/config.c`): normalising, with blanks and carriage returns, macros,
lookups against the text as it is written. **MCConfig** has the files for the finding
about blanks. **Smp** (`sys/smp.c`, `sys/cpu_riscv.c`, the x86 trampoline): the boot
processor and the started ones interleaved, with the block they share; four kinds of
machine (local APIC, GICC, device tree, harts).

**FdtTree**, **Fdt**, **FdtOverlay** (libfdt, `lib/fdt.c`, the loops over `/memory`).
A blob is a sequence of tags with sizes in words; each library function is an operator
that returns its result and the blob it leaves, defined from the code, and compared
with what it means for the tree (`Content`).

### Composition

The kernel's modules meet at interfaces the code keeps narrow: a file system call
sees the disk only through transfers (`SectorStore`), `Windows` sees the mouse only as
a position and a button, `Session` sees a volume of whole files. **MCDevices**,
**MCConsole** and **MCBoot** check several parts in one run. The parts share no
variables, so a behaviour of such a module is a behaviour of one part, chosen in the
initial state, while the others stand still; that keeps the sum of the state spaces
and not their product.

## Runs

Every property of a passing run has a mutant of the code in `PROJECT.json` that
breaks it. Several properties are conjunctions of named parts (`VolumeSafe`,
`ExVolumeSound`, `TaskSafe`, `TerminalSound`, ...); the parts are defined and
commented where the conjunction is.

| run | bounds | shows |
|---|---|---|
| `fat32` | 7 clusters of 2 sectors with 2 cells; formatted, full and host-used volumes; all three calls; three paths, two of which collide; data of 0 and 3 sectors; a failed read, or a failed write and a power loss | `VolumeSafe` (one owner per cluster, nothing in use is free, directories stay directories), `CallsReturn`; as long as no read has failed, `AckedReadsBack`, `NamesSound` (no name twice, the tree of directories is whole) and `FilesKept` (one directory per path, every path holds what it was last reported to hold) |
| `exfat` | 8 clusters of 9 cells, four of them free, three cells of the root taken by the system; sets of 3 and 4 cells; names that differ in case only; data of 0 and 2 clusters; a stale directory in free clusters; any number of calls | `ExAckedReadsBack`, `ExVolumeSound` (what the chains of the directories hold is what is in use), `ExVolumeSafe` (owners, bitmap and FAT, whole sets, nothing lost), `ExCallsReturn` |
| `exfat_end` | 10 clusters, a root directory with few cells left | violates `EndIsEnd` |
| `devices` | disk: 3 requests of up to 3 sectors, errors and timeouts at every wait; sound: 5 plays, 50 units of heap, 4 descriptors; interrupts: lines 0, 1, 12, 5 interrupts, 3 exceptions of vectors 3, 13, 14; tasks: boot, idle, two workers and a process, two of which end, slices of 2 ticks, a search of 2 steps, the functions called as their comments say; processors: the machines of `MCMachines`, 2 polls | `StoreRefined`, `LastSoundPlays`, `IrqSound`, `DriversAnswer`, `TaskSafe`, `RingWhole`, `ZombiesStayDead`, `OwnPlace`, `ProcessorsStart` |
| `task_pit` | the tasks `start_scheduler` creates, the timer as `pit.c` has it | violates `NoStarvation` |
| `console` | two Shift keys, Alt Gr, Caps Lock, 5 codes, repeated ones among them; a 3 x 2 screen for the mouse, extreme movements, 1 lost byte, any number of packets; a console of 3 x 4 cells, 4 writes out of 32 buffers | `KeyboardSound`, `MouseSound`, `InputArrives`, `TerminalSound` |
| `windows` | 640 x 480; six pointer positions (buttons, a shortcut, the viewer's corner, a corner of the screen), 3 clicks, any number of rounds | `WindowsSafe`, `CycleReachesAll` |
| `session` | two accounts, five names, an empty volume and one of a host; lists of 2 entries, a launch menu of 1; 7 rounds, or 6 and a disk fault | `DesktopSound`, `SavedStays`, `DeleteIsAimed`, `LoginShowsOwn` |
| `fdt` | trees of two node names and two property names in buffers of several sizes; overlays with fixups, symbols and colliding phandles | `TreeSound`, `EditsMean`, `OverlaySound` |
| `fdt_memory` | the same | violates `MemoryNodesGone` |
| `boot` | firmware maps of 3 to 5 entries, overlapping and nested, 3 calls; 16 frames, 3 mappings; 2,800 images with markers, revisions and requests on 50 machines; five trees of entries, 6 keys, 1 failed boot; disks with GPT, MBR and logical partitions, 2 failed requests, those of the tables included, 2 reads; four kinds of volumes and a server, 3 calls; configurations with macros, blanks and carriage returns, 1 lookup | `MapSound`, `MemoryKept`, `Translates`, `RequestsAnswered`, `MenuSound`, `VolumesSound`, `FilesSound`, `LookupsSound` |
| `config_blanks` | files of two lines, with and without blanks and carriage returns | violates `BlanksRemoved` |

Why the bounds are enough. FAT32: two sectors per cluster and two cells per sector
make "last sector", "last cell" and "next cluster" different cases; four free
clusters allow a directory, a file in it, an overwrite and a full volume; one
fault of each kind meets every step of every call, a failed write and a power loss also
together (`Bounded`), and the proofs cover any number and order.
exFAT: with four free clusters directories must grow and chains must fail half-way; nine
cells are no multiple of a set's, so that a cluster ends in a rest too small for the
next set, and sets do get behind END cells. Interrupts: three exceptions are one in a
handler, one in its panic and one in that one's. Tasks: a search limit shorter than the
ring makes it matter; five tasks are enough for a ring with an insertion between two others and two
zombies next to each other. Keyboard: five codes are both Shift keys down and
up with one more in between, or a Shift key down, repeated twice and up. Mouse: one lost byte shifts the frame, and the screen is
small so that every movement meets an edge. Windows: three clicks open a window,
start a picker and choose, close or log out; the number of clicks is bounded, the
number of rounds, and so of drag steps, is not. Session: seven rounds are a login, a
prompt with its text, a save and a logout, or a logout and the next user's login with
windows open before; restarts are not counted, and the proofs cover any number. A write
that makes directories and then fails (`late`) takes more rounds than that; that case
is covered by the proofs only. Disk: the third
request is the first that can meet the remains of two others. Sound: the heap is used
up by the fifth. Processors: with two rows to start the second meets a late first.
Terminal: 3 x 4 cells make wraps, scrolls and a full queue happen within a write.
Device trees: a buffer one word short of each edit's need is among the sizes. Memory
map: with three allocations one lands in a hole left by another; the map is small
enough to run full.

`CHECK_DEADLOCK FALSE` stands where a bound on inputs ends the behaviour (`devices`,
`console`, `session`, `fdt`, `boot`) and where the code stops for good (a panic, a
shutdown, the kernel entered). `MCFdt` has a `VIEW` that leaves out the record of the
last call, which no guard reads.

## Findings

* `exfat_end`: `exfat_find_free_set` leaves cells that mark the end of the directory
  in front of a set it puts into the next cluster; the file is written and cannot be
  found.
* `task_pit`: comments say that the PIT schedules; `pit_irq` only counts, so no
  created thread ever runs. Nothing calls `schedule_from_timer`, and a call would not be
  enough: `isr_common_handler` acknowledges the tick behind the handler, so that a switch
  within it stops the ticks until the first task runs again, and `ctx_switch`
  (`switch.S:21-34`) pops a frame that `prepare_kthread_stack` does not build. What run
  `devices` and the proofs say of tasks is only what these functions keep true of the
  ring and of the states, wherever they are called; nothing is said of who gets to run.
* `fdt_memory`: the loops that are to delete all `/memory@...` nodes look for a node
  whose name is exactly `memory@`; none is deleted.
* `config_blanks`: a comment says that blanks at the end of lines are removed
  (`config.c:327`); before CR LF they stay, and become part of the value.

## Behaviour kept in the models

Met while modelling and kept as the code has it. Where a property would be false, its
comment names the exception.

* FAT32: `fat_read_fat_entry` answers a failed read like the end of a chain, so a
  search stops early and the file is created a second time (from the first failed read
  on `AckedReadsBack`, `NamesSound` and `FilesKept` say nothing). exFAT: a set behind
  END cells is not found again (`Misplaced`, excepted by `ExAckedReadsBack`; it has its
  clusters all the same, see `NoOrphans`); `exfat_write_file_path` overwrites a directory
  like a file (excluded by `FilesAreNotDirectories`).
* Windows: `dragging` outlives the press when the window is not in front at the
  release (`kernel.c:4819`); taskbar buttons are looked up from x = 80 and drawn behind
  the shortcuts (`kernel.c:4239`); of two covered windows a click takes the lower one.
* Session: Enter in a Save As prompt runs `create_txt_file_from_prompt` and loses the
  text; the explorer opens a TXT by its name on the Desktop; Delete uses a path bar that
  was edited and not entered, and works on a minimized explorer and on the login
  screen; a failed read of USERS.TXT resets the accounts (excepted by `SavedStays`);
  a save that fails at the entry has already written over the file's data (`Torn`,
  excepted likewise); a list that meets a bad sector is short and counts as complete;
  directories made by a write that then fails are not shown until the next refresh;
  titles are cut to 12 characters; a prompt can live through a logout.
* Keyboard: the repeated code of a held Shift key counts `g_shift_down` up, which one
  release does not take back, and that of Caps Lock switches it (`kernel.c:4021-4024`,
  excepted by `ModifiersTrack`).
* Devices: the last sector's error is never reported (`late` in `SectorStore`); every
  sound takes 2 MiB that are never freed; during `ac97_play_pcm` the engine plays new
  samples with the old list; a call that fails for want of memory leaves its rate behind;
  the mark of the last descriptor is part of its length (`ac97.c:228`), so that the
  engine reads on behind the sound; an exception, or the tick during a panic of vector 3
  or 4, that comes before the first is recorded replaces its vector on the screen.
* Console: an unhandled final byte swallows what follows, where the comment says
  otherwise; `scroll_enabled` stays off after an ESC inside a CSI; text below a narrowed
  scroll region is lost; a row is compared with the number of columns; `dec_private` is
  not reset by CAN; reset does not reset the colours.
* Memory map and paging: a usable entry strictly inside another one stays usable
  (excepted by `MapSound`); `vmm_alloc_page` takes the low 32 bits of a virtual address
  for the frame, and when the address is mapped already it calls `pmm_free`, which panics once the
  allocator is closed;
  `pmm_free` frees the size asked for and not the aligned one; `mmap_get_info` sums all
  entries where its comment says "till the first hole"; a small page over a large one is
  dropped; `vmm_unmap` inside a large page drops all of it.
* Boot protocol: in the UEFI build `limine_load` panics at its first call,
  `get_raw_memmap`, because boot services have not ended (`limine.c:442`,
  `pmm.s2.c:571`); behind it `build_pagemap` would allocate from a closed allocator
  (`limine.c:175`, `:212`). So no executable is started on UEFI, and what
  `RequestsAnswered` says of started ones is about BIOS, the only build of the
  repository's Makefile. The loader lowers its own minimum paging mode to the executable's
  maximum; the list of `.limine_reqs` has no bound (sections of more than
  `MAX_REQUESTS` requests are not modelled); duplicates before the start marker
  panic.
* Menu: a digit boots the entry selected before (`print_tree` loads the entry only while
  it prints, `menu.c:1094`); with a timeout of 0 none was loaded, and a NULL pointer is
  followed; Delete at the end of a full buffer
  reads past it; in some states the editor draws for ever (`wo = Endless`); first
  entries deeper than one slash are dropped.
* Processors: one that runs after it was given up takes the next one's place; the boot
  processor's id is compared in eight bits.
* Disks: a block that cannot be read to its end is cached as good; a request that fails
  during the read-back leaves its mark on the disk; three volumes with the same start
  are told apart wrongly; reads of the partition tables are not checked, and a failed one
  loses partitions or makes them up.
* Files: only the first `freadall` decides type and place of the buffer; the checksum
  of a long name is not looked at; the copy of the URI, the label of a FAT volume, the
  last directory of an ISO 9660 volume, the path of a file that is not found and all
  blocks of one that TFTP does not bring are never freed; TFTP on a BIOS machine that was
  not booted over PXE goes through a pointer that is not set (`phase = "wild"`).
* Configuration: a text of SMBIOS without a newline loses its last character
  (`config.c:325`); blanks before CR LF stay (a finding); in a file that starts with an entry the
  global lookups see the entries' options.
* Device trees: `fdt_stringlist_contains` takes an unterminated last string.

## Fairness

* Fat32, ExFat: weak fairness of the steps of a call. The driver polls and never
  waits for another thread; each of its steps ends by itself. Calls, faults and
  power losses are not fair.
* Disk: weak fairness of the driver's steps, none of the device: every wait is bounded.
* Irq: weak fairness of the processor (it takes an interrupt that is open and goes on
  with a handler).
* Task: weak fairness of the timer (hardware, interrupts are on outside `schedule`)
  and of the boot thread's creation of tasks. It serves the counterexample `task_pit`
  only, where the timer does not switch and each tick is acknowledged.
* Smp: weak fairness of the boot processor only; the others may never run.
* Keyboard: weak fairness of the loop (`hlt` ends with the next tick) and of the
  interrupt. Mouse: weak fairness of the interrupt handler. `Resyncs` is conditional:
  packets keep coming and their movement bytes cannot be taken for a first byte.
* All others: safety only.

## Proofs

All theorems hold for every value of the constants that satisfies the named
assumptions, which TLC evaluates in the runs. In each case the property itself is not
inductive; what had to be added, and why, is the content of the proof.

| module | theorem | property |
|---|---|---|
| Fat32Proofs | `Fat32Invariant`, `Fat32VolumeSafe` with `Fat32NoCrossLink`, `Fat32NoDangling`, `Fat32DirectoriesIntact`, `Fat32Types`; `Fat32TreeInvariant`, `Fat32FilesKept` | `VolumeSafe`, `FilesKept` |
| ExFatProofs | `ExFatInvariant`, `ExFatVolumeSafe` | `ExVolumeSafe` |
| KernelProofs | `TaskIsSafe` with `TaskTypes`, `TaskCurrentIsHead`; `TaskZombiesStayDead`; `TaskRingWhole`; `IrqIsSound` | `TaskSafe`, `ZombiesStayDead`, `RingWhole`, `IrqSound` |
| WindowsProofs | `WindowsInvariant`, `WindowsAreSafe` with `WindowsStayOnScreen`, `PickerKeepsWindow`, `WindowsTypes`; `AltTabReachesAll` | `WindowsSafe`, `CycleReachesAll` |
| InputProofs | `MouseIsSound`, `KeyboardIsSound` | `MouseSound`, `KeyboardSound` |
| DriverProofs | `DiskRefinesStore`, `SoundLastPlays`, `SmpOwnPlace` | `StoreRefined`, `LastSoundPlays`, `OwnPlace` |
| BootProofs | `VmmInvariant`, `VmmTranslates`; `LimineInvariant`, `LimineAnswers` | `Translates`, `RequestsAnswered` |
| SessionProofs | `SessionInvariant`, `SessionKeepsFiles`, `SessionDesktop`, `SessionDeletes`, `SessionLogins` | `SavedStays`, `DesktopSound`, `DeleteIsAimed`, `LoginShowsOwn` |

**Fat32Proofs.** For every geometry, every set of sound volumes (`ImagesAssumption`),
every `make_name83`, any paths and data, and any number of faults and power losses. The
safety properties say nothing of a call in progress: a step that publishes a cluster
keeps them only if the cluster is fresh. `IInv` adds what each program point knows: the
directory and cluster at hand belong to a directory (`CallOK`), the found entry is still
live and a file (`FoundOK`), the target is the file's own cluster or one nobody refers
to, and a new directory's is filled with dots and zeroes up to the sector in turn
(`TargetOK`). The first group of lemmas says what one FAT or cell write does to a sound
volume, the second has one lemma per action.

The third group is about names and contents. `FilesKept` depends on what a search told
several writes ago: `create_dir_entry` makes a name because `dir_find_entry` did not
find it before the cluster was allocated and filled. `TreeInv` says what that rests on:
the clusters of a directory are one chain and its END cells come last (`Chained`,
`EndsLast`, so that a search that stops at an END cell has missed nothing), the
directory at hand is the one the path leads to (`WalkOK`), the clusters behind the walk
do not have the name and the result of the search is still true (`SearchOK`), and the
sectors written so far hold the data (`DataOK`). A new directory has a path of its own
because every other directory has an entry in the one above it (`TreeWhole`). Beyond
`ImagesAssumption` this needs `HostAssumption`: the prepared volumes have such
directories and hold the files they are said to hold. The premise that no read has
failed is needed: a failed read ends a search early.

**ExFatProofs.** For every geometry, any paths and contents and any number of calls, on
volumes as the module's initial state has them. `ExVolumeSafe` speaks of the volume
after each single write, with the clusters that the call in progress holds (`InHand`)
set apart. That is not inductive: a link, or the set that names a chain, keeps one owner
per cluster only if nothing leads to that chain yet. `ExInv` adds what each program
point knows: the directory at hand has the path that was walked (`CallOK`), the set of
an old file is still there and a file's (`FoundOK`), the cells of a set written so far
(`SetOK`), that the clusters of the new chain are allocated and loose and its last one
ends it (`ChainOK`), and that the chain that is freed is loose from the first freed
cluster on (`FreeOK`). One group of lemmas says what an allocation, a link, a release
and a new first cluster do to a sound FAT, another what one cell of a set does to the
entries of a directory (`SetsApart`, `EntriesAfter`: two sets never overlap, so a cell
touches one entry only). Two assumptions are used: names that are equal up to case are
equally long (`CaseKeepsLength`, the code maps character by character), so that a
replaced set fits where the old one was; and no file is written where a directory is
(`FilesAreNotDirectories`, see above).

**KernelProofs.** Tasks: for any number of threads, any slice length and any limit of the
search, hooked or not, and wherever the acknowledgement stands. The invariant of
`TaskIsSafe` is the conjunction of its parts; that at most one task owes a tick
(`OneOwes`) needs that there is no tick while one is owed and that a task pays when it
is switched to.
`RingWhole` says that a tour exists; `RingInv` adds that tasks still to be created are
not in the ring (`Unlinked`) and that between the two stores of `rq_push` the new task
already points where the head does (`Pointed`). The second store then turns a tour of n
tasks into one of n + 1 (`InsertBehindBoot`, with the new tour written down).
Interrupts: any set of lines (without 2, the cascade) and any number of exceptions, nested
to any depth. `Shape` says that the stack holds one interrupt at most among them, for whose
time interrupts are off and whose line is what is in service, so that one
acknowledgement clears all of it; `FirstIs`, that the first exception is the outermost;
`Panicked`, that one screen is drawn, from the record of the handler that draws it.

**WindowsProofs.** For every screen of at least 560 x 330 (smaller ones do not hold the
WAV player where `wavplay_open` puts it), any set of pointer positions and any number of
clicks. `WindowsOnScreen` is not inductive: `..._toggle_maximize` restores a remembered
place and `wavplay_pick_cb` opens a window without placing it, so `WinInv` also keeps
the remembered places, and the WAV player's place while a pick for it is under way, on
the screen. One lemma per operation on a single window, one per operation on the state,
one per stage of a click. `AltTabReachesAll` follows from `WinInv`: each `wm_cycle_next`
takes the front window to the next open one in the order, so the distance to a given
open window shrinks until it is reached (`CycleNearer`).

**InputProofs.** Mouse: any screen, any movements that fit a byte, any number of lost
bytes. While nothing is lost, where the packets lead can be told from the driver's bytes
and the ones on the wire (`InStep`: four cases, one for each number of bytes on the way);
a press that the loop has not seen is an edge it may still take (`PressIsEdge`).
Keyboard: any finite set of keys. The invariant follows a code through the keyboard, the
one-place buffer and the loop's look, read and clear, and ties the modifiers to the keys
held, the repetitions so far and the codes still on the way.

**DriverProofs.** Disk: any medium, any transfer length, any number of calls. The
refinement needs that from the command on driver and device count the same sectors,
except that a device which holds a sector in its latch is one behind (`InCall`), and
that a device that offers or takes a sector has it on the medium (`DeviceSane`). Each
action is then a step of `SectorStore` or a stutter. Sound: any files (also with a rate
of 0), heap, page, list and field sizes. The invariant follows the call: before the copy
all is as the last successful call left it (`Undisturbed`), after it samples, list and
resting engine belong to the new call in turn (`Prepared`). The rate is the sound's own
only until the next call sets another (`Tuned`, `OwnRate`). Descriptors of a longer,
older sound stay behind the new list; that the engine does not reach them is arithmetic
about the frames left after i descriptors.
Processors: any table of processors in which an id stands once, all four kinds of
machines, any number of polls. The array is not overrun because the count before the
allocation uses the same test as the start (`Counted`); a processor stands at its own
place because the block is about it until its flag is seen or it is given up (`Waiting`,
`Unstarted`, `Standing`).

**BootProofs.** Page tables: any number of frames and pages, any memory maps and images,
with and without 1 GiB pages, any calls of the kernel. `map_page` does not replace a
large page that is in the way of a small one, so that "each page translates to what it
was last mapped to" is true of the loader's map only because all its ranges agree:
`VmmInv` says that one function (`Target`) gives the frame of every page that any range,
done or still to be done, covers, so that it does not matter which of them a large page
hides. The lemmas about tables say what one entry written at level 1, 2 or 3 does to
`vmm_query` of every page. `VmmAssumption` and `VmmInputs` say where the ranges lie: the
direct map below the images (`limine_load` refuses a span over a quarter of the address
space, `limine.c:654`), and images from `FIXED_HIGHER_HALF_OFFSET_64` up, as `elf.c` and
`pe.c` load them. A machine with more than 64 TiB whose executable does not ask for five
levels is outside these assumptions.
Boot protocol: any images and machines made of the tags the loader looks at
(`LimineInputs`). `RequestsAnswered` is about the moment the executable is entered;
`LimInv` says for each step of `limine_load`, in their order (`Rank`), what holds from
then on: during the searches, that the list has exactly the requests behind the last
start marker and before an end marker (`Searching`); after them, that `get_request`
finds the one request of an id (`Found`); from the agreement on, that the paging mode is
within the limits of executable, machine and configuration (`ModesFit`); and throughout,
that the requests answered are those whose feature has had its turn and was available
(`Answered`). That the direct map's offset is set before it is told, and that the memory
map is open and the firmware's services are there for the steps that use them, follows
from the order. On UEFI no step behind the first is reached (`NotUefi`): the invariant
says so, and the calls of `get_raw_memmap` later on leave the allocator open because of it.

**SessionProofs.** Any volume in which no path stands twice, any accounts, names and
texts, any limits of the lists, any number of rounds and of reads and writes refused in
whole or in part. Every operation of
`kernel.c` is one of few kinds of change: to windows and menus only (`Quiet`), new
directories (`Extends`), one file written, or spoilt by its own write (`Wrote`), a list or the icons read again
(`Refreshed`); one lemma per operation says which it is, and one per kind says what it
keeps. `SessInv` is what the kinds need: the volume names no path twice, the icons
are the live ones of the entries that were read (`seen`) and the selection to an entry of them (else
Delete would be aimed by a stale index), the explorer's selection likewise for as long
as its path bar is not edited, there is an account to log in with, and no window is open
at the login screen (else a login could show an earlier user's document).

Assumptions that the proofs need and that are about the environment: a machine's table
names a processor once, a host's volume names a path once and its directories end with
the first END cell, sets of keys are finite and
not empty, page, list and transfer sizes are not zero. All constants that bound a run
(`MaxFaults`, `MaxRounds`, `MaxCalls`, `MaxPlays`, ...) are arbitrary.

Only model-checked:

* Liveness: `CallsReturn`, `ExCallsReturn`, `DriversAnswer`,
  `InputArrives`, `ProcessorsStart`. The prover has neither fairness nor `ENABLED`.
* What a read returns: `AckedReadsBack`, `NamesSound`, `ExAckedReadsBack` and
  `ExVolumeSound` are stated with operators that recur over chains of clusters. For
  FAT32 `FilesKept` is the same promise stated of the cells, and proved; that the reading
  calls find those cells is what is left to TLC.
* Device trees (`TreeSound`, `EditsMean`, `OverlaySound`), memory map (`MapSound`,
  `MemoryKept`), `MenuSound`, `VolumesSound` and `FilesSound`: their modules are built
  from recursive operators, as the code is from loops over entries.
* `TerminalSound` and `LookupsSound`: their operators fold over bytes and lines, and
  what a fold computes for every input needs induction over data.

## Not modelled

* stb_image, decompression and hashes: pure functions over long byte strings. A hash is
  the equality of contents.
* Other boot protocols (Linux, multiboot, chainloading), video modes, ACPI tables, PXE
  set-up, BIOS and UEFI calls: formats and port I/O. The firmware, the disks' content
  and the network are external.
* Drawing, fonts, the framebuffer: output without state that others read. Descriptor
  tables (GDT, IDT, TSS) and mode switches: hardware formats; user mode is never entered.
* The MBR parser of the kernel (`fs_mbr.c`), PCI, serial, RTC.
* Parts of modelled components: exFAT under failing transfers and on torn volumes,
  NoFatChain files; contents of registers and stacks in `ctx_switch`; the mouse
  controller's handshake; page directories of tasks (NULL in all of them); what the task list, the display settings and
  the image viewer show; `ata_identify`; the values of samples; byte alignment, old
  versions and shared suffixes in device trees; overlays with two fragments for one node;
  architectures other than x86 in boot protocol and paging; tabs, colours and remembered
  entries of the menu; cyclic chains of extended partitions; malformed FAT and ISO 9660
  volumes; TFTP servers that send something else than they announced.

## Plan

Left, in order:

1. Proofs: the queue and cursor of `Terminal` as far as one byte goes; `MapSound` with
   the sort and the cut of an entry as steps.
2. **ExFat** with failing transfers, as Fat32 has them.
3. `key_to_char`, the choice of the partition at mount.
