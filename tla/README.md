# TLA+ models of TsegabOS

TsegabOS is a small 32-bit x86 kernel: it boots from Multiboot, hands out
physical pages, has a heap, a keyboard and a mouse driver, a FAT32 driver over
an ATA disk, and a desktop drawn by LVGL. This directory models the parts that
carry its own logic, checks them with TLC and proves the central properties of
eight of them with TLAPS.

## 1. The system

Two kinds of control run on one CPU.

* **The main thread**: `kernel_main` (`kernel/kernel.c`) calls the initialisers
  in order (IDT and interrupts first, then pages, heap, paging, LVGL, mouse,
  keyboard, desktop) and then loops over `lv_timer_handler`, which calls the
  input callbacks of `GUI/lvgl_manager/input/input.c`.
* **Interrupt handlers**: the stubs of `kernel/idt/idt_load.asm` clear the
  interrupt flag and call `isr_handler`, so a handler is never interrupted. It
  comes between any two instructions of the main thread. `idt_init` enables
  interrupts (`idt.c:146`) before any driver is initialised.

| Component | State | Operations | Talks to |
|---|---|---|---|
| Page allocator `memory/pmm` | `page_bitmap` | `pmm_init`, `pmm_alloc_page`, `pmm_free_page` | memory map of the boot loader; called by heap and paging |
| Heap `memory/heap` | list from `first_block` | `heap_init`, `kmalloc`, `heap_expand`, `kfree` | page allocator; called by icons, LVGL port |
| Paging `memory/paging` | `kernel_dir` and its tables | `paging_init`, `map_page` | page allocator |
| Keyboard `drivers/keyboard` | ring `kb_buf`/`kb_head`/`kb_tail`, `shift_pressed` | `keyboard_handler` (IRQ1), `kb_buf_pop`, `keyboard_init` | 8042 controller; LVGL callback |
| LVGL key callback `input.c` | `current_key`, `key_consumed` | `lvgl_keyboard_read` | ring; LVGL |
| Mouse `drivers/mouse` | `mouse_cycle`, `mouse_packet`, position, buttons | `mouse_init`, `mouse_handler` (IRQ12) | 8042 controller; LVGL callback; prints each change of a button |
| LVGL pointer callback `input.c` | none | `lvgl_mouse_read` | mouse driver; LVGL |
| Interrupt set-up `kernel/idt` | IDT, masks of the PIC | `idt_init`, `isr_handler` | every driver |
| FAT32 `FS/FAT32` | `fs`; on disk FAT, directory, data | `fat32_init`, `open`, `read`, `write`, `create_file`, `update_dir_entry` | ATA |
| ATA `drivers/ATA` | none | `ata_read_sectors`, `ata_write_sectors` | disk |
| Timer `drivers/pit` | `timer_ticks` | `pit_handler` (IRQ0), `sleep_ms` | |
| Clock `drivers/CMOS`, `taskbar.c` | none | `cmos_get_rtc`, `clock_update_cb` | RTC chip |
| Console `libk`, `drivers/Serial` | the UART's registers | `kprintf`, `itoa`, `serial_write` | UART; called by the main thread and by the mouse handler |
| Desktop and icons `GUI/Desktop` | `Icon` records, LVGL objects | `icon_create`, `icon_destroy`, drag and click callbacks | heap; LVGL (a submodule that is not in the repository) |
| Framebuffer and LVGL port `GUI/fb`, `GUI/lvgl_manager` | pitch, three times over; `lvgl_buf` | `clear_screen`, `LVGL_INIT`, `lvgl_flush` | boot loader; LVGL |

What is hard about it, and what must hold:

* **Pages and heap.** Long mixed sequences of allocations and frees over a
  memory map with holes: a page or a byte is never given out twice, no page that
  lies in the kernel's image as a whole is given out (the page the image ends in
  is, section 3), nothing gets lost, `kmalloc` returns.
* **Keyboard.** A lock-free ring between an interrupt handler and the main
  loop, with plain (not volatile) variables and one more consumer state machine
  behind it: keys arrive once, in order, pressed and released. Nothing in this
  kernel registers the callback that empties it.
* **Mouse.** One controller with one output port serves two devices, two
  handlers and a polling initialiser at once; packets have no frame but a bit.
* **Paging.** Tables are built in RAM with old contents, through 32-bit bounds
  that may wrap, while heap and tables share one page allocator; afterwards
  every access goes through them.
* **Interrupts.** Devices ask while vectors, gates and masks change one by one;
  handlers share data without locks, and two PICs must be told of each end.
* **FAT32.** Three structures on disk change in separate writes; the machine
  may stop between any two of them.
* **Clocks.** A 64-bit counter on a 32-bit processor, counted by an interrupt
  while `sleep_ms` loads it and halts; a clock chip that runs on between the
  reads of its registers.
* **Console.** Two contexts write to one port, each after a test the other may
  have made stale.
* **Desktop.** The pointer is three variables an interrupt changes and a
  callback loads one by one; LVGL keeps pointers to records that come from the
  heap and go back to it.
* **Display.** The pitch exists in bytes and in pixels, in three variables.

`PROJECT.json` lists the hazards line by line ("hazards") with the properties
that watch them.

## 2. The modules

| Module | Models | Lines |
|---|---|---|
| `PhysicalMemory` | the page allocator | `pmm.c` |
| `PhysicalMemoryProofs` | theorems about it | |
| `Allocator` | abstract: what `heap.h` promises | `heap.h` |
| `KernelHeap` | the heap, over an instance of `PhysicalMemory` | `heap.c`, page requests of `paging.c` |
| `KernelHeapProofs` | theorems about it | |
| `KeyQueue` | abstract: a bounded queue of keys, each pressed and released | |
| `Keyboard` | device, IRQ1 handler, ring, LVGL callback | `keyboard.c`, `input.c` |
| `KeyboardProofs` | theorems about it | |
| `Paging` | page directory and tables, over an instance of `PhysicalMemory`; the MMU | `paging.c`, `heap_expand`, boot order in `kernel.c` |
| `PagingProofs` | theorems about it | |
| `Interrupts` | IDT, masks, stubs, `isr_handler`; the PICs and the processor | `idt.c`, `idt_load.asm` |
| `Ps2` | mouse driver, both handlers, the 8042 | `mouse.c`, `idt.c`, head of `keyboard_handler` |
| `InterruptsPs2Proofs` | theorems about these two | |
| `Fat32` | file system over the disk, with crashes | `fat32.c`, `ata.c`, `FS_TEST` |
| `Fat32Proofs` | theorems about it | |
| `Clocks` | tick counter and `sleep_ms`; CMOS clock and taskbar | `pit.c`, `cmos.c`, `taskbar.c` |
| `Console` | `kprintf` with its conversions, and the serial port | `kprintf.c`, `itoa.c`, `URAT.c`, reports of `mouse.c` |
| `ClocksConsoleProofs` | theorems about these two | |
| `Desktop` | pointer callback, icons and their callbacks | `mouse.c`, `input.c`, `icon.c` |
| `Display` | the framebuffer's way to `clear_screen` and `lvgl_flush` | `kernel.c`, `framebuffer.c`, `init_lvgl.c` |
| `DesktopDisplayProofs` | theorems about these two | |
| `MCGui` | `Desktop` and `Display` side by side, for TLC | |
| `MCClocksConsole` | `Clocks` and `Console` side by side, for TLC | |
| other `MC...` | constants for TLC | |

Definitions carry the names of the C functions they translate. Where one C
function is several steps, its name is the prefix (`kb_buf_pop_begin`,
`_load`, `_store`) or the verb (`read_...` for `lvgl_keyboard_read` and
`fat32_read`, `write_...` for `fat32_write`). Definitions whose comment begins
with "Mutant" are variants with a plausible bug; no specification uses them.
Each property is violated once the definition of the code is replaced by one of
them ("mutants" in `PROJECT.json`). `Ps2`, `Display` and `Console`, each of which
shares a module of proofs with another component, put their own name before
`Init`, `Next`, `Spec` and `vars`. Modules that are proved about have no RECURSIVE
operator: `PutAll` (`Display`), `LowestFirst`, `Left`, `Initialized`, `Worth` and
`From` (`Console`) are recursive functions over an interval of numbers.

`MCGui` and `MCClocksConsole` each put two components that share no state into one
run: the variable `part` says which of the two a behaviour is about, and the other
one rests. The resting one stays in one of its initial states, chosen so that its
own liveness properties hold of it; every property thus is checked on all behaviours
of its component.

### PhysicalMemory

`page_bitmap` is the set of pages whose bit is 1. The boot loader's map is a
set of regions with 64-bit fields; `BitsCleared` does what `pmm_init` does to
one of them, truncation to 32 bits included (`WORD` is 2^32). A bit that is
cleared behind the array lands in `overrun`. No handler calls the allocator, so
each call is one step. `handed` is history: which pages clients hold. Clients
free only pages they hold. `ReservedPages` are the pages `pmm_init` keeps back
(`pmm.c:79`, rounded down): the page an image ends inside of is not among them.

### KernelHeap

`first_block` is the list as a sequence of headers (address, size, free flag).
`kmalloc` is one step per scan of the list, because a scan that fails grows the
heap and starts again; in `kmalloc_split` and `kmalloc_whole` a scan succeeds.
The page allocator is `Pmm`, an instance over the same variables, and
`paging_alloc_page` stands for the pages that `paging.c` takes from it between
heap calls: it makes the heap's pages non-adjacent. The NULL that
`pmm_alloc_page` returns is not tested by `heap.c`; the header then goes to
address 0 (`lowHeader`).

`ImplementsAllocator` is the refinement of `Allocator`: its variable `live`
maps each address a caller holds to the size asked for, and `Malloc` demands
that the new bytes overlap no live ones and lie in memory. `kfree` is called
only on what `kmalloc` returned and once, as `icon.c` does.

### Paging

`mem` maps every physical page to its words, and starts as garbage. A step is
one call of `pmm_alloc_page` at the start of `paging_init`, or one round of one
of its loops, that is one `map_page`: it uses the table that is there or takes
a page, zeroes it and stores it in both arrays (`entries` in the page of
`kernel_dir`, `tables` in the page behind it, whether that page is paging's or
not). `paging.c` does not test what `pmm_alloc_page` returns; after a 0 the
table lies at address 0 and `failed` is set. `Translate` is the MMU: it walks
the words in memory. Once paging is on, `heap_expand` takes pages and fills
them with anything, through the map, and `draw` touches the framebuffer; either
may end in a page fault, whose handler never returns.

A hole in the memory map may have no RAM behind it. Both machines are modelled:
`holes` is empty, or the pages of which no region tells, and then they read as at
boot, whatever is written (`Kept`). It matters at one place. `paging.c:90-91` takes
two pages one after the other and uses the page behind the first, not the second
page it got, for `tables[]`; when that is a hole without RAM, the addresses `map_page`
reads from it are what was there, the low bits cut off. `DirectoryInRam` says that
it is not; `MCPaging` has maps with such a hole, and claims the map only where the
array has RAM.

That the tables cover the
address space (`WORD = ENTRIES^2 * PAGE_SIZE`) is assumed as in the build; that
a page is `4 * ENTRIES` bytes long is not needed, and small pages keep the
instance small.

### Interrupts

`idt_init` is one step per statement or group of equal statements, so that a
request may come between any two; a handler is gate, stub (`cli`), driver, slave
and master end-of-interrupt, `iret`, each a step. The PICs are external: fully
nested mode, a request latched until taken, non-specific end-of-interrupt that
clears the highest line in service. `stack` holds what each `iret` returns to;
the other words the stubs push and pop are left out. Exceptions 0, 13 and 14 may
come in `kernel_main` and in a driver, and stop the kernel. When `mouse_init`
polls a byte away whose interrupt has just been announced, the PIC answers with
its line 7 (`spurious_interrupt`), for which `idt_init` sets no gate.

`HandlersDoNotNest` is what the other modules rest on when they take a whole
handler as one step.

### Keyboard

`keyboard_handler` is one step. `kb_buf_pop` is three: the emptiness test, the
load of the character and the store of `kb_tail`. The ring's variables are not
volatile, so the compiler may store before it loads; the model does both
orders. The device sends the codes of one press or release at a time, and the
handler takes them one by one. The ring's capacity is `KB_BUF_SIZE - 1`.

`ImplementsKeyQueue` maps ring and callback to `KeyQueue`: the queue is what
lies between `kb_tail` and `kb_head`, and a key that was taken off the ring and
not yet released is `pressed`. Keys typed before `keyboard_init` resets the indices
(`keyboard.c:83-86`, once, at `kernel.c:164`) are forgotten: `Forget` is that one
step, allowed until `begun` and never again, so from then on the queue loses a key
only by handing it over, and refuses one only when it is full.

The consumer is the callback `lvgl_keyboard_read`, which LVGL would poll if
`lvgl_keyboard_input_init` had been called. `kernel_main` does not call it. With
`Registered = FALSE` the model is the kernel as it is, and the main loop
(`KernelStep`, then nothing that concerns keys) never looks at the ring. With
`Registered = TRUE` it is the path as `input.c` and `keyboard.h` mean it.

### Ps2

The controller and the devices are external: they are modelled from what
`mouse.c` and `idt.c` count on. The output buffer holds one byte with its
origin; port 0x60 keeps its last byte when read again. `mouse_init` is a
sequence of writes, waits and reads with `pc` between them; `mouse_wait(0)` ends
with a byte or, once the devices have nothing more to send, by its timeout. A
mouse byte carries its place in its packet and the packet's number as history,
so that properties can say "in step". A raised interrupt is a full buffer plus
an enabled interrupt; an edge the PIC has latched for a byte that polling took
away is not modelled.

### Fat32

The disk is the FAT copies, the data clusters and the root directory's slots. A
step makes at most one disk write, and a step that fails to end (`ata_wait` on
a sector the disk does not have) leads to `Hung`. `Crash` may come at any
moment and leaves the disk. Clusters 0 and 1, which an entry without a cluster
leads to, are sectors before the data area (`fat32.c:52-54`): they read as any bytes
(`BytesAt`), and only a cluster behind the last one hangs. `content` is history: the bytes published for a
name, known until the next write to that file begins. The caller behaves like
`FS_TEST`: it opens what exists, publishes what it wrote with
`fat32_update_dir_entry`, reads what it did not write in the same open.

The volumes the system may find are sound (`VolumesAssumption`): used entries
come before empty ones, chains neither loop nor meet nor reach a free entry.
`fat32.c` tests nothing of that.

Two parameters restrict callers in the passing run and are lifted elsewhere:
`CallsPerOpen = 1` (one read or write per open) and `CreateTwice = FALSE`. With
`EocCluster = 0`, a disk that ends before the sector of FAT entry 0x0FFFFFFF,
they are the named hypotheses of the theorems about contents.

### Clocks

`timer_ticks` is one number; a load of it in `sleep_ms` is two loads of halves,
in either order, and `HALF` is their size (2^32 in the build). A tick comes at
most once between two tests of the loop: a tick is a millisecond, the loop a few
instructions. `hlt` ends with any interrupt. The chip is external: a minute of
the day, an update during which registers show anything (`Undefined`), and the
three formats a PC's chip may be set to. The hour and minute are two reads; the
date and the seconds nobody uses are left out. `began`, `garbled` and `fresh`
are history, for the properties and the chip's pace.

### Console

`kprintf` is a step per conversion and, per character, a test of the line status
register and a write. The main thread and the mouse handler have each their own
`calls`, `buf` and position in the format and the arguments (`read`); the handler may start between any two steps of the main
thread and runs to its end. The UART is external: it takes characters while its
FIFO has room and drops others. `serial_init` is folded into `ConsoleInit` as the list of
what it writes, so that the FIFO and the divisor latch come from the code.
`itoa` and `hex` are functions over characters; the smallest `int`, whose
negation overflows, has no caller and is excluded. What a line should say does not
use them: `Shows` reads a text's digits as a number (`Worth`), and `From` reads the
format from its end, with the places in the text its rest may begin at, so that a
`%s` may hold anything, a digit or a `%` included.

A call need not make sense. What the model asks of it (`Passes`) is that each
conversion `kprintf` knows finds an argument of its type, without which C leaves
open what happens. A call is `WellAsked` if each of its conversions is one `kprintf`
can print: not `%u`, and no `%x` of a number that uses all digits. The messages of
the passing run are four of that kind and the kernel's two that are not
(`kernel.c:105`, `idt.c:159`); the property speaks of the lines that are well asked,
which must come out right also next to the others. What becomes of those is shown by
two configurations of their own.

### Desktop

`lvgl_mouse_read` is three loads, with packets between them. LVGL is external: a
press takes the object under the pointer, each read while it is held is a
PRESSING event, a release a CLICKED event, and what a deleted object had is
forgotten. `icons` maps addresses that `kmalloc` returned to records, so an
address comes back after `icon_destroy`. The heap's own behaviour is
`KernelHeap`'s. `on_single_click` is a callback of an icon's owner; the desktop's
does not destroy its icon, and `ClickDestroys` lets it.

### Display

Memory is words from the framebuffer's start to some behind its end. The boot
loader's pitch goes through `READ_FRAMEBUFFER`, `framebuffer_init` and
`LVGL_INIT`, each of which keeps its own. LVGL is external: it paints an area and
hands it to `lvgl_flush` in strips of whole rows of the area, one behind the
other in its buffer. Pixels are 32 bits wide.

## 3. What the runs check

Passing runs:

| Run (module) | Question | Bounds and why they are enough |
|---|---|---|
| `MCPhysicalMemory` | Which pages are given out, over six maps? | 8 page bits of 4 bytes, 64 "addresses": a hole, an overlap, partial pages at both ends of a region, RAM above the address space, too little RAM; the kernel ends on and inside a page |
| `MCKernelHeap` | Do list, callers and pages agree? | pages of 48 bytes hold up to three blocks; requests 0, 10, 17 and 36 split, split to the edge and fill a page; two free pages with a hole between, and none |
| `MCPaging` | Does the MMU see the map that was asked for? | 16 pages, tables of 4 entries, an identity map of two and a half tables; RAM that ends at, above and before its end, a hole behind the directory and one farther up, each with and without RAM in it, six framebuffers on and off page boundaries, in a table of their own or shared, and with an end that wraps |
| `MCInterrupts` (`Interrupts`) | Do interrupts reach the handlers, one at a time? | the three devices and the cascade, all 16 masks the BIOS may leave, all requests before `idt_init`; an exception over one handler; spurious interrupts |
| `MCKeyboard` | Is the path a queue of keys, and does shift stick? | the callback registered; 3 slots wrap round and fill up within three keys; a letter, a shift key and PrintScreen (which sends shift codes of its own) in any order; the proof is for every size |
| `MCFat32` | Do files survive? | 5 clusters of two sectors, 16 FAT entries in two copies, three names, 3 writes of 1, 2 or 4 bytes; a second volume with one free cluster and slot |
| `MCPs2` (`Ps2`) | Does the shared controller work? | 2 keys and 3 packets over movement bytes with and without bit 3 set |
| `MCClocksConsole`, its clocks | Do sleeps last, and does the taskbar show the time? | a counter whose low half wraps every 4 ticks, so that sleeps of 0, 1 and 3 ticks start before and end behind a wrap; minutes in which the hour and, in UTC+3, the day carry; two bytes a register may show in an update |
| `MCClocksConsole`, its console | Does what was printed come out? | a FIFO of 3 that two contexts can fill, messages with `%d`, `%s` and `%x` on negative, zero, one-digit and longer values, and the `%u` and the long `%x` that come out wrong; two packets per message |
| `MCGui`, its desktop | Do icons and their callbacks agree with the pointer? | two records, two objects, two overlapping places, icons of 2 by 2 pixels, three packets: one to press, one to move, one to release, each between any two loads; the proofs are for every size |
| `MCGui`, its display | Does the screen show the picture? | a screen narrower than its rows and one as wide; a buffer of one row, of two, or of a part of an area |

Three runs expect a violation; each is a finding in `PROJECT.json`:

| Run (module) | Violated | What happens |
|---|---|---|
| `MCFat32Link` (`MCFat32`) | `WriteReturns` | a write into a second cluster hangs: `fat32.c:241` links through the end mark. `kernel.c:105` reports that writes end |
| `MCPhysicalMemoryTail` (`MCPhysicalMemory`) | `KernelMemoryReserved` | `pmm.c:79` rounds `kernel_end` down: the page the image ends in is the first to be given out. `pmm.c:78` says the kernel's memory is reserved |
| `MCKeyboardPolled` (`MCKeyboard`) | `KeysReachLvgl` | the kernel as it is, `Registered = FALSE`: `kernel_main` calls `keyboard_init` (`kernel.c:164`) and never `lvgl_keyboard_input_init`, so a key typed stays in the ring for ever. `keyboard.h:8` says LVGL polls it |

What they show (type invariants are proved or can be added to a configuration by
hand; they are in no run):

* `HandedPagesAreMarked`, `WholeKernelPagesKept`, `HandedPagesAreUsable`,
  `NoPageLost`: pages are given out once; none that lies in the kernel's image as
  a whole, so that of the image only what it has in its last page can be lost;
  only from usable RAM and completely - the last two when usable regions start
  on a page and end below 4 GB (`MapFits`).
* `BlocksTilePages`, `UsedBlocksAreLive`, `HeapPagesAreOwn`: blocks follow one
  another without gap inside each page; used blocks and live allocations are
  the same; no block reaches into a page of `paging.c`. `KmallocReturns`: a
  request of at most a page's payload returns as long as a page is left.
* `MapIsAsAsked`: from the moment paging is on, every page below the identity
  map's end and every page of the framebuffer is mapped to itself and nothing
  else is, except one page behind the framebuffer (`paging.c:102`), and stays
  so while the heap writes to its pages. `TablesAreOwn`: the CPU's and the
  kernel's copy of the directory agree, and no table is shared with another
  entry, the directory or the heap. `PagingInitEnds`: the loops end. The first and
  the last are for framebuffers that end two pages before 4 GB (`FramebufferFits`);
  behind that `fb_end` wraps, and the loop maps nothing or never ends. The first two
  claim nothing when pages ran out, nor when `tables[]` has no RAM
  (`DirectoryInRam`).
* `NoMissingGate`, `HandlersDoNotNest`, `EoiEndsOwnService`, `RequestsAreServed`:
  no interrupt of a device meets an empty gate or another handler; the two
  end-of-interrupt commands of timer and keyboard end one service only, because
  handlers exclude one another; every request is served unless an exception or
  a spurious interrupt stopped the kernel.
* `PopSlotIsSafe`, `ImplementsKeyQueue`, `ShiftDoesNotStick`: once the callback is
  registered, the handler leaves the slot alone that `kb_buf_pop` works on, and the
  path is a queue that loses no key while it has room, after `keyboard_init`; shift
  is off when no key is down.
* `PublishedFilesKeepTheirBytes`, `ChainsAreSound`, `ReadsReturnTheFile`:
  published files are unchanged by other writes, full disks and crashes; clusters of
  files are disjoint and marked; a read returns the file from its start.
* `SkippingRealigns`, `MovesAreReal`: after `mouse_init` no byte is lost, a
  driver in step stays in step and moves the pointer by whole packets, one out
  of step only gets nearer. `InitEnds`, `InputKeepsFlowing`: the timeout gets
  `mouse_init` out, and afterwards keys and packets are always taken.
* `SleepsLongEnough`, `SleepReturns`: a sleep lasts its milliseconds unless the
  low half of the counter wraps between the two loads, and always returns, also
  when the tick comes between the test and the `hlt`. `LabelIsNearTheTime`: the
  label shows the time of the first or last load or, when the hour carried
  between them, a time less than an hour ahead, unless a load met an update of
  the chip. `LabelCatchesUp`: whatever it showed, it is right again and again.
* `LineSaysWhatWasAsked`: when `kprintf` returns from a call that gave each of its
  conversions an argument it can print (`WellAsked`), the UART has taken exactly its
  text although the other context printed in between: the FIFO has room for what
  one context writes behind the other's test, and other calls, well asked or not,
  leave nothing behind. `PrintingEnds`: both get to the end.
* `CallbackDataIsLive`: callbacks get records that are alive and own their object.
  `IconFollowsPointer`: a dragged icon keeps its place under LVGL's pointer.
  `PointerCatchesUp`: each of the three variables LVGL gets may be of another packet
  (`MCDesktopSnapshots` below), but in the end they are the driver's position and
  button.
* `ScreenShowsThePicture`: what LVGL has handed out is on the screen, and nothing
  of it behind a row's or the framebuffer's end.

Further configurations, for the reader who wants to see where the code goes wrong
or departs from its own words (run them by hand; TLC ends with the violation
named):

| Configuration (module) | Violated | What happens |
|---|---|---|
| `MCPhysicalMemoryCap` (`MCPhysicalMemory`) | `BitmapNotOverrun` | RAM above 1 GB: `pmm_init` writes behind `page_bitmap` |
| `MCPhysicalMemoryTruncated` (`MCPhysicalMemory`) | `HandedMemoryIsUsable` | RAM above 4 GB is taken for RAM below; a region that starts inside a page gives the whole page |
| `MCKernelHeapNull` (`MCKernelHeap`) | `NoHeaderAtNull` | without a page left `heap_expand` writes a header to address 0 |
| `MCKernelHeapLarge` (`MCKernelHeap`) | `KmallocRetriesOnce` | a request above a page's payload takes page after page; `heap.c:80` says "retry once" |
| `MCPagingHole` (`MCPaging`) | `IdentityIsMapped` | a hole without RAM behind the directory's first page: what `paging.c:90-91` puts into `tables[]` is lost, and `map_page` writes to whatever page it reads there |
| `MCPagingHigh` (`MCPaging`) | `NoFault` | RAM above the identity map: the heap gets a page that is not mapped and the kernel stops in the page fault handler |
| `MCInterruptsSpurious` (`Interrupts`) | `NoReset` | a spurious interrupt (vector 39 or 47) has no gate: the machine resets |
| `MCFat32Full` (`MCFat32`) | `AllocatesInVolume` | padding entries of a full FAT are given out as clusters |
| `MCFat32Copies` (`MCFat32`) | `FatCopiesAgree` | only the first FAT copy is written |
| `MCFat32Twice` (`MCFat32`) | `PublishedFilesKeepTheirBytes` | a second file of the same name hides the first |
| `MCPs2Typing` (`Ps2`) | `InputKeepsFlowing` | a key typed while `mouse_init` polls for the command byte becomes the command byte |
| `MCPs2Ack` (`Ps2`) | `AckIsNoPacketByte` | the IRQ12 handler takes the ACK of 0xF4 as the first byte of a packet |
| `MCConsoleUnsigned` (`MCClocksConsole`) | `LineSaysWhatWasMeant` | `%u` (`kernel.c:105`, `fat32.c:44-47`) prints nothing and leaves its argument to the next conversion |
| `MCConsoleHex` (`MCClocksConsole`) | `LineSaysWhatWasMeant` | `%x` puts its "x" over the highest digit (`kprintf.c:39-44`), as in the address of a page fault (`idt.c:159`) |
| `MCDisplayClear` (`MCGui`) | `ScreenIsCleared` | `framebuffer.c:16` divides a pitch that `kernel.c:73` has divided: `clear_screen` reaches about the first quarter |
| `MCDesktopDestroy` (`MCGui`) | `CallbackDataIsLive` | `ClickDestroys = TRUE`: `icon.c:20-28` uses the record after the callback that freed it |
| `MCDesktopSnapshots` (`MCGui`) | `ReportsAreSnapshots` | LVGL gets x, y and button of different packets |

And by changing one constant of a passing configuration:

| Constant | Violated | What happens |
|---|---|---|
| `MCFat32`: `CallsPerOpen = 2` | `ReadsReturnTheFile` | a second `fat32_read` of an open file skips the rest of a cluster |
| `MCFat32`: `EocCluster` a data cluster | `PublishedFilesKeepTheirBytes` | on a disk that has the sector of entry 0x0FFFFFFF the link spoils data |
| `MCClocksConsole`: `Format = "AMPM"` or `"binary"` | `LabelIsNearTheTime` | `cmos.c` does not look at the chip's format |

And by checking another property with the constants of a passing configuration and
its specification:

| Configuration | Violated | What happens |
|---|---|---|
| `MCClocksConsole` | `NeverEarly` | the low half wraps between the loads: a sleep ends 2^32 ticks early |
| `MCClocksConsole` | `LabelIsATime` | `cmos.c:25` reads during an update: the label shows no time of day |
| `MCGui` | `PointerStaysOnScreen` | `mouse.c:119` never keeps the position on the screen |

Deadlock is checked except where the system may really stop: the heap when
memory is gone and everything is held or `heap_init` failed, the page fault
handler, which loops for ever, in `Paging`, and the mouse model
when the bounds on keys and packets are used up.

## 4. Fairness

* `KernelHeap`: weak fairness of the rest of a `kmalloc` call. Nothing else
  runs on the main thread meanwhile, and handlers return.
* `Keyboard`: weak fairness of the boot steps (`KernelStep`) and, where the callback
  is registered, of `lvgl_keyboard_read`, each on its own: both are the main thread's
  (`while(1)` in `kernel_main`). Only `MCKeyboardPolled` needs it: its counterexample
  is a kernel that runs on, not one that stops. Nothing obliges anybody to type, and
  the interrupt needs no fairness.
* `Paging`: weak fairness of the boot steps, which run on the main thread with
  nothing else but handlers that return.
* `Interrupts`: weak fairness of `idt_init`, of the steps of a handler, of the
  main loop, and of each interrupt the PICs offer: the processor runs on. A
  device asks again only after the main loop has run (`recent`). That is an
  assumption about the devices' pace: the timer's period is 1 ms, a PS/2 byte takes
  about as long, and the timer's and the keyboard's handlers are far shorter. It
  leaves out the mouse handler that reports a button (`mouse.c:122-159`): it waits for
  the UART before each of some 16 characters, about 4 ms in all, in which the
  timer asks again and loses ticks. The assumption says that such handlers do not
  follow each other without end; without any such bound the timer could starve the
  others.
* `Fat32`: weak fairness of the rest of a call, which only `WriteReturns` needs.
  `Crash` has none: the write of `MCFat32Link` hangs on a machine that runs for ever.
* `Clocks`: weak fairness of the timer, of `sleep_ms` and of the end of the chip's
  update. Strong fairness of the label's update: a sleep may disable it, but
  `lv_timer_handler` gets back to the label's timer. A minute passes only after a
  read that met no update began in the last one. That is an assumption: LVGL runs the
  label's timer (`taskbar.c:68`) after 1000 of its ticks, and such a tick is a round
  of the main loop (`lv_tick_inc(1)`, `kernel.c:177`), not a millisecond. It fits as
  long as 1000 rounds take much less than a minute; on a machine where a round takes
  60 ms, drawing included, the label misses minutes.
* `Console`: weak fairness of the UART and of the steps of each context. At most
  `MaxPackets` packets come while a message is printed: the mouse sends at most
  some hundred packets a second, and a character at 38400 baud takes a quarter
  of a millisecond.
* `Desktop`: weak fairness of the main loop. Nothing obliges the mouse to move.
* `Display`: no liveness is claimed.
* `Ps2`: weak fairness of the controller, of each handler when its interrupt is
  raised (the handlers acknowledge and return, `idt.c:174-191`) and of
  `mouse_init`. It must be separate for the two handlers: otherwise serving one
  would excuse starving the other.

## 5. What is proved

TLAPS checks these for every value of the constants that meets the named
assumptions.

**PhysicalMemoryProofs** (from `SizesAssumption`, `BootAssumption`):
`TypeCorrect`, `HandedStayMarked`, `WholePagesKept`, `AlignedKernelReserved`,
`HandedAreUsable`, `NoPageIsLost`. `WholePagesKept` is about every image;
`AlignedKernelReserved` says that an image which ends with a page
(`KernelEndsWithPage`) is kept to its last byte, and `MCPhysicalMemoryTail` that
other images are not. None of the properties is inductive alone: freeing a page needs
to know that the page was not the kernel's and was usable, allocating one needs
to know what a clear bit means. The inductive invariant says what every bit
means: `IInv == TypeOK /\ BitmapMeaning`, where a bit is set exactly when
`pmm_init` left it set or somebody holds the page, and never for both reasons.
`InitInv` and `NextInv` prove it, one step per action; `ClearedIsUsable` is the
arithmetic: with page-aligned regions below 4 GB, the page numbers computed
from truncated fields are those of whole pages inside a region.

**KeyboardProofs** (from `RingAssumption`, `TableAssumption`,
`DeviceAssumption`, `ShiftKeysAssumption`): `TypeCorrect`, `PopIsSafe`,
`RingImplementsQueue`, `ReleaseFollowsPress`, `ShiftLetsGo`. The inductive invariant adds to type and
`PopSlotIsSafe` that a press is only pending in the main loop and that the tail
is 0 before `keyboard_init` is done (`CallbackOK`), so that nothing is taken before
the queue has `begun`. The refinement rests on
three lemmas about the ring as a sequence, with modular arithmetic confined to
them: `BufferedIsSeq`, `PushAppends` (a push appends at the end of the
abstract queue, or the ring is full) and `PopTakesHead` (moving the tail takes
the head). `StepQueue` then maps every step to a step of `KeyQueue` or a
stutter, the reset in `keyboard_init` to the one `Forget`, the store of `kb_tail` to
`Take` in both orders of load and store. `ShiftLetsGo` rests on `ShiftComesUp`: once
no shift key is held, the last shift code under way is a release, or none that turns
shift on is under way and it is off.

**KernelHeapProofs** (from `HeapAssumption`): `TypeCorrect`, `BlocksTile`,
`UsedAreLive`, `PagesAreOwn`, `HeapImplementsAllocator`. The invariant says of the
list that each block lies in a page that is the heap's (`PlacedIn`), that two
blocks do not overlap (`ApartIn`) and that behind each block comes another one or
the page's end (`TilesIn`), and of the callers that they hold exactly the blocks
in use (`LiveIn`). It has to know that a running call has its size rounded
(`CallIsRounded`), or a split could leave a header that is not a multiple of 4.
What `kmalloc`, `kfree` and `heap_expand` do to the list are three operators
(`Split`, `Reflag`, `Grown`), each with lemmas about its shape, about the list it
leaves and about the callers. The refinement of `Allocator` follows: a return is
`Malloc` because the block found was nobody's, every other step is `Free` or a
stutter. Nothing is assumed about page and header but that both are multiples of
4, the header is shorter than the page and the page than the address space.

**PagingProofs** (from `PagingAssumption`): `TypeCorrect`, `TablesOwn`,
`MapAsAsked`. The directory is read and written through memory that
holds garbage at first, so the invariant is about words: every entry of the
directory is absent, or names a page of paging's own that no other entry names
(`SoundMap`), the present words of the tables map each page to itself, and after
each loop they are exactly those of the pages that loop has passed
(`IdentityDone`, `FramebufferDone`). That the page behind the directory, into
which `tables[]` reaches, is never given to the heap follows from pages being
given out in ascending order (`DirectoryPlaced`). `MapPageAdds` is the core: one
`map_page` adds one page and keeps what was there. The proof needs
`IDENTITY_END > 0` and an even `PAGE_SIZE`, which the small instances had by
chance; the build has both. What the properties exclude, the theorems exclude
too: a `pmm_alloc_page` that returned 0 (`~ failed`), a `tables[]` without RAM
(`DirectoryInRam`; no other page of paging's can lack it, `HolesUnused`) and, where the property says
so, framebuffers whose end wraps (`FramebufferFits`).

**Fat32Proofs** (from `VolumeAssumption`, `VolumesAssumption`): `TypeCorrect`,
`ChainsStaySound`, `PublishedFilesKeep`, `ReadsReturn`, for every geometry, every
set of sound volumes and a crash at any moment.

* `ChainsStaySound` needs that no name is created twice: publishing goes to the
  first slot of a name, so a second slot of that name would stay with the chain of
  another file. Its invariant `ChainInv` has a part for the file that is open,
  whose chain is in no directory entry yet: it meets no other file's chain
  (`OpenSlot`), and its last cluster is marked or will be by the next step
  (`OpenChain`, `MarkPending`), which is where a crash may fall.
* `PublishedFilesKeep` and `ReadsReturn` need also that a file is read or written
  once per open, and that the disk ends before the sector of entry 0x0FFFFFFF
  (section 3 shows what happens otherwise). `DataInv` says where in its chain the
  call stands (`StandsAt`, `Reading`, `Writing`) and that what was read or written
  up to there lies in the chain's clusters (`StoredIn`). `StoredMore` appends to
  stored bytes, `StoredUnder` shows that a sector written behind them leaves them
  alone, `StoredSame` that other files' bytes stay. That a chain is over before
  its last place, so that "the next cluster" is one, is a pigeonhole argument
  (`ChainIsOver`).
* A chain is a recursive function of its length, and facts about it are
  inductions. The library's induction rules take an operator, which the provers
  cannot instantiate; `SetInduction` gets induction for sets of numbers from the
  least element of a set (`WFMin`), and the lemmas use it with the set of the
  places for which the fact holds.

**InterruptsPs2Proofs**, about `Interrupts` (from `ExceptionsAssumption`):
`HandlersExclude`, `GatesAreThere`, `EoiEndsOwn`, for every depth of exceptions
and every mask. The first rests on the shape of the stack (`StackInv`): the main
thread lies at its bottom and only there, it alone runs with interrupts on, so a
handler of a device enters only over it and everything above it is an exception.
The second rests on the order of `idt_init`: interrupts come on only when the IDT
is loaded with all gates and the PICs are remapped (`SetUp`), and what runs
through a gate was let in then (`LetIn`). The third adds `OwnLines`: the lines in
service are those of the handler that runs, less what it has ended already, so
that a non-specific end-of-interrupt, and also the second one of timer and
keyboard, can end no other.

**InterruptsPs2Proofs**, about `Ps2` (from `BytesAssumption`,
`ButtonsAssumption`): `SkippingIsSafe`, `MovesAreSafe`, `Ps2TypeSafe`, for any
bytes, any number of packets and any keys. Neither property is inductive: that the
driver's next byte is its packet's next byte depends on all the bytes under way.
The invariant `PacketInv` has four parts. `PacketTypes`: each byte is the ACK or
the byte that its place in its packet says (`Genuine`). `InOrder`: what the driver
has kept, what the output buffer holds and what waits in the mouse follow each
other in the order of the packets, with the ACK before them. `Settled` and
`Protocol`: while `mouse_init` runs, the controller has answered or will answer
what `mouse_init` wrote last, so that each poll finds its own answer and the ACK
is gone before IRQ 12 is on. The last two need that nobody types before
`mouse_init` is done (`~ TypingDuringInit`, as in the passing run): a key's code
then takes the place of an answer, the ACK stays behind and comes to the handler,
and TLC finds `SkippingRealigns` violated. `Ps2TypeSafe` needs no such hypothesis.

**ClocksConsoleProofs**, about `Clocks` (from `SizesAssumption`):
`SleepsAreLongEnough` for every size of the halves, `LabelStaysNear` for every
time of day, on a chip in BCD format. The first rests on `SleepInv`: as long as
the low half has not wrapped between two loads, what the halves make up lies
between the tick the sleep began at and the present one; the uniqueness of
quotient and remainder is proved below it (`Halves`, `NoCarry`,
`HalvesAreUnique`), because the prover has no theory of division by a variable.
The second rests on `LabelInv`: at most one minute passes while a good read is
under way, so that each register shows the first or the last minute of the read.

**ClocksConsoleProofs**, about `Console` (from `UartAssumption`, `CharsAssumption`,
`MessagesAssumption`): `LinesAreSafe` and `ConsoleTypeSafe`, for every set of
messages whose conversions find arguments of their types (`Passes`), every width of
`%x`, every FIFO of two characters or more and any number of packets. Calls that ask
for what `kprintf` cannot print may be among them, before, between and after the
others. About their own lines `LinesAreSafe` says nothing: `%u` (`kernel.c:105`,
`fat32.c:44-47`) and a `%x` of a number that uses all digits (`idt.c:159`), of which
section 3 shows that the lines are wrong. The invariant has two parts beside the
types.

* `Port`: no character is lost. A context that saw the port empty may find it in use
  when it writes, but with one character at most: the handler is not interrupted,
  and it waits for each of its own characters to go. So one place behind the one
  that was seen free is enough, and `serial_init` has switched the FIFO on before
  (`InitializedIsReady`); without it the theorem is false, as the mutant shows.
* `InHand`: the place a call has read to in its format and in its arguments belong
  together (`At`, for every call), and what a well asked call has printed belongs to
  that place (`Reached`; `Follow` joins the two): if the text goes on with what the
  rest of the format means, all of it is what the format means. Each conversion moves
  that place on by its text (`AtNext`, `ReachedSame`, `ReachedShown`), and at the
  format's end the claim is the property.

Below it lies what the conversions print: `DecimalShows` (the remainders that `itoa`
stores and turns round read as the number, zero and negative ones included; C's
smallest `int` stays excluded, see section 2) and `HexShows` (for every number whose highest digit is 0). Both are
inductions over the digits. `CourseOfValues` shows once that a function over
`0 .. N` may be defined from its own earlier values, which `Worth`, `Left`,
`LowestFirst` and `From` do.

**DesktopDisplayProofs**, about `Desktop` (from `SizesAssumption`,
`ObjectsAssumption`): `CallbacksAreSafe`, on the hypothesis that a click does not
destroy its icon (`MCDesktopDestroy` shows the other case); `DraggedIconFollows`
without it. `Linked` says that containers and records point to each other one to one;
`Grabbed` that the object held keeps its distance from LVGL's point.

**DesktopDisplayProofs**, about `Display` (from `FramebuffersAssumption`):
`ScreenIsSafe` and `DisplayTypeSafe`, for every framebuffer of 32-bit pixels whose
pitch holds a row, and every buffer of LVGL that does. `ScreenShowsThePicture` is
inductive once it is known which of the three pitches is in words at which point of
`kernel_main`, and that nothing of LVGL's is in memory before its loop
(`DisplayTypes`). The work is in `lvgl_flush`: `PutAll` is a recursive function over
the rows of a strip, `ImagesDraw` says what it leaves in memory, and rows lie apart
because a row is no longer than the pitch (`RowsApart`).

Only model-checked: the liveness properties (fairness and ENABLED are outside the
prover's reach). Every safety property of the passing runs is a theorem.

## 6. What is not modelled

* The GDT and the layout of descriptors: constant tables loaded once.
* Exceptions without a gate, what becomes of a device whose request `pic_remap`
  makes the PICs forget, and `irq_set_mask`, which nothing calls.
* The boot loader, the linker script and the build.
* LVGL, a submodule that is not in the repository: it appears in `Keyboard`,
  `Desktop` and `Display` as the code uses it. The widgets of taskbar, desktop
  and `UI.c` have no state of their own; `lvgl_port.c` is not compiled.
* `string.c` and `tools.c`: loops over their arguments for LVGL; `uint_to_str`
  has no caller. `bitmap.c` and `put_pixel` have none either, and the cursor is
  an image.
* Of FAT32, the rejection of a volume by `fat32_init`, whose result its only
  caller ignores, a root directory of several clusters, and entries of the FAT
  that mark bad clusters. Of ATA, the registers: a transfer is one step.
* Of the timer, the divisor `pit_init` writes to the chip. Of the CMOS clock,
  seconds and date, which nothing shows.

## 7. Plan

1. `SkippingRealigns` and `MovesAreReal` when keys are typed during `mouse_init`:
   what is left of them once the ACK has gone through the handler.
2. `Fat32` with two files open at once, and with a root directory of two
   clusters.
3. `Keyboard` and `Ps2` over one controller, so that shift codes may be lost to
   `mouse_init`.
