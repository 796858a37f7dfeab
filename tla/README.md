# Xenithra OS: specifications, model checking and proofs

This directory holds TLA+ specifications of Xenithra OS: the kernel's scheduler, boot,
interrupts, memory managers and drivers, the services linked into it, its tables of
sessions, rules and routes, its compositor and applications, the boot loader, and on the
host the programs that connect the desktop to the kernel and keep it running. TLC
checks all of them on small instances. TLAPS proves the properties of most of them for
instances of every size: section 5 says which, from what, and how; section 6 what is left
to TLC, and why.

Source paths below are relative to `src/`.

| To do                    | Command                                       |
| ------------------------ | --------------------------------------------- |
| check a run              | `tlc -workers 2 -config MCSched.cfg MCSched.tla` |
| check the proofs         | `tlapm PartsProofs.tla`                        |
| see which run is which   | `PROJECT.json`, "runs"                         |

Contents: [1 Inventory](#1-inventory-of-the-system) -
[2 Modules](#2-the-modules) - [3 Runs](#3-the-runs) -
[4 Where the code and its comments differ](#4-where-the-code-and-its-comments-differ) -
[5 Proofs](#5-what-is-proved) - [6 Limits](#6-what-is-only-model-checked-and-what-is-left-out) -
[7 Plan](#7-plan)

## 1 Inventory of the system

Xenithra is an x86_64 hobby operating system: a UEFI boot loader, a monolithic
kernel in C with its service "daemons" linked in as kernel threads, desktop
shells in Electron and React that talk to the kernel through a named pipe on
the host of the virtual machine, and tooling around them. One processor runs
everything. Other processors are started and halt; they never reach the
scheduler (`kernel/arch/x86_64/apic.c`).

### 1.1 How the parts interact

- **Calls.** `kmain` (`kernel/main.c`) initialises every part in a fixed order,
  creates the threads, and ends in a loop, the event pump, which polls devices
  and every 0x4000 rounds calls `sched_tick`, `session_guard_audit` and
  `gui_ipc_tick`.
- **Interrupts.** The local APIC's timer interrupt calls `sched_tick` on top of
  whatever runs. It is armed once, for one shot (main.c:156, apic.c:340).
- **Shared state.** The ready, sleep and wait queues share the link fields of the
  thread control blocks. The kernel pool is one free list. All event sources
  push into the one message ring of `kernel/gui/gui_ipc.c`.
- **Messages.** The ring is written to a serial port, which the virtual machine
  connects to a pipe. Each shell's Electron main process has a bridge
  (`electron/ipc_bridge.cjs`) that connects to the pipe, retries, and forwards
  to its page over Electron's IPC.

### 1.2 Components

**RTOS scheduler** (`kernel/sched`). *State:* `g_threads[]` with 128 slots, six
ready queues, a sleep queue sorted by wakeup, the current thread, the tick
counter, the watchdog's streak of missed deadlines, mutexes with an owner and
a waiter list, a DPC ring. *Operations:* create, yield, sleep, exit, tick (wake
sleepers, drain DPCs, watchdog, quantum, starvation scan), boost, set deadline,
lock and unlock a priority-inheriting mutex. *Hard:* one pair of link fields for
all lists; a thread preempted inside `sched_tick` finishes that tick much later;
boosts change a priority without moving the thread to another queue; slots are
reused. *Correct when:* a thread is in the one list its state calls for; nobody
oversleeps; the highest queued thread is picked; no waiter of a thread that lives is
stranded; priorities go up and down as the comments say.

**Kernel boot and event pump** (`kernel/main.c`, `kernel/arch/x86_64`). *State:*
how far `kmain` is, what each thread has done, the timer, the interrupt flag.
*Hard:* threads are created long before what they use is set up; whether a tick
comes early depends on the timer's calibration; ticks come from a thread that can
itself be preempted. *Correct when:* no thread runs on a half-built kernel, and
urgent threads run.

**Context switch** (`kernel/arch/x86_64/switch.asm`). Pushes and pops registers and
flags; the first frame of a thread is built by hand in `sched.c` and must match.

**Kernel pool** (`kernel/mm/heap.c`). *State:* the pool's memory: blocks with a
header and a footer, a doubly linked free list inside the free blocks, a byte
counter. *Operations:* init, `kmalloc` (first fit, split), `kfree` (coalesce both
ways). *Hard:* long sequences of calls in which one stale link or footer shows up
much later; pointers freed twice. *Correct when:* no two callers share memory,
what they store is kept, every free block is found, free neighbours are merged.

**GUI IPC** (`kernel/gui/gui_ipc.c`). *State:* a ring of 64 messages with head and
tail, a flag, 16 handlers of inbound commands. *Operations:* seven kinds of send,
flush, init. *Hard:* overflow before the first flush, wrap-around, the full and
empty tests. *Correct when:* the shell gets the newest messages, in order, once.

**Panel manager** (`services/panelmgr`). A circular log of 256 entries, each
announced on the ring. Correct when it holds the newest entries in order.

**Kernel bridge of the render engine, the current shell**
(`render_engine/electron/ipc_bridge.cjs`, the indicator in
`render_engine/src/components/DesktopShell.tsx`). *State:* the socket, a
connected flag, reconnect and ping timers; in the page, an indicator.
*Operations:* connect, the socket's connect, error and close handlers,
clean-up, retry, the page's question. *Hard:* a failed attempt runs two handlers
and each sets a timer; the page can be loading when a message comes. *Correct
when:* there is never a second socket, flag and ping go with the socket, the page
shows the truth, and a server that stays up is found.

**Kernel bridge of the desktop shell** (`desktop_shell/electron/ipc_bridge.cjs`).
The same job, guarded by the one pending timer and with handles that are
overwritten and never reset.

**What both bridges read** (the data handlers of both, `KernelBridge.ts` of the render
engine). The serial line brings kernel messages and log text in chunks cut anywhere; each
bridge keeps the unfinished line. *Correct when:* what a shell shows is whole lines, each
once and in order, also when the connection is lost in the middle of one.

**Physical and virtual memory manager** (`kernel/mm/vmm.c`). *State:* the frame
database with a free list, the kernel's page tables, the next free kernel
address. *Operations:* allocate and free frames, map, unmap, `vmm_alloc_pages`.
*Hard:* an allocation that fails half-way; freeing twice. *Correct when:* a frame
has one owner and mappings and free list are disjoint.

**Session table** (`kernel/security/session.c`). 32 slots for sessions that are created,
validated with a token, locked after three wrong attempts, revoked, and audited from the
event pump. *Hard:* slots are used again only from EXPIRED, by sessions with other
numbers. *Correct when:* nothing is granted after a session was locked or revoked, to
another process, or on another's token.

**Session manager processes** (`kernel/exec/smss.c`). smss, csrss, wininit, lsass,
services, winlogon, userinit and dwm as threads with sessions of their own, and the
states of the log-on. *Hard:* userinit revokes a session by its process number (smss.c:202)
and after 200 ms, when winlogon still waits. *Correct when:* every process of the system
keeps its session, and nobody is logged on early.

**Firewall** (`kernel/security/firewall.c`, `kernel/apps/firewall_app.c`). A rule table,
first match decides; a page with a switch for each of its first rules. *Correct when* the
figures shown add up.

**Processor control region, interrupts, deferred calls** (`kernel/exec/kpcr.c`,
`kernel/arch/x86_64/gdt_idt.c`, the ring in `sched.c`). *State:* gates and interrupt
stacks, what the local APIC has in service, nested frames on the stacks of threads; a
region for each processor; two queues of deferred calls. *Hard:* the timer's interrupt is
acknowledged after `sched_tick`, which may switch threads; calls that queue calls.
*Correct when:* each acknowledgement is of its interrupt; calls are made once, in order.

**Local APIC and application processors** (`kernel/arch/x86_64/apic.c`). Finds the
processors in the firmware's table and starts them without waiting. *Correct when*
every processor has a region of its own.

**Kernel shell** (`kernel/exec/kshell.c`). Asks for the desktop, waits for it, then serves
debugger packets with checksums. *Hard:* characters come late; packets are cut.
*Correct when:* the packets that were sent are handled, once each, in order.

**Input driver** (`kernel/drivers/ps2.c`). Keyboard bytes and three-byte mouse packets
from one controller. *Hard:* staying in step when an answer comes late.

**Display driver** (`kernel/drivers/gpu/vbe.c`). A back buffer of fixed size, drawing calls
and the splash. *Hard:* coordinates wrap; rows can be longer than what is seen.

**Driver manager and network drivers** (`services/drvmgr`, `kernel/drivers/net`). The scan of
the bus into a table of bounded size and the choice of a card from it.

**Network manager** (`services/netmgr`). Routes, of which the first that matches is used
and the last takes the place of a deleted one; the link's state.

**Window manager service** (`services/dwm_proxy`). A table of the shell's windows, which it
tells of by applications' tags, not by window.

**Multimedia scheduler** (`services/mmcss`) and **prefetch service** (`services/sysmain`). Clients
whose deadlines a thread reviews in rounds; applications sorted by their use.

**In-kernel compositor** (`kernel/gui/compositor.c`). Windows, focus, stacking, dragging,
taskbar, menus, hibernation. Version 3 retired it: the running kernel calls only its
tick and its drawing, and applications create windows in it. *Hard:* the window being
dragged is a pointer kept across events. *Correct when:* the keys go to the topmost
window, a drag has a window and goes with the pointer, and a press acts on what is seen.

**DOM engine** (`kernel/gui/dom_engine.c`). Nodes from a pool that starts over, their layout
and the search for the node clicked on. Nothing in the repository uses it.

**Kernel applications** (`kernel/apps`). A player, an installer and a disk clone driven by
ticks and presses, task manager, explorer, terminal, browser. *Hard:* each has the places of
its buttons twice, where it paints them and where it is pressed.

**Boot loader** (`bootloader`). Video mode, boot menu, loading the kernel, page tables, the
end of the firmware's services. *Hard:* every step can fail half-way; the memory map
changes between its key and the exit. *Correct when:* nothing stays open, nothing is kept
allocated that is not needed, and the kernel gets the last map.

**Native shell host** (`services/native_shell_host.cpp`). A thread that restarts Electron and
a pipe server that, told to restore the explorer, ends it. *Hard:* the handle they share.

**Managed host services** (`services/aspnet_core`, `services/windows_backend`). An exec
request that reads both outputs of a child; a daemon's requests and their exceptions.

**Window stack of the page** (`render_engine/src/core/compositor.ts`). Focus, stacking,
snapping, and which windows are drawn again.

**The rest.** Sound, USB and ACPI drivers, the audio and telemetry services (tables nobody
reads); entry and trampoline code; the script engine and the Python runtime (constant
answers, no callers); animation curves, strings, fonts; kiosk scripts; the components
of the shells' pages, web shell and WinUI host (layout and demonstration data); build,
packaging and virtual machine. None of these keeps state in which an order of events
could go wrong.

`PROJECT.json`, "components", says what is left out of each part. What can go wrong in
them that a test would hardly reach is in "hazards", at its line.

## 2 The modules

| Module | Models | Kind |
| ------ | ------ | ---- |
| `ThreadLifecycle` | states of threads, owners and waiters of mutexes | abstract |
| `Sched` | `kernel/sched/sched.c`, pointer by pointer | detailed, implements `ThreadLifecycle` |
| `KernelBoot` | `kmain` from `sched_init` on, the threads it creates, timer and interrupt flag | composition over `Sched` |
| `HeapBlocks` | the pool as blocks | abstract |
| `Heap` | `kernel/mm/heap.c`, word by word | detailed, implements `HeapBlocks` |
| `Vmm` | `kernel/mm/vmm.c`: frames, page tables, allocation of pages | detailed |
| `DropOldest` | a queue that drops its oldest message | abstract |
| `GuiIpc` | the ring of `kernel/gui/gui_ipc.c` | detailed, implements `DropOldest` |
| `PanelLog` | `services/panelmgr` on top of the ring | composition over `GuiIpc` |
| `RenderBridge`, `ShellBridge` | the bridges of both shells, the first with its page | detailed |
| `KernelLines` | what the bridges make of the bytes on the line | detailed |
| `Session` | `kernel/security/session.c` | detailed |
| `SessionManager` | `kernel/exec/smss.c` | composition over `Session` |
| `Firewall`, `Routes`, `DwmProxy`, `Multimedia`, `SysMain`, `Devices` | rules, routes, windows, deadlines, prefetching, the bus | detailed |
| `Interrupts` | gates, acknowledgements, thread switches in the timer, the ring of deferred calls | detailed |
| `Smp` | start of the other processors; a processor's list of deferred calls | detailed |
| `Ps2`, `DebugShell`, `Vbe` | mouse and keyboard, debugger's packets, the splash | detailed |
| `Loader` | `bootloader` | detailed |
| `Desktop`, `Pointing` | `kernel/gui/compositor.c`: its table of windows; where things are drawn, pressed and dragged | detailed |
| `Apps`, `AppPresses` | `kernel/apps`: what the applications keep; where they draw and are pressed | detailed |
| `VirtualDom` | `kernel/gui/dom_engine.c` | detailed |
| `Ascending` | the members of a set of numbers in ascending order, by which `Smp` and others list places | helper |
| `NativeHost`, `HostRequests`, `PageWindows` | the host's programs, the page's window stack | detailed |
| `SchedProofs` | theorems about `Sched` and `KernelBoot` | proofs |
| `MemoryProofs` | theorems about `Heap` and `Vmm` | proofs |
| `PartsProofs`, `LinesProofs` | theorems about `ThreadLifecycle`, `HeapBlocks`, `DropOldest` and the modules of `MCParts`; the second has those about lines, packets and the mouse | proofs |
| `GuiIpcProofs` | theorems about the ring, the log, both bridges and the host's servers | proofs |
| `ScreensProofs` | theorems about the modules of `MCScreens` | proofs |
| `MCSched`, `MCMemory` | instances of the scheduler, and of the pool and the pages | model checking |
| `MCStartup` | the boot with the code's numbers, log, bridges and host servers | model checking |
| `MCParts`, `MCScreens` | tables, interrupts and drivers; loader, log-on, screens and host | model checking |

Definitions carry the names of the code. Next to a definition there may be a
variant with a suffix and the comment "Bug:". It is that definition with a
plausible mistake; `PROJECT.json`, "mutants", says which property finds it. No
specification uses a variant.

### 2.1 Sched

The state is the code's: `links` holds the heads and tails of the six ready
queues, the head of the sleep queue, the waiter list of every mutex, and every
thread's `next` and `prev`. `tcb` holds the other fields of every thread. Lists are
kept as pointers because the lists *share* `next`: a sequence per queue could not
show a thread that is linked twice. `Walk` reads a list back for the properties and
for the loops of the code. NULL is 0, as a thread is its slot number.

Each action is one whole call by the running thread, or one `sched_tick`:

| Action | Code |
| ------ | ---- |
| `sched_create` | `sched_create_named_kthread` |
| `sched_sleep`, `sched_exit` | the same, each with the `sched_yield` it ends in |
| `sched_tick` | steps 1 to 5 of `sched_tick`, or up to the switch in step 4 |
| `sched_tick_resumed` | step 5 for a thread that was switched away in step 4 |
| `rtos_boost`, `rtos_set_deadline` | the same |
| `kmutex_acquire`, `kmutex_block`, `kmutex_unlock` | `kmutex_lock` in its two cases, `kmutex_unlock` |

*Calls are atomic.* The queues are not protected by disabling interrupts, so a
timer interrupt in the middle of a call would see half a list. In this kernel the
timer fires once, during the calibration or shortly after (2.2), and every later
tick is an ordinary call of `kmain`'s loop; no call can then be interrupted by
another. The hazard is listed for a kernel that arms the timer periodically.

*kmain runs as the idle thread.* `sched_init` makes the idle thread current while
`kmain` goes on running, and leaves that thread in its own ready queue. So the idle
thread can be queued while it is running or queued elsewhere; properties about lists
look at the levels above IDLE, and threads are created at LOW and above. `kmain`
calls nothing that gives the processor away (`CallerMaySuspend`).

*Left out:* fields that are written and never read (pid, affinity, CPU ticks, name);
the DPC ring, into which nothing in the kernel pushes; `sched_yield` as a call of its
own, which only `sched.c` makes.

### 2.2 KernelBoot

The threads of `Sched` may make any call. Here each runs its own function: `kmain`
creates smss, netmgr, drvmgr and kshell in the order of main.c, calls
`gui_ipc_init`, then loops in the event pump (`kmain_pump`: the rounds that tick);
smss and kshell begin with a sleep of 10 and 500 ticks; netmgr and drvmgr spin. The
quanta (`BootQuanta`) and periods are those of the code. The timer was armed before `sched_init`,
for one shot: it goes off before it (`armed = FALSE` at first) or at any later moment.
`Pops`, `SavedFrame` and `NewFrame` translate the order of registers in switch.asm
and in the frame `sched.c` builds, from which a new thread gets its interrupt flag:
it starts with interrupts off (section 4), and the timer's one shot waits as long.

### 2.3 Heap

Memory is a function from words to contents. A content is a number (a size), a
pointer, one of two tags (magic with flags 0 or 1), or `Data`, which stands for what a
caller stores; a caller stores in all it asked for at once, as `kpcr_queue_dpc`, the
first caller, does. `ListNodes` follows the free list from its head, and `FirstFit` is the
first node at which the search of `kmalloc` stops. `kfree` is called with every address a pointer can have: held,
freed before, or inside a block. Addresses below `s_heap_base` and data that looks
like a tag are not enumerated. `s_free_bytes` is modelled, with its wrap-around at
`CounterMod`; the run sets it to 1, which leaves the counter out of the state,
because it drifts without bound (section 4).

### 2.4 Vmm

A frame is its number; the free list is a sequence, its head first. `entry` holds the
page tables of the kernel's pool region, by the place an entry has in the walk of
`vmm_map_page`: the directory above a page, the table above it, and its own. The
region's page map (PML4 entry 511) is there from the boot loader on, so two levels can
be missing. The contents of pages, the flags of entries and reference counts above one,
which nothing in the kernel makes, are left out.

`vmm_init` is `pfn_database_init`: it takes the memory map, finds room for the frame
database above 1 MB and pushes the frames that are free. `vmm_alloc_pages` is not one
step: `call` holds the call under way, and each round of its loop is a step, because
what matters is where it fails.

| Action | Code |
| ------ | ---- |
| `vmm_alloc_pages` | the entry of the function, with its check of the free frames |
| `map_page` | a round that succeeds: the page's frame, then frames for missing tables |
| `map_page_fails` | a round in which a table cannot be allocated |
| `roll_back` | a round in which the page's own frame cannot be allocated |
| `alloc_done` | the return of the region's address |
| `vmm_free_pages` | the same, of a region its caller holds |

In this kernel `kmain` makes the one call of `vmm_alloc_pages`, for the pool. The model
lets callers ask and release at any time, as the header offers it; a region is released
whole, and only while it is held ("previously allocated", vmm.h:204). Calls do not overlap (2.1).

### 2.5 GuiIpc and PanelLog

A message is its number in the order of sending, so that loss, duplication and
order can be seen. `sent` and `out` are history. The static ring can be filled before
`gui_ipc_init` (main.c:207), and it is. Inbound handlers are left out: a table is
filled, and nothing dispatches from it (gui_ipc.c:171-173). `panelmgr_thread` is never
started; the log is modelled as its header offers it, with `panelmgr_init` at any time.

### 2.6 RenderBridge and ShellBridge

Each follows a bridge from the window's first `connect` on, with any pattern of
failed attempts, broken connections and ends of the server. Sockets are `Socket`;
one that is closed is used again. The handlers of a process run one at a time. Node
calls a socket's error handler and then its close handler in the same turn of the
event loop, before it runs a timer (`TurnOver`); the page, another process, goes on
in between. Timers set in one turn for one delay run in one pass. `disconnect()` runs
as the window closes, just before the process ends, and is left out, as are the
commands to the kernel and the forwarding of its events to channels. `wire` is the
channel to the page, in order and without loss, as Electron's is; messages that come
while the page loads find no listener. The variables named after handles
(`_socket`, `_pingTimer`, `_client`, `_heartbeat`) are kept apart from what is really
running (`sock`, `pings`, `beats`, `timers`), for the hazard is that they differ.

`KernelLines` is what goes through such a connection: `uart_putc` writes a byte, which is
lost without a reader; `on_data(n)` takes a chunk of any length, puts it behind the rest
of the line kept before, and forwards every line that ends in it; a connection may be
lost and made at any byte. A byte is its number in what the kernel wrote, so a line
put together from two shows. What a line is (a typed message, `power`, another type, an
object without a type, plain text, blanks) decides its channels: `_dispatchKernelEvent` in
the one bridge, `_handleKernelMessage` in the other. A message cut by a lost connection, or
by `ipc_ring_push` because it did not fit, is no JSON any more and goes to the log's
channel. After a `power` line the first shell ends by itself (`app_quit`).

### 2.7 Tables of the kernel and its services

`Session`, `Firewall`, `Routes`, `DwmProxy`, `Multimedia`, `SysMain` and `Devices` each follow
one C file. The table is a function from places or a sequence, in the order the code
searches it; an action is one call of the header's functions, in any order, because that
is what the headers allow. Data is abstracted to what is compared: a token is the number
of its session (`Session`), a rule the set of packets it matches (`Firewall`), a
destination with its mask the set of addresses (`Routes`), a device its model (`Devices`).

| Module | Actions | History kept for the properties |
| ------ | ------- | ------- |
| `Session` | `session_create`, `session_validate`, `session_revoke`; `session_guard_audit` is an operator | who each session was made for; sessions that were struck |
| `Firewall` | `firewall_add_rule`, `firewall_delete_rule`, `firewall_set_active`, `firewall_filter_packet`, the page's presses | matches of rules that are gone |
| `Routes` | the two route calls, `netmgr_init_defaults`, `netmgr_on_link_change`, `netmgr_on_packet_received` | routes owed |
| `DwmProxy` | open, close, minimise, maximise, focus, the shell's close command | windows the shell was told of |
| `Multimedia` | register, unregister, a round of the thread, a tick | a round was late |
| `SysMain` | record a launch, scan, time | launches |
| `Devices` | the scan slot by slot, `e1000_init`, `rtl8139_init` | - |

`SessionManager` is `smss.c` on `Session`: every thread makes its sessions one after the
other, between those of other threads; the log-on goes on when a sleep ends, at any time;
userinit's revocation is made with the arguments the code has, a process number for the
session and VALID for the reason. That `kmain` creates smss before it calls
`security_init` is harmless only because nothing else runs by then (`SetUpFirst`, 2.2).

### 2.8 Interrupts and Smp

`nest` holds, for each thread, the interrupt frames on its stack with the stage each is
at: entered, answered, in the tick, done. A gate (`g_idt`) tells the stack and whether
interrupts stay on; the local APIC holds `in_service` until an acknowledgement, which ends
the highest vector in service, whichever the handler meant. `TimerTicks` is
`sched_tick` on top of a handler: it may switch to another thread (`switch_to_thread`),
whose frames and flag are its own, and the rest of the handler runs when the first is back.
A thread's flag at its start may be either (section 4). The ring of deferred calls is
filled by `dpc_enqueue` at any time and drained in batches inside the tick; nothing in the
kernel fills it today.

`Smp` takes the firmware's table (`parse_madt`), starts each processor and goes on without
waiting; each processor then takes its number from its place in the table. The trampoline
that leads there is never copied to its address, so the model is of what the code means
to happen. Its second part is a processor's list of deferred calls (`kpcr_queue_dpc`,
`kpcr_flush_dpc_queue`), where a callback may queue more.

### 2.9 Drivers and the debugger

`Ps2` has the bytes on the wire as a sequence, with the driver's polling apart from what
mouse and keyboard send, and the two answers of the mouse in time or late. `DebugShell` is
the same for the second serial line: characters come whenever they do, and
`gdb_recv_packet` reads what is there; a checksum is right by construction and only
whether it was there is modelled. `Vbe` has every drawing call as the set of pixels it
writes, in coordinates that wrap, against the back buffer's storage and the visible part
of each row. A packet's characters are none of `$` and `#`, which end and begin packets; the
first byte of a mouse's packet has bit 3 set, by which ps2.c:131 finds the first byte again.

### 2.10 Loader

One action for each stage of `EfiMain`: the video mode, the boot menu with its countdown
(`ui_run_boot_menu`), each name KERNEL.ELF is looked for by with every place it can fail
(`load_kernel_file`), the page tables, and the loop of `GetMemoryMap`, `AllocatePool` and
`ExitBootServices`. The firmware's calls fail or succeed, its map changes with each
allocation and by itself (`FirmwareEvent`).

`gop_init` has each of its failures: without the graphics protocol the loader gives up
(gop.c:17), a mode the firmware does not answer for is passed over (`answered`), and the
mode that was chosen may not be set, which nobody looks at, so the mode that was set before
can stay. The firmware allocates each answer; the one for the target's size ends the search
before it is freed (gop.c:36-39) and is the `"info"` left in `pool`. What the page tables
contain is left out.

### 2.11 Desktop, Pointing, Apps, AppPresses, VirtualDom

Where things lie on the screen is an input of an event in `Desktop`: what is under the
pointer is any window that is shown, or any part of the taskbar and the menus; the
event's handler then does what the code does, in its order of tests.

`Pointing` is about the places that `Desktop` leaves open. It has the boxes `compositor_render`
draws, in its order (`Cover`, `Layer`: what is drawn later hides what is below), and the
tests of `compositor_update_mouse` in theirs (`TaskbarHit`, `StartMenuHit`, `WindowHit`,
`IconHit`, `Turn`), each with its own numbers, as in the code; and it follows one window as
it is launched, dragged, maximised and put away. Screens are at least 800 by 600, as the
loader's modes are. Windows are drawn height by height, from 0 up to sixteen above their
number (`DrawnHeights`, shared by both modules); every focus makes a window higher
(`height`), so it can leave the heights that are drawn, and `Drawn` says whether it has.

`Apps` holds what the applications keep, with `compositor_tick` between any two presses.
`AppPresses` takes seven of them and has for each the boxes of what its paint handler draws
to be pressed, and the areas its mouse handler tests in the order it tests them. The
compositor gives the paint handler the corner of the content, below the title bar, and the
mouse handler points that count from the window's corner; both are expressed in the
latter. A behaviour presses the middle of things drawn and points all over the window,
in both sizes a window can have, while tabs and lists come and go.
 
`VirtualDom` builds
trees as the `jsx_` helpers would (a node is added once, below an older one) and draws
them in one size after another. Its search, layout and drawing are recursive operators,
so the module is for TLC only.

### 2.12 The host

`NativeHost` has one action for each step of its two threads between which the other can
run, down to reading the handle and using it. `HostRequests` holds two servers: `exec`, a
server that reads one pipe to its end and then the other, while its child fills them;
and the daemon, whose requests go on beside one another from their first `await`.
`PageWindows` is the class of `compositor.ts` with one action for each method; a
window's bounds are the zone it fills or "free". The list of windows is a function: its
order decides only between equal heights, and no two windows of a page are equally high.

## 3 The runs

Twelve runs. "States" are distinct states; all pass but the seven marked "violation", which
section 4 explains. `MCStartup`, `MCMemory`, `MCParts` and `MCScreens` compose parts that share
no variable: `subject`, chosen at the start of a behaviour, says which one moves. Parts
that interact are composed in modules of their own (`KernelBoot`, `PanelLog`,
`SessionManager`) or share a variable (both bridges in `MCStartup`, the scheduler's ring and
the interrupts). Deadlock is not checked: every part reaches the end of what its bounds
allow, and some really stop (a spinning thread in the boot, a halted machine, a child
and a server that wait for each other).

| Run | What it shows | States | Bounds |
| --- | ------------- | ------ | ------ |
| `sched` | Lists, counts and deadlines stay intact, the highest thread is picked, and `Sched` implements `ThreadLifecycle`. | 453,000 | 4 threads, 1 mutex, 4 ticks |
| `memory` | The pool: free list, footers and callers' memory stay intact; `Heap` implements `HeapBlocks`. The pages: no frame gets two uses, and regions stay mapped. | 25,462 | 20 words, requests of 1, 24, 40 bytes; 12 frames, 8 pages, tables of 2, calls for 1 to 3 pages |
| `startup` | Nothing runs on a half-built kernel and the urgent threads get to their first sleep. The ring is a queue that drops its oldest message, and the log holds its newest entries. Both bridges keep one socket each, the page knows, and they reconnect. The host's servers answer and close their requests. | 192,405 | the code's quanta, 1000 ticks; ring of 4, log of 3, 9 messages; 3 sockets, 4 messages under way; a pipe of 1 chunk, 2 requests |
| `parts` | The abstract specifications, each alone; the tables, drivers, interrupts and processors; the lines the bridges read. | 804,370 | 3.1 |
| `screens` | Loader, log-on, splash, tree of elements, compositor, applications, native host, the page's windows. | 353,079 | 3.1 |
| `sched_inheritance`, `sched_demotion` | violation | | as `sched` |
| `boot_gui`, `boot_interrupts` | violation | | the boot of `startup` alone |
| `vmm_failure` | violation | | as `memory` |
| `apps_presses` | violation | | as `screens` |
| `desktop_unseen` | violation | | `Desktop` alone: one window, two applications, the code's 16 heights above the count |

Several invariants are conjoined under one name in an MC module, where each part is named:

| Name | Conjuncts |
| ---- | --------- |
| `ListsIntact` (MCSched) | `TypeOK`, `OneList`, `DoublyLinked`, `CountsLive` |
| `PoolIntact` (MCMemory) | `TypeOK`, `FreeListExact`, `FootersMirror` |
| `BootInOrder` (KernelBoot) | `SetUpFirst`, `NobodyReturns` |
| `OneSocketEach`, `PageIsTold` (MCStartup) | `R!OneConnection`, `S!OneAttempt`; `R!PageKnows` |
| `BootReachesThreads`, `BothReconnect`, `ExecComesBack` (MCStartup) | `UrgentThreadsStart`; `Reconnects` of both bridges; `ExecReturns`, each for its subject |
| `NetworkTablesAgree` (MCParts) | `FirewallAccounts`, `RoutesAgree` |
| `ServicesKeepCount` (MCParts) | `MissesAreLate`, `MostUsedAreWarm` |
| `ProcessorsKeepOwn` (MCParts) | `RegionsOwned`, `CallsInOrder`, `CallsInRing` |
| `LinesInStep` (MCParts) | `PointerInStep`, `PacketsHandled`, `LinesWhole` |
| `DesktopHolds` (Pointing), `AppsAgree` (MCScreens) | `KeysOnTop`, `DragIsHeld`, `WithinReach`, `GripHolds`, `PressesLand`; `AppsInStep`, `AnswersInStep` |
| `PicturesHold` (MCScreens) | `DrawnInside`, `SiblingsApart`, `ClicksLand`, `ShownOnly` |

### 3.1 Why the bounds are enough

**sched.** Four slots hold the idle thread and three others: two waiters and an owner, a
list with a middle, a full table, a slot used again. Priorities of new threads are LOW
and REALTIME; wakes, expiries and scans lead to NORMAL and HIGH. The quanta are scaled
from 200, 20, 10, 4, 1 to 1, 1, 2, 1, 1 so that expiry and going on both happen at
NORMAL within four ticks; the starvation period and age (200 and 500) are scaled to 2,
so that a scan moves a thread at tick 4. A behaviour has one of three workloads,
chosen at its start: sleeping and exiting to tick 4; with a mutex to tick 2; with
deadlines and boosts to tick 3 and three threads. Mutexes and deadlines together with
the full clock are beyond reach; the mutex workload has been explored to tick 3 once
(987,000 states, no error), which is too long for a regular run.

*What is checked:* `OneList` - a thread is once in the one list its state calls for;
`DoublyLinked` - the same lists read backwards; `NobodyOversleeps` - the sleep queue is
sorted and nobody in it is overdue; `CountsLive` - a free slot is found exactly when
there is one; `MissedIsLate` - a renewed deadline starts clean; `DispatchesHighest` - a thread that
takes the processor has no READY thread above it (without mutexes and deadlines, see
section 4); `ImplementsLifecycle` - the refinement, from which `OneRunner` and
`NoLostWaiter`, proved of `ThreadLifecycle`, carry over to the pointer level. All are
proved for every value of the constants (section 5).

**startup, the boot.** Nothing is scaled. `MaxTicks` is above the longest sleep plus every quantum, and
the run stops ticking long before it. `SetUpFirst` - until the event pump `kmain` has
the processor, because its quantum of 200 ticks has at most the timer's one tick to
lose; `UrgentThreadsStart` - liveness; `NobodyReturns` - justifies that the model
follows no thread beyond its first sleep. Both are proved for every quantum of `kmain` above
one tick (section 5).

**memory, the pool.** Requests need blocks of 5, 7 and 9 words out of 20, so a remainder can be exactly
`HEAP_MIN_BLOCK` (kept as a block), 3 or 1 words less (left inside the block), and up to
four blocks lie side by side: every case of merging with the block before, after, both
or neither, at both ends of the pool. `FreeListExact`, `FootersMirror`,
`HeldMemoryIsKept` as above; `ImplementsBlocks` - the refinement, in which a `kfree` of
anything but a held pointer must be a stutter.

**memory, the pages.** Eight pages lie under two directories of two tables each, and seven
frames are free at most: they run out before the pages do, with both, one or no table
missing, in the first round of a call or later, so each of the three ways a round can go
is taken in each situation. The memory maps have conventional memory in one piece, in
two around a region of the firmware, or too little for the database. `OneUse` - a frame
is on the free list once, or in one entry, and never a reserved one; `RegionsBacked` - a
region that was handed out stays mapped and shares no page, although failed calls give
their addresses back. The two managers share no variable; `subject` picks one.

**startup, ring and log.** With nine messages both indices of a ring of four wrap twice, and the ring
overflows before and after `gui_ipc_init`. `ImplementsFifo` - the refinement to
`DropOldest`; `LogHoldsNewest` - the log has no gap.

**startup, the bridges.** Two sockets are enough for a socket and its successor; with a third, a second
attempt that should not be made would be seen. `MaxWire` keeps the socket's events away
while four messages are under way; the event loop then waits for the page, as it would
not in the code, but nothing in the bridge depends on the messages. `OneConnection`,
`OneAttempt` - sockets, flag, timers, intervals agree between turns; `PageKnows` - with
nothing under way a live page shows the truth; `BothReconnect` - liveness.

**startup, the host's servers.** A pipe holds one chunk. Children write nothing, what fits,
alternate outputs, or two chunks to the second pipe; the last is the case in which child
and server wait for each other, and `ExecReturns` says that it is the only one. Two
requests overlap in the daemon. `RequestsClosed` - each is closed once, at its end,
whatever is thrown.

**parts, the abstract specifications.** Four threads and two mutexes let a thread hold one and
wait for the other, and others wait for both; 24 words are up to four blocks with room
left; the queue of 3 wraps three times.

**parts, the tables.** Each table is so small that it fills and its places are used again:
two slots for three sessions, so that a number is looked for whose slot has another
session; four rules, one more than `Standard` has, for which five numbers are given out;
four routes over nets that overlap; two windows and four numbers; two clients, with
periods of none, one and three ticks over five ticks, so that rounds are in time, late,
and late by more than a period; three entries for three applications of which one is
kept warm and gets cold after one unit of time; five models on a bus of three slots and a
table of four, so that it is full in the middle of a slot.

**parts, processors and interrupts.** The firmware's table has six processors, one
unusable, for room for four, or one alone. Vectors are one of each kind: the NMI, a trap, a
fatal fault, the machine check, timer, keyboard, a device above them and the spurious
vector. Two threads with up to three frames each let the timer switch away, be answered by
another interrupt's handler, or come back; two places in the ring, drained one at a
time, wrap and overflow.

**parts, the lines.** Two mouse packets and two key strokes mix on the wire in every order;
among the packets are ones whose later bytes pass for a first byte. Packets of the
debugger are empty, short, as long as the buffer of three, and longer. Three lines of three
bytes go over two connections, lost and made at every byte and read in chunks of every
length: a line can be cut at its first, middle or last byte, with whole lines before and
after it, and each of the six kinds of lines occurs.

*What is checked of them:* `GrantsAreFresh`, `FirewallAccounts`, `RoutesAgree`, `DwmAgrees`,
`MissesAreLate`, `MostUsedAreWarm`, `TableIsBus`, `RegionsOwned`, `CallsInOrder`, `CallsInRing`,
`Acknowledged`, `PointerInStep`, `PacketsHandled`, `LinesWhole`. Each relates a table to the history of
the calls made on it, or two fields that different calls keep in step; the comment above
each says to what.

**screens.** Loader: two names for the kernel, a memory map that changes up to six times, by
the loader's own doing or by itself, so that the buffer is too small once and the exit
fails twice; displays with the wanted mode and a better one, with others only, and with
one, of which any set of modes is answered for. Log-on: the threads whose code differs (csrss, lsass and dwm do
what wininit does) make seven sessions, others make more, and eight places refuse the
last of them. Splash: screens of 9 to 28 cells against a storage of 16, with rows as long
as they are wide and longer, in a 16-value coordinate, which titles and bars wrap around. Tree: three nodes
and one beyond the pool's end, every kind of nesting, two sizes. Desktop: two windows,
three applications and six z orders: a window behind, one in front, one closed and made
again. Applications: tracks of two and three seconds, two packages, three sectors; the
process table pressed above, at, between and below its rows. Pointing: the smallest screen,
with points on both sides of the edges of everything that can be pressed, and four between
which a window is dragged, off each edge. The sixteen heights above the number of
windows (`RenderSlack`) are scaled to two: a window is drawn at heights 0 to 2 and followed up
to 4 (`MaxHeight`), so both sides of the premise of `PressesLand` are met; `desktop_unseen`
has the sixteen of the code. Presses: the middle of every item and a grid of
308 points (`Spot`), every tab and both states of lists, windows as launched and maximised. Host: three processes, three
requests. Page: two windows, two zones, three z orders after which a window returns.

*What is checked of them:* `HandsOver`, `SystemSessionsStand`, `KeysOnTop`, `DragIsHeld`,
`WithinReach`, `GripHolds`, `PressesLand`, `ShownOnly`, `AppsInStep`, `AnswersInStep`, `DrawnInside`, `SiblingsApart`, `ClicksLand`, `OneDesktop`,
`StackIsShown`. Three have a premise, because the code does not give more: `DrawnInside`
excepts screens whose whole rows need more than the storage, `SiblingsApart` trees that
grow after they were drawn or outgrow the pool, and `PressesLand` a window that is too high
to be drawn and the left edges of two cards of the taskbar (section 4).

### 3.2 Fairness

`MCStartup`, for the three liveness properties, and for one subject each:

- the boot: weak fairness of `BootNext`, because the processor always executes the current
  thread's next instruction. Nothing is assumed about which step it is; the timer in
  particular may go off late or never.
- the bridges: weak fairness of each kind of handler and of the page's steps: Node's event
  loop runs what is ready, the operating system answers an attempt and reports a broken
  connection, Electron delivers. The server's going up and down (`Serve`) and
  reloading (`Reload`) are not fair; `BothReconnect` is about a server that stays up.
- exec: weak fairness of the server's and of the child's next step (`ServerGoesOn`,
  `ChildGoesOn`): both are processes the operating system schedules. That a child ends
  is not assumed, only that it closes its outputs at some time; `ExecReturns` holds
  because the server, once it has read both pipes, waits five seconds and no longer.

Elsewhere only safety is checked and no fairness is assumed.

## 4 Where the code and its comments differ

Each of the following is a run that TLC finds violated, with the comment it takes at
its word.

1. `sched_inheritance` / `OwnerInherits`. "Priority Inheritance - prevents inversion on
   kernel mutexes" (sched.h:15). The inherited priority is lost when the owner sleeps
   and is woken, and is not given to a new owner at a hand-off.
2. `sched_demotion` / `QuantumDemotes`. "MLFQ-style demotion on quantum expiry" (sched.c:316),
   "Demote one level" (sched.c:321), and at the head of the file "time-slice decay" for NORMAL,
   LOW and IDLE (sched.c:12). The line below the second comment adds one to the priority, and a
   higher number is a higher priority in this version of the scheduler: the idle thread, and
   `kmain` with it, is at LOW after its first quantum and at NORMAL after its second. Nothing
   decays: `NothingDecays` proves that no quantum takes a thread below its base.
3. `boot_gui` / `GuiBoots`. The comment at main.c:155 says that the APIC's tick is
   periodic; it is one-shot. The only other ticks are those of `kmain`'s loop, so when
   that loop's quantum is over, kshell and smss go to sleep, `netmgr_thread` spins and
   nobody ever wakes: the shell is never announced.
4. `boot_interrupts` / `InterruptsStayOn`. `switch_to_thread` pops RFLAGS first, and the
   frame `sched.c` builds has it last: a new thread starts with interrupts off, though
   sched.c:207 says "entry_point with RFLAGS.IF = 1".
5. `vmm_failure` / `FailureUndone`. `vmm_alloc_pages` undoes its work when it finds no frame
   for a page ("Rollback already-mapped pages", vmm.c:307), and not when `vmm_map_page`
   finds none for a table (vmm.c:317): the pages before stay mapped while their addresses
   are given out again, and the next call maps others over them and loses their frames.
   `OneUse` and `RegionsBacked` hold all the same: the frames are lost, not shared.
6. `apps_presses` / `ButtonsAnswer`. The compositor hands the applications points that count
   from the window's corner (compositor.c:1368), what they paint starts 36 pixels lower
   (compositor.c:731), and their mouse handlers use the numbers of the painting. So a rule of
   "[Active Packet Inspection Rules - Click Action to Toggle]" (firewall_app.c:96) switches the
   one below it; a process of the task manager selects the next; a folder of the explorer
   selects the one below it; the player's and the cloner's buttons, "End Task", the explorer's
   ribbon and drive and the browser's address bar, input, "Execute" and first row of cards do
   nothing; "Launch App" of the installer
   installs again, its box being inside the drop zone's area. What is right: the task
   manager's tabs, the explorer's settings, the installer's packages and drop zone, the
   firewall's "Rotate" and the browser's second row of cards.
7. `desktop_unseen` / `WindowsAreDrawn`. "Render Windows in Z-Order" (compositor.c:1047): the loop
   looks for each height below the number of windows and sixteen, while every focus puts a
   window one above the highest (`window_focus`), and no height ever gets lower while a window
   stays open. A single window has height 1 when it is made; seventeen presses on it, or nine
   on the browser's button, which focuses twice, and it is gone from the screen with its
   title bar, and still takes presses and keys. As long as it has not come to that, presses and
   pictures agree (`PressesLand`).

Met while reading, without a run:

- "Returns 16-byte aligned memory" (heap.h:21): header and footer are 24 bytes, so every second
  block is at 8 modulo 16.
- "If Framebuffer is above 8GB, map the high 1GB entry into identity" (bootloader/main.c:292). The
  entry points to page 10, which already is the directory of the gigabyte from 7 GB
  (main.c:248): the frame buffer's address reaches that memory.
- gop.c:11 says that the video mode is set to the "optimal resolution"; a firmware that does not
  answer for that mode, or cannot set it, leaves another, and nothing is reported
  (gop.c:33, 53). The comment at gop.c:26 names 1920x1080 first; the code looks for 1280x720
  alone. The answer for the mode it finds is never freed (gop.c:36-39).
- A thread that exits holding a mutex strands its waiters: they stay blocked until a thread that
  is created in its slot unlocks the mutex, or for good.
- The watchdog has one streak of missed deadlines for all threads
  (`g_watchdog_miss_streak`): one that is on time sets back the streak of another.
- The left 8 pixels of the clock's card on the taskbar and 2 of the volume's do not react, which
  `PressesLand` excepts (`Beside`); the places of presses reach further right than the cards, so
  a little of what is drawn beside them opens the calendar or the volume panel.
  A press inside the start menu beside its buttons, or on the calendar or the volume panel,
  goes to what is below. The first line of a window's content counts as its title, and a
  window reacts one pixel beyond its right and lower edges.
- The installer's sixth package is below the window's edge and not drawn, and can be pressed.

- smss would create its session threads with priorities 0 and 1, commented "Realtime"
  and "Normal" (smss.c:216-219); they are IDLE and LOW. Level 0 is the queue of the idle
  thread, which stays linked there while it runs (sched.c:145-152), so a thread in that
  queue can be lost with it.
- `sched_yield`, called directly by a RUNNING thread while another is queued, would
  leave the caller RUNNING and in no queue. Only `sched.c` calls it.
- sched.c:14 says that inheritance "walks the full blocking chain"; it boosts one owner.
- A boosted thread, or an owner that inherits, stays in the queue of its old priority.
  mmcss.c:94 says that `rtos_boost` pushes it "to front of REALTIME queue".
- sched.c:15 says that the watchdog fires on more than `g_watchdog_miss_limit` missed
  *ticks* in a row; it counts a missed deadline once.
- A REALTIME thread waits for the quantum of the thread that runs; sched.h has it
  "preempt all others".
- `s_free_bytes` is not "total free bytes remaining" (heap.h:31): a split adds the whole
  remainder to a count that already contains it.
- The notification at main.c:207 is sent before `gui_ipc_init` (main.c:235) empties the
  ring, and is lost.
- `panelmgr_get_log` with fewer entries asked for than held returns the oldest ones.
- main.c calls netmgr and drvmgr service threads that "run concurrently"; drvmgr never
  runs.
- `KernelBridge.ts` (line 139) takes any message on the channel the kernel's `boot_gui`
  arrives on as a loss of connection. No component uses the hook.
- The render engine's page adds its listeners and never removes them.
- userinit revokes session 40, its process number; no session has that number, so nothing
  happens. With the right number the reason VALID would leave a session that is valid with
  an empty token (the variant `userinit_thread_OwnSession` shows it). It also ends after 200
  ms, while winlogon needs 1600 to get to SUCCESS. `s_sessions[1].logon_state` stays IDLE.
- A rule added after a deletion comes before older rules, and a deleted route's place goes
  to the last one: which of two matches wins depends on the history. `netmgr_init_defaults`
  resets routes that were added before the thread ran.
- dwm_proxy minimises, maximises and focuses windows that are closed, and tells the shell so.
- mmcss never uses a place again; after sixteen registrations clients are ignored.
- #DB is on an interrupt stack of its own behind a trap gate (gdt_idt.c:200): an interrupt
  during it could lead to a second one on the same stack. Nothing raises #DB, and
  `Acknowledged` leaves it out of `Vector`.
- The other processors would share one stack (ap_trampoline.asm:109), and
  `g_online_cpu_count` is compared and set without a lock (kpcr.c:86).
- vbe.c compares the visible pixels with its storage and then writes whole rows.
- An element drawn once keeps its size: a row that gets another child overlaps
  (dom_engine.c:139). Recycled nodes may still be in a tree.
- The native host can end a process by a handle that the other thread has just closed
  (native_shell_host.cpp:240); `stale` records it, and TLC finds a behaviour that sets it. Told
  to restore the explorer before the handle is set, it does not end Electron, and waits
  until somebody closes it.
- `ExecuteCommand` reads one output of its child to the end before the other; a child that
  fills the second first, and the server, wait for good (the premise of `ExecReturns`).

## 5 What is proved

Every theorem holds for every value of the constants that satisfies the named
assumptions of its module; nothing is taken without a proof. The assumptions say that the
constants make sense (the idle thread exists and NULL is no thread; a pool holds a block; a
ring has two slots; tables, frames and pages are positive numbers; a bus has up to eight
functions in a slot; `None` is no socket) and, where the code fixes a number, what the code
has: `kmain`'s quantum is longer than one tick (it is 200), `Vector` of `Interrupts` leaves out vector 1 (section 4), the screens of `Pointing` are
at least 800 by 600, windows are launched on the screen, and no process number of the
system is the number userinit revokes. Of what comes from outside two things are assumed:
the first byte of a mouse's packet has bit 3 set, as ps2.c:131 takes it to have, and the data
of a debugger's packet has neither `$` nor `#`, as the protocol escapes them. A tag of the
pool is no number, no pointer and nothing a caller stores (2.3).

Four theorems of `SchedProofs` have the premise `IDLE \notin CreatePrios`: no thread is
created at the level of the idle thread. `kmain` creates none; smss would (section 4), and
the lists would then break, as section 4 says. `NothingDecays` and `MissesAreSeenLate` do
without it, and so does `BootIsInOrder`, whose threads have the levels the code gives them.

The general form of an argument: `Init => Inv`, each action keeps `Inv` (a lemma for each
action, or a case of one lemma), `Inv => P`, and one temporal step. Where the invariant
says more than the properties, the table says what and why.

**`SchedProofs`**

| Theorem | States | Inductive invariant and argument |
| ------- | ------ | -------- |
| `NothingDecays`, `MissesAreSeenLate` | `NeverBelowBase` (which no run needs: it is the other side of `sched_demotion`), `MissedIsLate` | `FieldsInv`: types, and every thread is in `Thread(ticks)` - at or above its base or HIGH, and missed only if late. It needs nothing of the lists, so it holds whatever they look like. |
| `ListsStayIntact`, `SleepersAreWoken` | `ListsIntact`, `NobodyOversleeps` | `SchedInv`: there is a map `W` from threads to places (a ready queue, the sleep queue, a mutex, or nowhere) such that the links fit it (`Linked`), the states of the threads fit it (`Settled`), and the sleepers are in order and not overdue (`Asleep`). See below. |
| `SchedulerIsLifecycle` | `ImplementsLifecycle` | `SchedInv` gives each action's effect on states and waiters (`CreateStep` to `UnlockStep`), and `LifecycleStep` finds the action of `ThreadLifecycle`: calls map to one each, a tick to `Tick` with the sleepers it woke, the rest of a tick and deadlines to a stutter. |
| `HighestIsDispatched` | `DispatchesHighest` | `SchedInv` and, in the workload that only sleeps and exits, `Orderly`: the map `W` can be chosen so that each READY thread is in the queue of its priority, and none has a deadline (`Filed`). What takes the head of the highest queue then takes the highest thread. It is about `WorkSpec`, which has the workloads of the run and not their bounds. |
| `BootIsInOrder` | `BootInOrder` | `BootInv`: `SchedInv`, `Orderly`, that a READY thread other than `kmain` has not run (`Unborn`), that netmgr's thread, once created, is READY or runs at NORMAL (`Steady`), and one of two: `kmain` has the processor, nobody sleeps and, while the timer can still go off, more than one tick of its quantum is left (`Before`); or the pump has used the quantum up, `kmain` waits at LOW, and interrupts are off (`After`). |

The boot is the composition: `QuietTick` says what a tick does when nobody sleeps and no
deadline is set - the running thread goes on, or the highest of those that could run does.
It is why netmgr's thread, which never leaves, keeps `kmain` away for good; and
`FirstSwitch` is why no interrupt ends that: a new thread gets its flags from the wrong word
of its first frame.

The lists are the hard part, because the invariant the runs check is stated with `Walk`,
and a walk says nothing before it is known to end. `Linked` says it locally: the head of a
list is in the list; every other member has one in front that points to it; two threads
never point to the same one; `next` stays in the list; and there is a rank that grows along
`next` (`Chain`), which a circle could not have. Each pointer operation has one lemma about
`Linked` and `W` (`PushBackLinked`, `RemoveLinked`, `WakeFirstLinked` ...), whose core is
one about the chain (`ChainFront`, `ChainAfter`, `ChainPop`, `ChainCut`); `queue_remove`
needs `Mirror`, that `prev` is the neighbour in front. That the idle thread is linked in
its own queue while it runs is `IdleAside`. `WalkListed` then shows that a walk meets the
threads of a list, each once, in the order of `next`; from it come the places of `OneList`,
the order of the sleepers, and which of them a tick wakes (`DueFacts`). A tick's wakeups and
scans are recursive functions; they are followed step by step by a function that exists by
`StepByStep`, an induction over numbers from a least counterexample.

**`PartsProofs`**

| Theorem | States | Inductive invariant and argument |
| ------- | ------ | -------- |
| `TypeCorrect`, `RunnerIsCurrent`, `WaitersAreKept` | `TypeOK`, `OneRunner`, `NoLostWaiter` of `ThreadLifecycle` | `LifeInv` is their conjunction. `NoLostWaiter` alone is not inductive: that a thread which blocks is not queued already follows from its being RUNNING (`OneRunner`). Every action that takes the processor away goes through `Switch`, so one lemma (`SwitchFacts`) says what a switch does to the states. |
| `QueueHoldsNewest`, `DeliveryInOrder` | `HoldsNewest`, `InOrder` of `DropOldest` | `QueueInv`: both, with the types. What is delivered next is newer than what was delivered because the queue holds the newest without a gap. |
| `GrantsStayFresh` | `GrantsAreFresh` | `SessionInv` adds `SlotsTrue`: numbers in the table were given out, each to one slot, and a session in use has the token and the owner it was made with, was never struck, and has two wrong attempts at most. Without "each to one slot" the strike of one session could unlock another. |
| `ShellKnowsWindows` | `DwmAgrees` | `DwmInv`: for each application the windows the shell was told of are as many as are open, `g_window_count` is that of all, and numbers, also of closed windows, are in one place each. Counting is by cardinalities of finite sets of places. |
| `NetworkTablesStay` | `FirewallAccounts`, `RoutesAgree` | `FirewallInv` adds that enabled rules have numbers of their own; the sum of matches is taken rule by rule. `RoutesInv` counts the routes to each net: adding appends one, deleting moves the last into the gap and so removes exactly one. |
| `ProcessorsStayOwn` | `RegionsOwned`, `CallsInOrder`, `CallsInRing` | `SmpInv`: processors are started in turn and a region is filled by the one whose place it is. `DpcInv`: calls made and calls waiting, one behind the other, are those queued. `RingInv`: the place of every call in the ring, with the wrap-around as an `IF` (`Behind`). |
| `EachAcknowledged` | `Acknowledged` | `IntInv`, a theorem of its own (`IntInvHolds`): over a frame of an interrupt gate there is at most an NMI's; a vector in service has one frame that is not answered, and the other way round; only a timer's frame is left unanswered by a switch of threads; in the context that runs each unanswered vector is of a higher class than those below it. So the highest in service, which an acknowledgement ends, is the innermost. |
| `ServicesStay` | `ServicesKeepCount` | `MmcssInv`: the next deadline of a client in use is past the last round and at most a period away (`Punctual`), so a round finds it overdue only when ticks went by without one. `SysInv`: the table has one entry for each application launched, with its launches, and after a scan the first `Top` are warm or cold by time. Sorting is followed exchange by exchange: it keeps what is in the table (`Booked`) and puts no entry before one with more launches (`SortedFacts`). |
| `TableStaysBus` | `TableIsBus` | `DevicesInv`: the table is in the order of the bus and, while it has room, holds every function of the slots gone by; the slower card is taken only when there is no faster one. |

**`GuiIpcProofs`**

| Theorem | States | Inductive invariant and argument |
| ------- | ------ | -------- |
| `TypeCorrect`, `RingIsFifo` | `RingTypeOK`; `ImplementsFifo` | Step simulation under the mapping of the slots from head to tail to a sequence. The work is in a push on a full ring, in which head and tail both move and both may wrap; `Between` is characterised element by element (`BetweenFacts`, `Place`), with `%` used only on arguments below twice the ring's size (`Wrap`). |
| `LogKeepsNewest` | `LogHoldsNewest` | `LogInv`: the entry of rank i is in the slot i behind the head (`SlotOf`). |
| `ConnectionsStay`, `PageStaysTold` | `OneSocketEach`, `PageIsTold` | `RenderInv` has two cases: between two turns of the event loop the bridge holds the one socket in use (`HoldsIt`), between the two handlers of a turn it holds none and one is to be closed (`GaveItUp`); `Told` says that the last message on the way to the page, or else what it shows, is the truth. `ShellInv` has three: it holds a socket, waits for its one timer, or one has failed with the timer set. |
| `RequestsEndOnce` | `RequestsClosed` | `DaemonInv`: how often a request was closed and acted on at each point it goes through. |

**`ScreensProofs`**

| Theorem | States | Inductive invariant and argument |
| ------- | ------ | -------- |
| `LoaderHandsOver` | `HandsOver` | `LoaderInv`: what is open and allocated at every point, the answer of `gop_init` that is kept only if the display has the wanted mode (`AnswerOk`), and at the exit the map last read is the one whose key was used. Any call may fail, those for the video mode included. |
| `SystemSessionsStay` | `SystemSessionsStand` | `SmssInv`: the table is filled from its start and never emptied (`Filled`), so a number is the place of its session, what is still due of each thread, and each process has its one session or was refused. userinit's revocation meets no session only because of `Filled`: with a table of 32 no session has the number 40. |
| `WindowsAgree`, `PointingStays`, `DesktopStays` | `KeysOnTop`, `DragIsHeld`; `WithinReach`, `GripHolds`, `PressesLand`; all (`DesktopHolds`) | `DesktopInv`: heights of open windows differ, the focus is on the highest that is shown, one menu is open at most, a drag is of a shown window with the button down. `PressesLand` holds in every state of the right types: as long as an open window is drawn at all, a box that can be seen at a point is hit there, but for `Beside`, and whatever else is hit there comes later in the order of the tests. `PointingInv` adds where a drag began (`Gripped`). |
| `AppsStayInStep` | `AppsAgree` | `AppsInv`, one conjunct for each application. |
| `NeverTwoDesktops` | `OneDesktop` | `HostInv`: the process that may run is the last one started, and only while its starter waits for it. |
| `StackStaysShown` | `StackIsShown` | `PageInv`: heights of windows differ and are at most `_topZ`, the focus is on the top one that can be seen, and a window that is not dirty looks as it was drawn. The existence of a top one comes from a least element of a set of numbers (`LeastNat`, by well-founded induction). |

**`LinesProofs`**

| Theorem | States | Inductive invariant and argument |
| ------- | ------ | -------- |
| `LinesStay` | `LinesInStep` | Three invariants, one for each conjunct. `Ps2Inv`: the wire is a merge of the mouse's bytes and the keyboard's (`Mixed`: two counts that rise along the wire, by which each byte is the next of its sender), what was read of a packet is its beginning, and no packet comes before the mouse's answers are through; so as long as nothing was lost each packet is read from its own first byte. `KshellInv`: no packet is on its way (`Quiet`), or one is and is to be found after what is not a `$` (`Ahead`), or it is being read (`Within`); packets handled are those sent that are not empty, by counting them (`Full`). `LinesInv`: lines forwarded end at bytes `e` where a line ends, in ascending order; while connected, buffer and pipe are what was written from `LineStart` on without a gap (`Onward`), a line that was cut is paid for by a connection (`CutLines`), and each line that began after the connection and is over was forwarded whole. |

Lines have `LineBytes` bytes each, so where one ends is a multiple of a constant; the lemmas
`EndsFacts` to `LineLength` say what is needed of that, and `ChunkEnds`, `ChunkLine` and
`ChunkLeft` what a chunk's line ends cut the buffer into. The places of the line ends come
from `Ascending`, of which `AscendingFacts` says that it lists a finite set of numbers.

**`PartsProofs` (the pool's blocks), `MemoryProofs`**

| Theorem | States | Inductive invariant and argument |
| ------- | ------ | -------- |
| `BlocksTile`, `FreeBlocksCoalesce`, `PoolIsRestored` | `Tiled`, `Coalesced`, `NothingLost` | `BlocksInv == PoolTypeOK /\ Tiled /\ Coalesced`. `Coalesced` needs `Tiled`, to know that the block before is the only one that ends where the freed block begins. `Allocate` splits into a block taken whole and a block split; `Deallocate` into what `First` and `After` are (`FreedBlock`) and what becomes of the blocks between them. `NothingLost` follows from `BlocksInv`: with nothing used, a second block would touch a first one and both be free. |
| `PoolStaysIntact`, `HeldMemoryStays` | `PoolIntact`, `HeldMemoryIsKept` of `Heap` | `HeapInv`: the pool holds the blocks its memory shows, all free ones are listed, and those in use are the callers' with their data in them. See below. |
| `HeapImplementsBlocks` | `ImplementsBlocks` | Step simulation: `HeapInv` makes `kmalloc` an `Allocate` of the block it found (`KmallocStep`) and `kfree` a `Deallocate` of the block with its neighbours (`KfreeStep`); a `kfree` that is not honoured is a stutter. |
| `VmmTypeCorrect`, `FramesHaveOneUse`, `RegionsStayBacked` | `VmmTypeOK`, `OneUse`, `RegionsBacked` | `IInv` adds `CallUnderWay`: the call under way owns the last pages handed out, those it has mapped are backed, and every region ends before it. Without it a failed call could give back a page somebody holds. What rounds do to frames is one lemma (`TakeFrames`: some frames go to entries, the others stay on the list), what a release and the roll-back do another (`ReleaseFrames`); the page arithmetic of the tables is hidden behind `EntryFacts`. |

The pool is the hard part here, because its structure lies in the words callers write to.
`Sound` takes the blocks as a map `ln` from addresses to sizes that tiles the pool
(`Tiles`): headers and footers fit it (`Tagged`); the tag of a block in use is
nowhere but at the head of one, so `kfree` honours no other address; and the free list is a
`Chain` that visits the nodes of just the free blocks, each once, with `prev` the way back. Two of its
parameters are what a call in the middle of its work has not done yet: blocks not yet listed
and headers not yet written. Each helper of heap.c has one lemma about it (`InsertSound`,
`RemoveSound`, `SetSound`, `CarveSound`, `MergeNextSound`, `FreedSound`), and what a call
does to the list is said by `ChainInsert` and `ChainRemove`. The properties read blocks and
list from memory by walking; `BlocksFound` and `NodesListed` show that the walks find those of `ln`.
`HeldBy` is needed for the same end: a caller overwrites its own words and no other's,
because its block has room for what it asked for.

So for the ring in the code, with 64 slots, what `QueueHoldsNewest` and
`DeliveryInOrder` say of the abstract queue holds of its content.

## 6 What is only model-checked, and what is left out

- What recursive operators compute (`PicturesHold`, of `VirtualDom`).
- Liveness (`UrgentThreadsStart`, `Reconnects`, `ExecReturns`), which is beyond TLAPS'
  provers with `ENABLED` in fairness.

Abstractions that the results rest on, beyond those in section 2: calls are atomic
(2.1); the serial port takes what the ring gives it; Electron's channel is reliable; the
memory is sequentially consistent, which on the one processor that runs threads it is;
firmware and Windows do what their documentation says of the calls modelled.

Painting is not modelled, except as the set of pixels a drawing call of the splash may
write, as the boxes of the tree of elements, and as the boxes in which the compositor and
the applications draw what can be pressed.

*Not modelled:* sound, USB and ACPI drivers, the audio service and the telemetry service
(tables that nothing reads, or figures that are only passed on); entry and trampoline
code (mode switches; the trampoline is never copied to where processors start); the
script engine and the Python runtime (they keep what they are given and answer with
constants, and nothing calls them); the animation curve, strings and fonts (pure helpers
and data); kiosk scripts; page components, the first shell's page, web shell and WinUI
host (layout, demonstration data, forwarding); build and packaging. In none of them can
an order of events lead to a state that a reader of the code would not expect.

## 7 Plan

*Done:* scheduler, boot, pool, frames and pages, ring and log, bridges and the lines they
read, with their abstract specifications; sessions and the session manager; firewall,
routes, windows, deadlines, prefetching and the bus; interrupts, deferred calls and the
other processors; drivers of mouse, keyboard and splash; the debugger; the boot loader;
compositor, pointing, applications and tree of elements; the host's programs and the page's
windows. Proofs of all of them but those listed in section 6.

*Next:*

1. `ShownOnly` alone, of which `PicturesHold` is the conjunction with what recursive
   operators compute.
2. A kernel that ticks: `KernelBoot` continued under the assumption of a periodic timer, as
   the specification of what the boot should be.
