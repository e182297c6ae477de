# A formal model of beeros

beeros boots a machine straight into a Beerlang REPL: a small C kernel
(console, interrupts, block device, allocator, frame buffer) and a system
written in Beerlang on top of it (ext2, mount table, line editor, window
manager, terminal, editor).  This directory holds TLA+ models of its parts,
TLC configurations that check them on small instances, and TLAPS proofs of
what holds for every instance.

Run a model with `tlc -config MCConsole.cfg MCConsole`, check the proofs with
`tlapm TrapProofs.tla`, and likewise `VirtioProofs`, `KernelProofs`,
`Ext2Proofs`, `TermProofs`, `TerminalsProofs`, `ReplProofs` and `WmProofs`.

## 1. The system

The Beerlang VM (compiler, scheduler, garbage collector) is a submodule and is
external: it is modelled only by how this repository uses it.  What matters of
it here:

* one hart; the trap handler runs to completion between any two machine
  instructions of everything else;
* tasks are green threads that run in quanta and can be preempted between any
  two bytecodes; a native function written in C runs to its end, unless it
  runs scheduler ticks itself;
* a Ctrl-C sets `vm_interrupt_requested`; the VM then unwinds the running form
  (`finally` runs, `catch` does not).

| Component | State | Operations | Interacts with |
|---|---|---|---|
| console input (`kernel/console.c`, `hal/uart.c`) | `ring`, `ring_head`, `ring_tail`, `drop_before`, `drop`, `irq_mode`, `reading`, `ctrl_c_interrupts` | `console_rx` (trap handler), `console_getc_nonblock`, `console_set_reading`, `ctrl-c!` | UART, trap handler, REPL, `beer.tty` |
| capture streams (`kernel/console.c`) | 32 slots of captured output | `capture-stream`, `console_write`, `take-output`, `release-output` | terminal windows |
| device interrupts (`kernel/mem_natives.c`, `hal/plic.c`, `lib/mem.beer`) | `irq_pending`, `irq_handlers`, the PLIC | `mem_trap_handler`, `irq-register!`, `irq-enable!`, `irq-pending?`, `irq-wait!`, `irq-loop!` | scheduler, drivers |
| C virtio-blk driver (`kernel/virtio_blk.c`, `blk_natives.c`, `lib/blk.beer`) | `devs[]` with its rings, `used_seen` | probe, read, write, flush | device, ext2 |
| Beerlang virtio-blk driver (`lib/virtio.beer`, `lib/virtio_blk.beer`) | the same, in byte buffers | attach, read, write, flush | device, tasks |
| ext2 (`lib/ext2.beer`) | the disk: bitmaps, group descriptors, superblock counts, inodes, directories; one lock | `write-file!`, `mkdir!`, `rm!`, `rmdir!`, `mv!`, `symlink!`, readers | block device |
| mount table and RAM file system (`lib/fs.beer`) | mount list, RAM tree | mount, unmount, dispatch by path | ext2, tar |
| allocator (`kernel/malloc.c`, `_sbrk`) | free lists, headers, `brk` | malloc, free, realloc, calloc, aligned_alloc | everything |
| REPL (`kernel/repl_uart.c`) | `input`, `accum`, forms still to run, retained units, compiled call of the editor | read, parse, compile, run, recover | console, line editor, scheduler, `beer.tty/recover!` |
| line editor, key decoder (`lib/lineedit.beer`, `lib/tty.beer`) | text, point, the cursor's row; history and kill ring of all REPLs; decoder state | keys, `read-form`, `render!` | console, terminals |
| input (`lib/input.beer`, `lib/virtio_input.beer`) | held keys, queue of 256, a virtqueue per device, generation | `emit!`, `poll-event`, `poll!`, `attach!`, `stop!` | devices, interrupt keys of `beer.tty`, window manager |
| window manager (`wm.beer`), graphics core (`kernel/gfx.c`) | window stack, focus, drag; surfaces, owner map, cursor | open, close, focus, move; fill, blit, present | input, frame buffer |
| terminal (`term.beer`) | cell grid, cursor, scroll region, escape state | characters and CSI sequences | capture streams, windows |
| beermacs (`packages/beermacs`) | text, point, mark, undo ring | edits, motion, undo | terminal |
| packages, tar, srv, reload, help, fonts, images | mostly none | parse, load, serve | file systems |
| boot (`beeros_main`, `kernel/beer_libs.c`, `blob_loader.c`) and platform code | `*loaded-libs*`, registered natives | load libraries, set up the frame buffer, trap entry, timer | everything, hardware |

### What is hard

* **Interleaving with the trap handler.** The console ring and `irq_pending`
  are shared with it without masking interrupts.
* **Frames nested on the C stack.** `irq-wait!` runs scheduler ticks from
  inside a native; other natives then run on top of it.
* **Late answers.** A block request that timed out stays published.
* **State that survives a reset.** The rings of the driver survive a new probe
  while the indices of the device do not.
* **Failure half-way.** ext2 operations allocate, free and link in several
  steps, and any of them may throw `:disk-full`.
* **Long sequences of legal calls**: `mv!` of directories over directories,
  window stacks, undo.
* **Wrapping counters and full buffers.** 32-bit ring counters, 16-bit virtqueue
  indices, a full ring, a full disk.
* **Preemption between bytecodes** of code that has no lock: held keys, file
  appends, window operations, the Beerlang driver.
* **One flag, several readers.** `vm_interrupt_requested` is set by the trap handler
  at any moment and cleared in three places of the REPL and by the VM: a request
  must stop the form it was meant for and no other.
* **A screen nobody reads back.** The line editor knows the screen only by its own
  arithmetic of rows and columns.
* **Generations that overlap.** A polling task finishes what it has in hand after
  its device was attached again.

The `hazards` of `PROJECT.json` list these by source line, with the properties
that cover them.

## 2. Plan

In order of what the system depends on most:

1. **Console** - done, with proofs.
2. **Interrupts** - done, with proofs.
3. **C block driver** against an abstract block device - done, with proofs.
4. **ext2 write operations** - done, with proofs; interrupted operations and the lock are left.
5. **Allocator** - done, with proofs.
6. **Desktop** - graphics core and window manager (both with proofs), and keyboards and pointers
   (with proofs of the queues) done; lines and circles of `lib/gfx.beer` are left.
7. **Terminals** - emulator and capture streams done, with proofs.
8. **Boot and the serial REPL** - done, with proofs.
9. **Line editor** on the terminal - done, with proofs of the history; the decoder
   of key sequences is left.

Theorems worth proving next: `ThrowKeepsNames` of ext2; `EmittedAsSent` of the
input devices.

## 3. The modules

### Console, TypeAhead (`kernel/console.c`)

`console_rx` is one action, because the trap handler cannot be interrupted;
`console_getc_nonblock` has one action per volatile access (`GetcBegin`,
`TestDrop`, `ClearDrop`, `SkipTypedAhead`, `CompareHead`, then `TakeByte` and
`AdvanceTail`, or `ReturnNothing`), with `pc` naming the next one and `t` and `c`
its locals.  `Modulus` stands for 2^32 and `RingSize` for `RING_SIZE`; arithmetic is
modulo `Modulus` and the signed comparison of line 66 is modelled as such.
`GetcPolled` is the polled mode of a platform without receive interrupts.
`condemned`, `must`, `fresh` and `result` are history variables: how many of the
waiting bytes were typed before the last interrupt key, how many of them when
the call began, and how many arrived since.

`TypeAhead` is the specification a user of the console has in mind: a bounded
queue; a byte that finds it full is lost; an interrupt key condemns what is
queued; a call returns the first byte that is not condemned.  The ring
implements it with `queue` mapped to the ring's contents.

### Irq (`kernel/mem_natives.c`, `hal/plic.c`, `lib/mem.beer`)

`stack` is the C stack, reduced to the frames that run scheduler ticks: the
REPL's `scheduler_run_task_to_completion` and one per `irq-wait!`.  Only the top
frame runs; `Ticks` says when it runs a tick, which is when a task can take a
quantum.  `irq_pending &= ~bit` is two actions (`LoadPending`, `StorePending`), with
the trap handler possibly in between.  The PLIC is the sets `raised`,
`in_service` and `enabled`; an interrupt number beyond the table is claimed and
never completed, as in the code.  `fired`, `owed` and `erased` are history: interrupts since
they were last waited for, those a handler is still to be called for, and those whose
bit a wait for another interrupt erased.

`FiredIsDispatched` is what the code gives of "beer task polls irq_pending -> handler runs
in task context" (`plic.h:10`).  It has two conditions, and both are hazards: the
waits for other interrupts return (else their frames stay on top of the one that
could return), and the bit is not erased for good.

Fairness (`FairSpec`): weak fairness of the trap handler and of the frame on
top - the hart never stops - and strong fairness of each task's quantum,
because the scheduler's run queue is served in order whenever ticks come, even
if the frame that runs them changes in between.  No fairness is assumed of
devices (`Raise`) or of the user's form.

### VirtioBlk, BlockDev (`kernel/virtio_blk.c`, `blk_natives.c`)

The driver's `init_device`, `virtio_blk_rw`, `virtio_blk_flush` and the spin in
`submit` (ends with `SeeUsed` or `Timeout`).  The device is external: `Fetch` reads
the chain the driver published when it gets to it, so a chain reused after a
timeout is read as it is then, `CompleteOk` and `CompleteFailed` write data,
status and used index.  `BlockDev` states what `docs/block-device.md` promises:
one request at a time; it took effect fully if it returned nil; partly,
perhaps, if it threw.  It promises nothing after a timeout or a second probe
(phase `"lost"`), where the code does not keep the promise: see section 5.

### Ext2 (`lib/ext2.beer`)

A public operation is one action, since `locked` holds the one lock over it
and the device is written only there.  It threads the disk through operators
named as the source's functions; a `Throw` carries the disk as it was left, as the
code rolls nothing back.  Modelled: both bitmaps, group and superblock counts,
directory counts, inodes with links, data and indirect blocks, directory
blocks with a limited number of entries and their growth, path resolution
with symbolic links and the hop limit, fast and slow links.  Abstracted: times,
permissions, contents, name lengths (a block holds `DirCap` entries), the
layout of metadata.  Left out: refusal of a read-only or indexed
directory, files with several names to begin with (nothing here makes a hard
link), readers, interrupts inside an operation, and paths that end in `.` or `..` (see the
hazard at `ext2.beer:793`).  `spoiled` and `starved` are history: the first is set when
`write-file!` threw after it had freed the old blocks, or `add-entry!` after it had freed a
directory's indirect blocks; the second when any operation threw after it had changed the
disk.  Each inode's group has blocks (`Ext2Assumption`): one array of descriptors serves both.

### Malloc (`kernel/malloc.c`, `_sbrk` of `kernel/syscall_stubs.c`)

Memory (`mem`) is a row of cells of `ALIGN` bytes; a cell holds a block's header, the
link of a free block, or a caller's data.  `malloc` takes the first block of the
class's list or what `_sbrk` gives; `free` pushes the block on its list; `realloc`
stays or moves (malloc, memcpy, free); `aligned_alloc` takes a larger block and
writes a second header in front of the aligned address; `calloc` clears.  Callers
store into all of what they may use, and free only what they hold.  `blocks` and
`held` are history: the headers there are, and what each caller asked for and
stored.

### Gfx, Screen (`kernel/gfx.c`, `gfx_natives.c`)

`Screen` has the reference operators: an image is a function from cells to
colours, a drawing a partial one, put onto an image with `Onto` and clipped with
`Within`.  `Gfx` has the state of the C code: the surface table with the screen in
slot 0, the owner map, and the software pointer with the pixels it hides; one
action per native.  Two places compute with `uint32_t` and wrap at `Word` in the model: the
arguments of the calls that draw on the screen (`Unsigned`), and the sums with which
`gfx_copy_rect_on` clips.  A sum that wraps clips nothing, and the `memmove` goes beyond the
surface: `wild` is set, and what is written there is not modelled.  The pointer's
position is `int32_t` and a glyph is scaled in `uint32_t`; `GfxAssumption` says that the arguments keep
both inside their type.  All other sums and products are `int64_t` and are computed in `Int`: the
model does not have scales so large that they overflow.  `asked` and `far` are history: each image as the calls described it,
without pointer or owner map in the way, so that `DrawnAsAsked` compares what is in memory
with what was asked for, and whether a copy was asked for that ends beyond 2^32.

### Wm (`wm.beer`)

The window list in stacking order, focus, drag, and what each pixel of the screen
shows: which surface (`screen`), and which pixel of it (`from`), as `present!` copies a surface
to a place.  An operation of the window manager is a sequence of steps (`todo`)
between which renderers of windows run, as they are tasks of their own; two
operations do not overlap in the model (the event loop runs them one by one; a
program that calls `open!` or `close!` from a task of its own can overlap in the
code, see the hazards).  `lost` keeps the surfaces that an exception after
`make-surface` leaves without an owner.

A window's task draws and then presents (`RenderBegin`, `RenderDraw`, `RenderEnd`), with the
window manager and its events in between: the terminal looks its window up after it drew,
`show!` before.  So it may present at a place its window has left, or draw on a surface that is
another window's by then.  `shifted` is history: the surfaces last presented elsewhere than
where their window is.  `ShownAsStacked` claims the place of the pixels for all other windows; a window
leaves `shifted` with the next `restack!`, or with the next present of its terminal.

### Term (`term.beer`, the emulator)

Grid, cursor, pen and parser; a character is one action, since only the renderer
touches a term.  `px` is what the surface shows of each cell: it is changed as
the code changes it, by its own copies and fills, and `ShownAsCells` compares it
with the cells.  The parameters of control sequences are kept parsed, as natural numbers;
others are left out.  What `read-string` cannot read throws out of `feed`: that is in `Terminals` (`Throw`),
and the hazard at `term.beer:218` says what it does.  `next_line` is history
for the one sequence, ESC E, that leaves a wrap pending in the first column.

### Terminals (`term.beer`, the input side; capture streams of `console.c`)

Per terminal a renderer and a program, the REPL in `with-term`, as tasks with their
program points; the slots they share; and tasks that the programs spawn, which inherit `*out*`
and go on printing to its slot whoever has it, since `console_capture_write` looks only at
whether the slot is used.  An interrupt is a flag (`doomed`) that the
program meets between two of its steps: inside the REPL's `try` it is caught, elsewhere
it unwinds to `release-output!`, before the `try` past it.  Bytes carry who printed
them and their number, so that order, ownership and loss can be stated.  A renderer that
is given an item of `Malformed` may end (`Throw`): nobody catches what `feed` throws.  `dropped` and
`torn` are history: bytes that found no room or no slot, and second bytes of characters that
another writer came into.

`OwnOutput` says exactly where foreign text may come from: a slot that was released and
taken again, which the old terminal's renderer still drains and the old program's tasks still
print to.  `EventuallyDrawn` is about the terminal the text was meant for, and allows only for what was
dropped, what went through such a slot, and a renderer that was given a malformed
parameter.

`FairSpec` assumes weak fairness of the renderers only: they are runnable tasks of a
scheduler that serves its queue in order.

### Input, Virtq (`lib/virtio_input.beer`, `lib/virtio.beer`, `lib/input.beer`, interrupt keys of `lib/tty.beer`)

`Virtq` is a split virtqueue as a record, with `publish`, `take_used` and the device's
side; other drivers can use it.  `Input` has a queue and a polling task per device
and generation: `attach` starts a generation, `init` resets the next device, gives it
its queue and starts its task (or `init_failed` ends the whole `attach!`, after the
generation has moved), `stop` only moves the generation.  A task looks at the
generation, takes used buffers one by one (`TakeUsed`, `OnEvent`, then `emit` per event),
and posts them again at the end (`Repost`); other tasks, devices and `attach!` run
between any two of these steps.  `emit!` is two steps: the modifiers are looked up
with the event, then `held` is swapped and the event taken by the interrupt keys or
offered.  Of the queue the model keeps how many events wait.  `sent`, `emitted` and `handled` are
history.

Left out: what `attach!` does when two tasks call it at once, the device registry
and configuration space, scaling of tablet positions, characters.  `HeldAsTyped`
assumes that no two devices have a key of the same name (two keyboards share `held`
by key name, so releasing Shift on one releases it on both), and says nothing once
two generations of a device have sent events, since the older task may come
late with its own.  A key whose release the device could not deliver stays held;
nothing in the code notices.

Fairness (`FairSpec`): weak fairness of each polling task, which the scheduler serves
in turn.  None of readers, devices or `attach!`: `EventuallyEmitted` is to hold though
nobody reads.

### Boot (`beeros_main`, `kernel/beer_libs.c`, `kernel/blob_loader.c`, `gfx_ramfb.c`)

The boot is a sequence of steps: libraries to load, natives to register, the console
and the frame buffer to set up, `/etc/init.beer` to run.  A library loads or fails; it
fails only if it may (`MayFail`: a fault of its own, or an interrupt key that stops it)
or if something its top-level forms use is not there (`Uses`, read off the forms
of each `.beer` file that are not definitions).  A failure is reported and the boot goes on.

### FormText (`is_form_complete` of `repl_uart.c`, `form-complete?` of `lib/lineedit.beer`)

Both functions as scanners over one alphabet: brackets, string quote, semicolon,
backslash, comma, white space, anything else.  They are pure and are compared on all
texts of up to four characters and a newline.  They differ, in the code and in the model, on a
backslash outside a string (`\(` is a character to the editor, a backslash and a
bracket to the C code), on a text that ends inside a string (whole to the C code,
whose reader then fails; not whole to the editor), and on a comma, which is content to the C
code (`repl_uart.c:95`) and white space to the editor (`lineedit.beer:57`): a line of commas is
whole to one and not to the other.  `Plain` leaves out the texts with a character
literal, an open string, or a comma in code before anything that is content to both, and no
others.  The C loop that skips a comment stops at the NUL and the loop around it then
steps past it, so what it answers for a text that ends in a comment depends on
what the buffer held before: both answers are possible in the model.

### Repl (`kernel/repl_uart.c`), on Boot and FormText

`pc` is where `run_repl` is: reading with the editor (`"edit"`) or with
`uart_readline` (`"readline"` before the test of `vm_interrupt_requested`, `"getc"` after
it), going through the forms (`"forms"`), running one (`"run"`), in `recover`.  `requested`
is `vm_interrupt_requested`; the trap handler (`InterruptKey`, `Type`) steps in between any two
actions.  The console is the queue of `TypeAhead`, which `Console` is shown to implement, with
a call of `console_getc_nonblock` as one step.  What happens between the end of a
line and the first form reads nothing the trap handler writes and is one step with
the end of the line (`Accept`).  The reader, the compiler and the VM are external:
a text parses or not, into up to `MaxForms` forms; a form compiles or not; its task
ends, runs on, reads keys, sets `ctrl-c!` or turns the editor on and off; with a request
pending the VM may unwind it.  `held` says that an `irq-wait!` is on the C stack above
`run_repl`, called by the form, the editor, or any task that runs in their ticks: until it
returns, nothing comes back to the loop (`Runs`).  `struck` is history: an interrupt key was pressed
since the form, or the line, began.

Fairness (`FairSpec`): weak fairness of the loop's own steps, of the boot (its
`/etc/init.beer` included, which is an assumption) and of the VM delivering a pending
interrupt to the task it runs, which it looks for between two quanta, but not while `held`:
`irq-wait!` loops in C and looks at no request (`mem_natives.c:254-262`).  None of forms, of the editor
or of an `irq-wait!`: `WayBack` is to hold for programs that never end.  "Not covered: a task stuck
inside a C native that never returns" (`docs/packages.md:141`) is its premise: from some time on no
`irq-wait!` is in the way.

### LineEdit (`lib/lineedit.beer`), on Term

The editor and the screen it draws on.  The state of a line is that of the source
(`buf`, `pos`, `crow`, `hist`, `saved_line`), with one action per command of `handle`; `render!` produces
a sequence of tokens (a character, CR, LF, or a control sequence as a whole), which `Draw` feeds to
the `put_char`, `line_feed`, `move_to` and `Erase` of `Term`.  The next key comes when all is drawn: the editor
does not look at the screen, so this loses nothing.  Another REPL may
add to the history or kill text between any two keys.  Left open: whether a
text is a whole form (either way, so more than `FormText` allows) and what a symbol completes to
(nothing, one character, or a list to print).  Of three kinds of brackets one is kept, and
`match-before` is modelled without strings and comments.  Lines fit the screen (`Fits`); beyond
that `render!` cannot reach the prompt's row any more, and does not claim to.
`earlier`, `typed` and `tail` are history: the rows above the prompt, the line as typed, how the line ended.

## 4. The runs

| Run | Shows | Bounds |
|---|---|---|
| `console` | no overrun; typed-ahead bytes, and only those, are dropped; refinement of `TypeAhead` | ring of 2, counters modulo 6 (each wraps, at different times), two byte values, one of them Ctrl-C.  State space is finite without any other bound |
| `irq` | no wake without an interrupt; an interrupt with a handler and a listener is handled, provided that the waits for other interrupts return and its bit is not erased for good (liveness) | three listeners, two of them on one of two interrupts, so that frames of both nest in any order.  An interrupt beyond the table, which sets no bit, is left to the proof of `NoSpuriousWake` |
| `virtio` | rings stay in step; the pair implements `BlockDev` | 2 sectors, 2 values, indices modulo 5, one timeout, two probes, three requests after each: enough for a late answer to meet the request after the next, and for the indices to wrap |
| `ext2` | block ownership, counts, names, links, leaks, what a throw may do | 5 blocks in groups of 3 and 2, 4 inodes, one direct block, two pointers per block, one entry beside `.` and `..` per directory block: the disk fills, a directory grows and needs an indirect block, two directory levels |
| `malloc` | blocks and held pointers stay apart; the lists hold exactly the free blocks; room, alignment and stored data are kept | 9 cells of 2 bytes, classes of 1, 2 and 4 cells, sizes 0, 3 and 5, alignments of 2 and 4 cells: up to four blocks, reuse, aligned pointers inside a block, `realloc` across classes, the end of the heap |
| `gfx` | the display shows what was asked for, through clipping, owner map and pointer | 2x3 screen, 4 calls, words of 16 values, so that the clip of a copy wraps |
| `desktop` | the screen shows the stack, pixel by pixel but for windows last presented elsewhere; the focused window is the top one; each window its own surface | 3x2 screen, 3 surfaces (the table fills, and a number is used again), 2 windows of 2x2 (a moved window overlaps its old place, the second one may get the number of the first), 3 motions of the pointer: to a tab, with the window, and on |
| `term` | pixels show the cells and the cursor | 2x2 cells, one character and the space, plain, inverse, bold and coloured, any number of characters and two control sequences with counts up to the grid |
| `terminals` | foreign text only out of a slot that was passed on; text in order, whole, accounted for; renderers catch up (liveness) | two terminals and one slot, so that it is released and taken again; a buffer of 2 bytes; a task of the first terminal prints 2 bytes, the second's program 1 into the same slot, so that it fills and a character is torn; 2 texts given to `write!`, the second malformed |
| `input` | buffers neither lost nor posted twice; events emitted as sent; held keys and modifiers as typed; no task waits for a reader (liveness) | a keyboard (Ctrl, C) and a mouse, queues of 2 buffers with indices modulo 4 (the available index wraps; the used index does not), an input queue of 1, so that it is full after an event, two generations, 3 events that go to the first, or 2 of which any go to the second |
| `repl` | buffers hold; an interrupt stops only what it was meant for; nothing left over; the two form checks agree; the boot order; the way back to the prompt past everything but an `irq-wait!` (liveness) | the boot steps of the source, with the line editor's library failing or not; keys `(`, `)`, `exit`, CR and backspace, a console queue of 1, lines of up to 3 characters and texts of up to 4 (both buffers fill), two forms in an input, five texts of the editor, one that does not fit; texts of 4 characters for the form checks |
| `lineedit` | the screen shows the line and the cursor; rows above the prompt are kept; walking a shared history comes back to the typed line | 2 columns and 3 rows, so that lines wrap, end at the edge and scroll; prompts of 1 and 2 characters; five keys or steps of another REPL; a history of at most 2, so that its oldest line goes; the cursor anywhere to begin with |

`virtio`, `gfx`, `desktop`, `terminals`, `input`, `lineedit` and `irq` allow deadlock: the first six end
when their bounds are used up, in the last a wait for an interrupt that nothing
enabled stops the model as it spins for ever in the code.  `ext2` stops exploring at a
spoiled disk, about which its properties claim nothing.

Type invariants are not checked by runs of their own; those of `Console`, `VirtioBlk`,
`Malloc` and `Repl` are proved.

## 5. Stated, and not kept by the code

Some promises of comments and documents are stated in the modules although the code
does not keep them.  They are properties of no run; TLC refutes each, as follows.

| Property | Says | What happens | To see it |
|---|---|---|---|
| `OkMeansDone` of `VirtioBlk` | "No partial transfers: an op either completes fully or throws" (`docs/block-device.md:50`) | `init_device` resets the device and leaves `avail.idx`, `used.idx` and `used_seen` as they were: after a second probe a request returns nil that the device never served | `MCVirtioBlkSwitch.cfg` with `MCVirtioBlk` |
| `NoSharedBlock` of `Ext2` | "One lock, so two tasks never allocate the same blocks" (`ext2.beer:324`) | `write-file!` frees the old blocks first; when `alloc-blocks!` throws `:disk-full` the inode still maps them, and the next allocation gives them to another inode | `MCExt2Full.cfg` with `MCExt2` |
| `NoDirInItself` of `Ext2` | `mv!` of a directory into itself is refused (`docs/filesystem.md:184`) | the test compares path strings; a destination through a symbolic link passes | added to `MCExt2Full.cfg` |
| `FiredIsPending` of `Irq` | `irq-pending?` answers whether the interrupt fired (`mem_natives.c:286`) | `irq-wait!` clears its bit with a load and a store; an interrupt recorded in between is no longer pending | added to `MCIrq.cfg` |
| `ReplResponsive` of `Irq` | `spawn` keeps the REPL responsive (`mem_natives.c:247`) | a spawned `irq-wait!` runs ticks on top of the REPL's frame, whose finished form cannot return | in place of `FiredIsDispatched` in `MCIrq.cfg` |
| `AlwaysDispatched` of `Irq` | "beer task polls irq_pending -> handler runs in task context" (`plic.h:10`) | a wait for another interrupt that never comes sits on the frame that could return; or its store erases the bit | in place of `FiredIsDispatched` in `MCIrq.cfg` |
| `NeverBeyond` of `Gfx` | `gfx_copy_rect_on` clips (`gfx.c:194-196`) | the sums are `uint32_t`: a copy that ends beyond 2^32 passes the clip and `memmove` goes beyond the surface | added to `MCGfx.cfg` |
| `ShownInPlace` of `Wm` | a renderer can present at any time (`docs/console.md:194`), so a window's picture is where the window is | a task that read its window's position presents after the window was dragged, and leaves its picture shifted where the two places overlap | added to `MCWm.cfg` |
| `OwnDrawing` of `Wm` | "Every window draws into its own beer.gfx surface" (head of `wm.beer`) | a task that has not noticed that its window was closed draws on the surface of the window that got its number | added to `MCWm.cfg` as a `PROPERTY` |
| `LandsHere` of `Terminals` | what a program and the tasks it spawns print lands on their terminal (`term.beer:399`, `docs/console.md:127`) | after `release-output!` the next terminal gets the slot; the old renderer still drains it, the old tasks still print to it | added to `MCTerminals.cfg` |
| `RendererLives` of `Terminals` | `start!` spawns a renderer that ends with `close!` (`term.beer:343-348`) | `parse-params` reads a parameter with `read-string`, which may throw, and nothing catches it: the terminal shows nothing any more | added to `MCTerminals.cfg` |
| `InterruptDropsLine` of `Repl` | "At the prompt Ctrl-\ drops the line being edited" (`docs/console.md:54`) | the key may come between the test in `uart_readline` and the call that returns the CR: the line is run, and line 375 forgets the key | added to `MCRepl.cfg` as a `PROPERTY` |
| `EdgeShown` of `LineEdit` | "a CR LF puts it at the start of the next row" (`lineedit.beer:109`): text that ends at the right edge is shown | CSI J is written before the CR LF, with the cursor still on the last character's cell, and `term.beer` erases from that cell on: the last character disappears until the next redraw moves the end | `MCLineEditEdge.cfg` with `MCLineEdit` |

An interrupt key pressed just as a form ends is also lost (line 375 clears it before the
next one); the comment there says so, and `WayBack` allows for it.

## 6. The proofs

`TrapProofs` is about what the trap handler interrupts: the console ring and `irq-wait!`.

Of the console it proves `TypeOK`, `NoOverrun` and `DropsTypedAhead` for every ring size and counter width with
`2 * RingSize < Modulus`, `Modulus` a multiple of `RingSize` (2^32 and 256 are such).

The properties are not inductive: whether the reader passes over the right bytes
depends on what `drop` and `drop_before` say at the moment the trap handler
interrupts it.  The inductive invariant is `IInv == TypeOK /\ Window /\ Pending`.
`Window` keeps the reader's local `t` between tail and head and counts the
condemned bytes.  `Pending` says, per program point, what `drop_before` is worth:
`Exact`, it is where the condemned bytes end; or, if the reader had already
decided to take a byte when the key came, one behind the tail (`Linked`), which
is the case the signed comparison of line 66 is there for.

From it follows that `Console` implements `TypeAhead`.  The abstract queue is the ring
read from the tail (`Queue`): storing a byte appends to it, because the slot written is
no slot of a waiting byte (`SlotsApart`, counters modulo `Modulus` included), and
moving the tail drops from its front (`QueueRetires`).  One fact more is carried along (`Carried`): the
byte that the reader has loaded but not yet released is still the one in its slot, and a reader that
found the ring empty has missed only bytes stored since.  Then each access of the trap handler or the reader is a step of the
queue or none.

The second half is about the device interrupts: `NoSpuriousWake` for any set of interrupts, any
listeners and any depth of nested frames.  A wake is decided by `irq_pending`, which
`irq_pending &= ~bit` stores from a copy loaded earlier; so the invariant adds that
what is about to be stored has fired and is not the waited-for bit (`StoresFired`), and
that only the top frame can be between the load and the store (`OnlyTopStores`): a
frame below runs ticks and is polling.

`VirtioProofs` proves `TypeOK`, `RingsInStep` and that `VirtioBlk` implements
`BlockDev`, for every number of sectors, values and probes, and every index
width with `MaxTimeouts + 1 < IdxMod` (with as many requests outstanding as the
index has values, a late answer is taken for the awaited one).  The invariant
joins to the types: the published requests are valid (`RequestsValid`), a driver
without a device has none (`Unattached`), the request of the caller is the last
one of the chain (`OwnCount`, `JobIsRequest`), and `used_seen` is behind the
device's index by the timed-out requests only (`RingsInStep`).  The refinement
follows step by step, with `Phase` kept opaque until the last step.

Of the input devices `VirtioProofs` proves `BuffersKept`, for every queue size that divides the
range of the indices, any devices in slots of their own, any events and any number of generations (the assumptions
are `VirtqAssumption` and `InputAssumption`).  What is offered, used and in a task's hand, in this order, is a line
of `qsize` descriptors (`Line`), and `Whole` says that the line has each descriptor once.  A
completion moves the border between offered and used past one descriptor, `take-used!` moves the
oldest used one to the end, and `publish!` moves the hand to the end of the offered; so the
lemmas `CompletedIs`, `TakenIs` and `PublishedIs` need the indices to be exact across their
wrap (`MinusIs`, `EntryIs`, `EntriesApart`), and `TakenStays` that the device does not write over the entry
that a task has taken and not yet read.  `Unborn` says that no task is started
twice, `Attached` that a device writes only to the queue of a started task.

`KernelProofs` proves of the allocator `TypeOK`, `OwnBlock` (blocks apart, pointers apart),
`FreeListsSound`, `DataKept` and `EnoughRoom` (size and alignment as asked) for every heap, any sizes, classes and alignments: whatever the calls,
no header, link or other caller's data is written into memory that is held.  The
assumptions are those of `MallocAssumption`; that `n + align` does not overflow is
in the model's use of `Nat`.  The invariant, `Good`, is stated on explicit memory
with at most one block "in hand" (neither free nor held), because `realloc`
passes through such states: each call is a sequence of moves (take a block, fill
it, free one), with one lemma per move.

Of the graphics core it proves `DrawnAsAsked`, for every screen, pointer, number of surfaces,
glyph, image and argument.  `GfxAssumption` gives the constants and arguments their types and says
that the screen's sides fit `uint32_t` and that the sums in `int32_t` and the scaled glyphs fit theirs.  The
clip of a copy wraps as in the code; `CopyRows` is reached only with a rectangle inside the surface, or
`far` is set and nothing is claimed.  The invariant adds only types: a surface's pixels are a function on its
area.  The argument has two halves.

* The pointer: taken away after it was drawn, it leaves the screen as it was, whatever `cur_saved`
  held outside the screen (`DrawnBack`); a drawing that does not meet the pointer's rectangle commutes
  with drawing and with taking it away (`ApartFromPointer`); so a write keeps the invariant when
  `cursor_hide_for` holds for every rectangle that meets both (`HideIs`, `WriteToScreen`).
* The drawing: each operation writes exactly the part of what was asked for that falls on its
  surface (`Fits`).  `ClipIs` says that `clip` gives the common cells of rectangle and surface;
  `SquareIs` that a pixel of a scaled drawing is in the square of one source pixel, the one
  that the code computes with a division; `PresentInv` that cutting at both surfaces in turn is cutting at both.
  For `gfx_copy_rect_on`, `PartialStep` says what the frame buffer holds after `i` rows (`Partial`): a row is read
  before it is written over because rows go from the bottom up exactly if they move down.  The copy
  of the screen reads its source without the pointer, or where the pointer is not.

`TermProofs` proves `CursorInside`, `ShownAsCells` and `WrapAtEdge` for a terminal of
every size, any characters and parameters.  The invariant adds that cells and
pixels are functions on the grid and parameters natural numbers or missing.
Erasing, shifting rows and writing a cell each keep "the surface shows the cells"
(one lemma each, on explicit cells and pixels); `move-to` clamps whatever it is given.
What `sgr` makes of the pen is recursive and stays opaque: no colour matters to
the argument.

It also proves `HistoryWalk` of the line editor, for any history, any limit of it and any texts
(`LineEditAssumption` only gives the constants their types).  `WalkInv` adds that the saved
line is the typed one while an entry is shown (`Walking`) and that all lines are texts.  What
carries the argument is that `remember!` never makes a history shorter (`Remembering`), so that
another REPL cannot take the entry away that is shown, and that the word motions and
`trim`, which pick the least or greatest of a set of positions, stay inside the line.

`TerminalsProofs` proves `OwnOutput`, `FedInOrder` and `Accounted` for any number of terminals,
programs, spawned tasks and slots, slots of any size, and however much is printed.  None is inductive:
whose output a terminal gets depends on which slots its renderer still drains, and a byte
is in different places while the renderer is half-way through `pending-text`.  The
invariant follows it: `Held` (of the programs that run each has its slot to itself, though tasks
of an earlier one may print to it), `Started` and `Drains` (which slots a renderer reads), `Queued` (how far each text given to `write!` has come),
`InSlot` and `OnTheWay` (bytes in a slot, in a renderer's hands and drawn are in order, each
place after the one before it; each comes from the terminal's own writers or, `Own`, out of a
slot that was passed on; and a character cut in two has its rest next, or the rest is dropped or
torn off), `Kept` (no byte is nowhere).  One lemma per action.

`ReplProofs` proves `TypeOK`, `RoomForNul`, `StopsOnlyItsForm` and `NoFormLeftOver` for all
sizes of the buffers, of the console queue and of the table of units, all keys and all
texts the editor may return (`ReplAssumption`: the input buffer holds at least a
character and a NUL).  `NoFormLeftOver` is not inductive: that nothing is
accumulated under the editor, or that no form is left at the prompt, depends on where the loop came
from.  The invariant is `IInv == Flags /\ QueueOK /\ TextOK /\ Place /\ StopsOnlyItsForm`: the
flags and counters have their types; the console holds what its queue has; both texts
fit; and, per program point (`Place`), what `left` and `accum` can
be.  In that argument the form check stays opaque: what matters is only that the same
text is asked about once.

`SameAnswer` is about the form check itself: on every plain text, of whatever length, the
scanner of the C code and that of the editor give the same answer.  It is an
induction over the positions of the text, which relates the states of the two scanners (depth, in a string, in
a comment); the induction principle is not the library's, which has an operator parameter, but a
lemma on sets of numbers (`Induction`) that follows from the well-foundedness of `<`.  `ReadersAgree`
is an instance.  `FailureHasCause` is proved from an invariant of the boot (`BootInv`): each
library whose turn has passed is loaded, may fail, or misses something it uses.

`Ext2Proofs` proves `BlocksOwnedOnce`, `CountsAgree`, `NamesLead`, `LinksAgree` and
`NothingLeaks` for disks and groups of every size, any number of direct blocks and of pointers
in a block, any names, paths, link targets and file sizes.  None is inductive, and they need
each other.  That a released inode's blocks are its own needs that no two inodes share one;
that a freed inode was in use, and so the counts come out right, needs that every name leads to
an inode in use and no two names to the same one; that `rmdir!` and `mv!` take the link from the
right directory needs that `..` leads back.  The invariant is `SoundDisk`:

* unless `spoiled`, the disk is `Fit`.  It is `Sound`: typed, counted (`BlocksCounted`,
  `InodesCounted`), free inodes are empty (`Fresh`), block maps disjoint, without repetition and
  marked used (`Apart`), names lead to inodes in use (`Leads`), one name each (`Single`), and
  directories form a tree as far as one step can tell (`Tree`): `.` and `..` in the first block
  and nowhere else (`Dots`), a name in one block (`Once`), `..` back to the directory that has the name
  (`Back`).  And it is `Linked`: the root is a nameless directory (`Rooted`), a file has one link,
  a directory two and one for each of its directories;
* until `starved`, it is also `Whole`: directories counted (`DirsCounted`), every inode
  marked used named and every block owned (`Reached`).

All are about one disk, so the proof follows the calls: what `alloc-blocks!`, `free-blocks!`,
`build-map!`, `alloc-inode!`, `add-entry!`, `remove-entry!`, `release-inode!` do to a disk, on success
and on a throw (`Took`, `Leaked`, `TookInode`, `Added`, `NotAdded`, `Removed`, `Released`), then one lemma
per operation.  Between two helpers the invariant need not hold, and the lemmas say by how much:
`Owed(d, off)` is `Linked` but for `off[i]` links of directory `i` that a later step gives or takes,
`Reached(d, i)` allows inode `i`, just allocated or just unlinked, to have no name.  `mv!` is the one
that passes through an unsound disk: between `add-entry!` and `remove-entry!` the inode has two names
(`MovedSound`), then the `..` of a moved directory leads to the old parent (`Astray`) and both parents'
counts are off by one (`Shift`), until `set-dotdot!` and the two link updates have run.
That the search for free blocks finds `n` different ones (`FirstFreeIs`) and that path resolution ends in
an inode (`WalkIs`) are inductions over numbers, from the lemma `Induction` as in `ReplProofs`.
That a directory is reachable from the root is not claimed: `mv!` can put one into itself
(see the hazard at `ext2.beer:830`).

`WmProofs` proves `ShownAsStacked`, `FocusOnTop` and `OwnSurface` for any screen, any size of
windows and any number of windows and surfaces (`WmAssumption` gives the sizes their types).  The
properties are about the window manager at rest; during an operation they are false, and the
renderers run between its steps.  The invariant says for every point an operation can
be preempted at what the steps still in `todo` will put right:

* `Phase`: nothing is under way that touches the stack (`Quiet`), or the next step is to focus, restack, close,
  free, refocus or drag (`ToFocus`, ...), each with what holds before it, or `restack!` is half-way
  (`InRestack`).  `Restacking(k)` says what its first `k` steps have done: the owner of
  each pixel is the topmost of the windows owned so far (`OnTop`), then the desktop's pixels are
  filled, then those of the windows presented so far.  A renderer with a stale position paints only
  pixels that its surface owns, so it does not disturb which surface a pixel shows; which pixel of
  the surface it does disturb, and that is left to `Places`;
* `Surfaces`: every surface in use has one holder: a window, a canvas, a step that will
  free it, or nobody after a `canvas!` that threw.  `Lights`: the frame drawn as focused is
  that of the focus, or is of a surface about to be freed;
* `Opening`: after an `open!`, which may throw and so drop the steps behind it, come
  none that matter to the stack.

On this rests a second invariant, `Places`: a window is owed a present by what is left in `todo`
(`Owed`), or is in `shifted`, or each pixel its surface owns within it shows the pixel of the surface
that lies there (`Fits`).  A step that moves a window or changes owners leaves the windows owed, since a
`restack!` comes behind it; the present that pays the debt makes the window fit; a renderer makes it fit, leaves it as it is, or
puts it into `shifted`.

Only model-checked: liveness; `EmittedAsSent` and `HeldAsTyped` of `Input`,
which compare the state with sums and folds over the history of what was sent; `ScreenShowsLine` and `EarlierKept` of the line editor, which relate the
recursive layout of a line to the terminal's cells; `ThrowKeepsNames` of `Ext2`, which
needs the room in a directory's blocks as well.

## 7. Not modelled

* Pixels and fonts, help texts, image and tar parsing, package archives: data in,
  data out, no state of interest.
* Trap entry and register-level set-up: assembly; their effect is in `Init` and in the
  atomicity of the trap handler.  The garbage collector and the VM are not part of
  this repository.
* The Beerlang virtio-blk driver (the one the boot attaches): its queue is that of
  `Virtq`; two tasks in `submit!` share one descriptor chain without a lock, though
  `docs/block-device.md:149` has drivers serialise requests, so a model could only
  show that.
* The mount table and the RAM file system: maps in atoms.  `append` reads outside the lock and
  writes the whole file back (`fs.beer:78`), and nothing says that two of them are both kept.
* The decoder of byte sequences into keys (`tty.beer`), beermacs.
* Interrupts inside an ext2 operation, and overlapping operations of the window
  manager: see the hazards.
