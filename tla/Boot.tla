-------------------------------- MODULE Boot --------------------------------
(***************************************************************************)
(* Start-up: beeros_main of kernel/repl_uart.c, with the libraries of      *)
(* kernel/beer_libs.c loaded by kernel/blob_loader.c and the frame buffer  *)
(* of gfx_ramfb.c.  A library that fails to load is reported and left out  *)
(* of *loaded-libs*, and the boot goes on with the next one.               *)
(***************************************************************************)
EXTENDS Integers, Sequences

CONSTANTS MayFail,     \* libraries whose load may fail: an error, an interrupt key
          RxIrq,       \* what uart_rx_irq_enable() returns
          HasRamfb     \* fw-cfg lists "etc/ramfb"

VARIABLES booted,      \* how many steps of beeros_main are done
          loaded,      \* the libraries in *loaded-libs*
          natives,     \* what *_register_natives registered
          irq_mode,    \* console_init: the UART receives by interrupt
          screen       \* gfx_init was called with the frame buffer

bootVars == <<booted, loaded, natives, irq_mode, screen>>

Step(what, name) == [do |-> what, name |-> name]
Load(name)    == Step("load", name)
Natives(name) == Step("natives", name)

\* The boot order: the libraries of beer_libs.c, and beeros_main around them.
beer_load_libraries ==
  <<Load("virtio"), Load("virtio-blk"), Load("ext2"), Load("fs"), Load("ustar"),
    Load("pkg"), Load("input"), Load("virtio-input"), Load("tty"), Load("lineedit")>>

\* Mutant: the libraries of beer_libs.c before the drivers they use.
BlkLast ==
  <<Load("core"), Load("reload"), Natives("mem-natives"), Load("mem"),
    Natives("tty-natives"), Step("console_init", "tty")>>
  \o beer_load_libraries \o
  <<Natives("blk-natives"), Load("blk"),
    Step("gfx_init_ramfb", "gfx"), Natives("gfx-natives"), Load("gfx"), Step("run_init", "fs")>>

beeros_main ==
  <<Load("core"), Load("reload"), Natives("mem-natives"), Load("mem"),
    Natives("tty-natives"), Step("console_init", "tty"), Natives("blk-natives"), Load("blk")>>
  \o beer_load_libraries \o
  <<Step("gfx_init_ramfb", "gfx"), Natives("gfx-natives"), Load("gfx"), Step("run_init", "fs")>>

Libraries == {beeros_main[i].name : i \in {j \in DOMAIN beeros_main : beeros_main[j].do = "load"}}

\* What the top-level forms of each library call or expand while it loads.
Uses(lib) ==
  CASE lib = "core"         -> {}
    [] lib = "virtio-blk"   -> {"core", "reload", "mem-natives", "virtio", "blk"}     \* attach!
    [] lib = "fs"           -> {"core", "reload", "blk", "ext2"}                      \* auto-mount!
    [] lib = "pkg"          -> {"core", "reload", "fs"}                               \* rescan!
    [] lib = "virtio-input" -> {"core", "reload", "mem-natives", "virtio", "input"}   \* attach!
    [] lib = "tty"          -> {"core", "reload", "input"}                            \* intercept
    [] lib \in {"blk", "ext2", "input", "lineedit"} -> {"core", "reload"}             \* defonce
    [] OTHER                -> {"core"}

BootInit ==
  /\ booted = 0
  /\ loaded = {} /\ natives = {}
  /\ irq_mode = FALSE /\ screen = FALSE

Booting == booted < Len(beeros_main)

Missing(lib) == Uses(lib) \ (loaded \cup natives)

\* beer_load_lib: the library goes into *loaded-libs* if its source ran without
\* an error.  One that uses what is not there may still get through.
beer_load_lib(lib) ==
  \/ loaded' = loaded \cup {lib}
  \/ (lib \in MayFail \/ Missing(lib) # {}) /\ loaded' = loaded

\* gfx_init_ramfb: without the fw-cfg file nothing is set up.
gfx_init_ramfb == screen' = HasRamfb

BootStep ==
  /\ Booting
  /\ booted' = booted + 1
  /\ LET s == beeros_main[booted + 1] IN
     /\ IF s.do = "load" THEN beer_load_lib(s.name) ELSE UNCHANGED loaded
     /\ natives' = natives \cup (IF s.do = "natives" THEN {s.name} ELSE {})
     /\ irq_mode' = (irq_mode \/ (s.do = "console_init" /\ RxIrq))
     /\ IF s.do = "gfx_init_ramfb" THEN gfx_init_ramfb ELSE UNCHANGED screen

\* A library that is not there failed by itself (or was stopped) or misses what
\* its top-level forms use: the boot order has every library after the libraries
\* and natives it needs ("beer.reload first: the other libraries use its
\* defonce", repl_uart.c:423), so only a fault of its own keeps one from loading.
FailureHasCause ==
  ~Booting => \A lib \in Libraries \ loaded : lib \in MayFail \/ Missing(lib) # {}
=============================================================================
