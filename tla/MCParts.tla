------------------------------ MODULE MCParts ------------------------------
(* The parts of the kernel and of its services that keep a table or a      *)
(* state of their own, with the abstract specifications of the scheduler,  *)
(* the pool and the message ring.  They share no variable: a behaviour     *)
(* exercises one of them and leaves the others in their initial states.    *)
EXTENDS ThreadLifecycle, HeapBlocks, DropOldest, Session, Firewall, Routes,
        DwmProxy, Multimedia, SysMain, Smp, Interrupts, Ps2, DebugShell, Devices,
        KernelLines, TLC

(* The idle thread and three others. *)
CONSTANTS idle, t1, t2, t3
MCSlot == {idle, t1, t2, t3}

(* Interrupt controllers tables: six processors with one that cannot be used
   and one more than there is room for; and one processor alone.            *)
Entry(i, u) == [id |-> i, usable |-> u]
MCMadt == { <<Entry(0, TRUE), Entry(2, TRUE), Entry(1, FALSE), Entry(4, TRUE), Entry(6, TRUE),
              Entry(8, TRUE)>>,
            <<Entry(0, TRUE)>> }

(* Packets that move the pointer right, with all buttons and both ways back,
   and against the edge; two of their later bytes have bit 3 set.           *)
MCPackets == { <<9, 1, 0>>, <<56, 255, 254>>, <<40, 8, 250>> }

(* Packets of the debugger: none, short, as long as the buffer, longer. *)
MCData == { << >>, <<"g">>, <<"q", "a">>, <<"q", "a", "s">>, <<"q", "b", "s", "t", "u">> }

(* A bus of three slots: nothing, a bridge, either network card, or a card of
   several functions with a gap among them.                                 *)
SlotKind == { [funcs |-> <<"none">>, multi |-> FALSE],
              [funcs |-> <<"bridge", "fast">>, multi |-> FALSE],
              [funcs |-> <<"fast">>, multi |-> FALSE],
              [funcs |-> <<"gigabit 2", "none", "gigabit">>, multi |-> TRUE],
              [funcs |-> <<"none", "gigabit">>, multi |-> TRUE] }
MCMachine == [1 .. 3 -> SlotKind]
MCGigabit == <<"gigabit", "gigabit 2">>
MCModel == {"none", "bridge", "fast", "gigabit", "gigabit 2"}

(* Lines of every kind: what shows of each is the same in other orders. *)
MCLines == { <<"typed", "power", "text">>, <<"text", "typed", "blank">>,
             <<"other", "blank", "untyped">> }

VARIABLE subject

Subject == {"threads", "pool", "queue", "sessions", "firewall", "routes", "windows",
            "deadlines", "prefetch", "processors", "calls", "interrupts", "pointer", "shell", "lines", "bus"}

MCInit ==
    /\ Init /\ PoolInit /\ QueueInit /\ security_init /\ firewall_init /\ NetmgrInit
    /\ DwmInit /\ MmcssInit /\ SysMainInit /\ DpcInit /\ Ps2Init /\ KshellInit
    /\ SmpInit /\ InterruptsInit /\ DevicesInit /\ LinesInit
    /\ subject \in Subject
    /\ subject # "processors" => g_apic_ids = <<0>>
    /\ subject # "interrupts" => savedIF = [c \in Context |-> FALSE]
    /\ subject # "lines" => bridge = "render" /\ kind = <<"typed", "power", "text">>
    /\ subject # "bus" => \A s \in DOMAIN bus : bus[s].funcs = <<"none">>

Step == \/ subject = "threads" /\ Next
        \/ subject = "pool" /\ PoolNext
        \/ subject = "queue" /\ QueueNext
        \/ subject = "sessions" /\ SessionNext
        \/ subject = "firewall" /\ FirewallNext
        \/ subject = "routes" /\ RoutesNext
        \/ subject = "windows" /\ DwmNext
        \/ subject = "deadlines" /\ MmcssNext
        \/ subject = "prefetch" /\ SysMainNext
        \/ subject = "processors" /\ SmpNext
        \/ subject = "calls" /\ DpcNext
        \/ subject = "interrupts" /\ InterruptsNext
        \/ subject = "pointer" /\ Ps2Next
        \/ subject = "shell" /\ KshellNext
        \/ subject = "lines" /\ LinesNext
        \/ subject = "bus" /\ DevicesNext

OthersRest ==
    /\ subject # "threads" => UNCHANGED vars
    /\ subject # "pool" => UNCHANGED poolVars
    /\ subject # "queue" => UNCHANGED queueVars
    /\ subject # "sessions" => UNCHANGED sessionVars
    /\ subject # "firewall" => UNCHANGED firewallVars
    /\ subject # "routes" => UNCHANGED routesVars
    /\ subject # "windows" => UNCHANGED dwmVars
    /\ subject # "deadlines" => UNCHANGED mmcssVars
    /\ subject # "prefetch" => UNCHANGED sysmainVars
    /\ subject # "processors" => UNCHANGED smpVars
    /\ subject # "calls" => UNCHANGED dpcVars
    /\ subject # "interrupts" => UNCHANGED intVars
    /\ subject # "pointer" => UNCHANGED ps2Vars
    /\ subject # "shell" => UNCHANGED kshellVars
    /\ subject # "lines" => UNCHANGED linesVars
    /\ subject # "bus" => UNCHANGED devicesVars

MCNext == Step /\ OthersRest /\ UNCHANGED subject

partsVars == <<vars, poolVars, queueVars, sessionVars, firewallVars, routesVars, dwmVars,
               mmcssVars, sysmainVars, smpVars, dpcVars, intVars, ps2Vars, kshellVars, linesVars,
               devicesVars>>

MCSpec == MCInit /\ [][MCNext]_<<partsVars, subject>>

(* A usable processor's region is its own; calls deferred in its list and in
   the scheduler's ring are made once, in order (apic.c, kpcr.c, sched.c).  *)
ProcessorsKeepOwn == RegionsOwned /\ CallsInOrder /\ CallsInRing

(* Misses are counted of late threads only and the programs kept warm are the
   most used (mmcss.c, sysmain.c).                                          *)
ServicesKeepCount == MissesAreLate /\ MostUsedAreWarm

(* The tables of the network: rules and what they let through, and routes
   (firewall.c, netmgr.c).                                                  *)
NetworkTablesAgree == FirewallAccounts /\ RoutesAgree

(* What comes over a line byte by byte is taken for what was sent: the
   mouse's packets, the debugger's, and the kernel's messages to a page
   (ps2.c, kshell.c, ipc_bridge.cjs).                                       *)
LinesInStep == PointerInStep /\ PacketsHandled /\ LinesWhole
=============================================================================
