# Verification of the QCA IPQ95xx feed

TLA+ models, TLC runs and TLAPS proofs for the parts of this OpenWrt feed that
carry logic of their own.  Paths below are relative to
`src/qca/ipq95xx/ipq95xx/files-6.1/` unless they start with another directory.

## 1. The system

The feed is a board support package: kernel drivers added to Linux 6.1
(`files-6.1`), patches to Linux, mac80211, ath11k, ath12k, hostapd and iw, and
the scripts and data that make a router of it.  Most of its lines are patches
to programs that are not here, tables (clocks, pins, device trees), firmware or
generated configuration.  What is left are some twenty components.

### Inventory

| Component | State | Operations | Works with | Hard behaviour | Correct when |
|---|---|---|---|---|---|
| skb recycler, `net/core/skbuff_recycle.c` | two lists per CPU, a ring of lists shared by all, its lock, two limits | alloc, consume, consume list, procfs writes and flush, CPU hotplug | network stack, slab, workqueues, cpuhp | softirqs on every CPU, a flush and hotplug interleave; one lock is taken in two contexts | every buffer has one owner and is never lost; the ring stays consistent; the limits bound what is hoarded; every call returns |
| multi-PD remoteproc, `drivers/remoteproc/qcom_q6v5_mpd.c` | per domain: rproc state, power count, driver state, mutex | start, stop and load of root and user domains, recovery, restart thread | remoteproc core, wifi drivers, Q6 firmware | crashes during calls, workers without mutexes, two crashes in a row | the root runs exactly while used; after a crash all that ran runs again; no recovery hangs |
| dual-boot configuration, `drivers/platform/ipq/bootconfig.c` | two copies in flash and in memory, ages, checksums | read, check, restore, publish, procfs reads and writes | boot loader (SMEM), MTD, eMMC, sysupgrade | power loss between erase and write, failing writes, stale checksums | a valid copy always remains in flash; what is read back is valid |
| licence manager, `drivers/soc/qcom/license_manager.c` | the licence buffer, its validity and its use count, list of clients | get, free, rescan, QMI requests, bye | multi-PD and MHI drivers, user space | rescan against users; a list without a lock | a buffer in use is never rewritten; no client is read after its end |
| MHI test driver, `drivers/bus/mhi/test` | event list, worker, subsystem state | post event, RDDM recovery | MHI, PCI | recovery posted from interrupts | every event is handled and freed once |
| hostapd and wpa_supplicant on ubus, `hostapd-qca/src` | ubus connection and its count, bans and their timers | add and free BSS, ban, switch channel, reconnect | ubusd, eloop | timers and lost connections against removal | no timer outlives its BSS; the connection lives while objects do |
| APM and CPR3, `drivers/power/qcom/apm.c`, `drivers/regulator` | corner tables, the corner of each regulator, the aggregate, VDD and the other supplies, the array mux, the loop | set voltage, enable, disable, suspend, resume, the closed-loop switch, the interrupt thread; the table built at probe | cpufreq, regulators, clocks, fuses | a walk of several writes any of which may fail; an interrupt that waits for the lock while its cause changes | the mux is never on the wrong side; VDD suits all who are on; rails move in order; the loop runs on current targets |
| LPASS PCM, `sound/soc/qcom/ipq` | DMA rings, position, data flag, the test asked for | interrupt, `ipq_pcm_data`, `ipq_pcm_done`, start and stop of the loopback test | DMA, the codec client, sysfs | interrupt against reader, stop against wait, rings of two periods | the reader has a period that has ended, and not the hardware's unless it is late by a whole ring; rings are apart; a stop ends the test |
| skb object tracking, `net/core/skbuff_debug.c` | a state per buffer | activate, deactivate, check | recycler | none of its own | diagnostic only |
| secure upgrade and services, `sec-upgrade.c`, `qseecom.c`, `seccrypt`, `hw_key`, fuse blower | results of firmware calls | procfs and sysfs files | trust zone | single calls | arguments and results agree |
| RPM log, `drivers/soc/qcom/rpm_log.c` | read index, lengths, a local buffer per open file | open, read, close | RPM processor, which writes without knowing of readers | the RPM overwrites what is being copied; indices roll over; garbage read as a length | what is kept is whole and in order; nothing is passed over; a reader gets what is there |
| TrustZone log, `drivers/soc/qcom/tz_log.c` | copy of the area, the log put in order, a mutex | open, read, close of two files | TrustZone, firmware calls | TrustZone logs while its area is copied; the ring wraps, and so does the counter of wraps; a mutex unlocked twice | a file is the last bytes logged, oldest first, all that the ring holds |
| data capture, `drivers/soc/qcom/dcc_v2.c` | lists of entries, SRAM, `ram_cfg`, locks and enables | add read, write, read-modify-write, loop; reset, enable, disable, trigger | the capture engine, sysfs | entries merged, split and coded relative to each other; one SRAM for all lists, any of which may not fit | the engine does what was asked; enabled lists keep their program and their space |
| minidump, `drivers/soc/qcom/ctx-save.c` | the list of segments, the buffer of TLVs, two text files, the device and its header | fill and remove segments; write the device, open, read, close | drivers, module unloading, boot loader, panic notifier | an addition takes the lock in parts; nodes, TLVs and lines are used again; any of three areas can be full | the boot loader finds exactly the listed segments and the end; each has its lines; the header agrees with the arrays |
| performance monitors and firmware services, `llcc_perfmon.c`, `qwes.c` | configured counters | sysfs | hardware, firmware | none of its own | diagnostic only |
| page tracking, `mm/wrap_mem_api.c` | statistics | wrappers of the allocators | all drivers | off in the shipped configuration | diagnostic only |
| CPU power control, `cpu_ops.c`, `cpu_pwr_ctl.c`, `netstandby.c` | registers | power up a CPU, enter standby | PSCI, NSS drivers | register order | the sequence of the manual |
| clocks, pins, PHY, PWM, device trees | tables | - | - | - | data |
| patches to Linux, mac80211, ath11k, ath12k, hostapd, iw | changes to programs that are not in the tree | - | - | - | see section 8 |
| upgrade scripts, `ipq95xx/base-files/lib/upgrade` | partitions | write kernel, write root file system | sysupgrade | power loss between writes | not guaranteed |
| wireless and service scripts | generated configuration | - | netifd, procd | - | data |
| packaging, firmware, `thirdparty` | - | - | - | - | data |

The components meet in few places.  The recycler gets buffers from every
network driver and gives them to the slab allocator.  The multi-PD driver is
called by the wifi drivers through the remoteproc core, and asks the licence
manager for a buffer when it starts the root.  The boot configuration meets the
boot loader in shared memory and sysupgrade in `/proc/boot_info`.  The CPR
driver builds its corner tables once at probe and then runs on them: `TablesServe`
of `CprTables` is what `CprController` assumes of a table.  The wifi drivers'
firmware gets its licences in the buffer that `LicenseManager` models; the load
of the root domain is one of its users (`Internal`), an MHI device another
(`External`).  The logs and the capture
engine share memory with processors that are not in this tree, the minidump with
the boot loader.  No two components share state that both change, so the compositions are inside
the modules: CPUs around a ring and a lock, jobs around mutexes, a driver and
its flash, handlers around a controller lock, users and rescans around a buffer,
a thread, an interrupt and a user around a DMA ring, a reader and the RPM around
a log, lists around one SRAM, additions and removals around a TLV buffer.

What is hard to test in the modelled components is a hazard in `PROJECT.json`,
at its line, with the properties that cover it or the reason none does.

## 2. Modules

| Module | What it is |
|---|---|
| `SkbPool` | the promise of the recycler: a buffer is in use, pooled or free |
| `SkbRecycler` | the recycler in detail; implements `SkbPool` |
| `SkbRecyclerProofs` | its theorems |
| `MCSkbRecycler`, 3 cfg | its instances |
| `MpdRemoteproc` | the multi-PD driver on top of the remoteproc core |
| `MpdRemoteprocProofs` | its theorems: for every overlap of crashes and calls, then while crashes of the root keep apart |
| `MCMpdRemoteproc`, 2 cfg | its instances |
| `Bootconfig` | the boot configuration, its flash, the boot loader and sysupgrade |
| `BootconfigProofs` | its theorems |
| `MCBootconfig`, 1 cfg | its instance |
| `CprController` | the CPR controller at run time, with the array mux |
| `CprControllerProofs` | its theorems, and those of `CprTables` |
| `MCCprController`, 1 cfg | its instance: three boards |
| `CprTables` | the corner tables, from device tree and fuses |
| `MCCprTables`, 1 cfg | its instance: eight device trees and about 6200 chips |
| `LicenseManager`, 2 cfg | the licence buffer, its users and its rescans; its instances |
| `LicenseManagerProofs` | its theorems |
| `LpassPcm`, 1 cfg | a PCM interface, the loopback test's thread and its user; its instance |
| `LpassPcmProofs` | its theorems |
| `RpmLog`; `MCRpmLog`, 3 cfg | the reader of the RPM's log, and the RPM |
| `TzLog`; `MCTzLog`, 3 cfg | the files of TrustZone's log, and TrustZone |
| `TzLogProofs` | its theorem, and those of `RpmLog` |
| `DccProgram` | operators: the entries of a list, the program made of them, what the engine does with it |
| `Dcc`; `MCDcc`, 4 cfg | the users' lists and the device: all lists in one SRAM |
| `DumpList` | the promise of the minidump: a set of segments |
| `Minidump` | list, TLV buffer and files in detail; implements `DumpList` |
| `MinidumpDevice`; `MCMinidump`, 5 cfg | `/dev/minidump`, on top of `Minidump`; the instances of both |
| `MinidumpProofs` | theorems about `Minidump` and `MinidumpDevice` |

The first cfg of a module is the one that passes, or the first two of the recycler.
The others (`MCSkbRecyclerHotplug.cfg`, `MCRpmLogTorn.cfg` ...) are instances in which TLC
refutes one property; section 6 says what each of them shows.

`RpmLog` and `CprTables` call their specifications `LogSpec` and `TableSpec`, and what else `TzLog` and `CprController`
have too by names of its own, because one module of proofs extends both of each pair.

Some definitions stand just before another one with the same parameters and are
used nowhere (`AllocHotNoUnlink`, `RootGetFirst`, `SumKept`, `SwitchLate` ...).  Each is the
other with one plausible mistake; put in its place, it makes TLC find one
property violated.  They show that the properties can notice such mistakes.

### SkbRecycler

`queue` maps each `sk_buff_head` to its set of buffers: `Hot(c)` and `Spare(c)`
are the per-CPU lists, `Tmp(c)` the local list of the flush task, `Slot(i)` the
ring.  The order inside a list is dropped: nothing in the code or in the
properties depends on it.  `head`, `tail` and `lock` are the fields of
`glob_recycler`, `maxSkbs` and `maxSpare` the two limits.

A CPU runs alloc and consume with interrupts off, and only it touches its
lists, so nothing can be observed between two steps of such a section except
where it takes the ring lock.  That is where `pc` splits a call:

| Code | Actions |
|---|---|
| `skb_recycler_alloc`, `__netdev_alloc_skb` | `AllocHot`, or `AllocMiss` then `AllocLock` then `AllocRingEmpty` or `AllocRefill` and `AllocDequeue`; `AllocSlab` |
| `skb_recycler_consume` | `ConsumeReject`, `ConsumeHot`, `ConsumeSpare`, or `ConsumeFull` then `ConsumeLock` then `ConsumePublish` or `ConsumeRingFull` |
| `skb_recycler_consume_list_fast` | `ConsumeListFast`, in the debug build `ConsumeListDebug` |
| the procfs files | `WriteMaxSkbs`, `WriteMaxSpare`; `FlushWrite`, on each CPU `FlushHot`, `FlushFreeHot`, `FlushSpare`, `FlushFreeSpare`, then `FlushWorksDone`, `FlushLock`, `FlushRing` |
| `skb_cpu_callback` | `HotplugFreeHot`, `HotplugLock`, `HotplugFreeSpare`; `CpuDown` and `CpuUp` are the environment |

The callback runs in a process context with interrupts on, so a softirq of its
CPU may run between `HotplugLock` and `HotplugFreeSpare`: `Runs(c)` stays true
there while `TaskRuns(c)` does not.

Left out: the fields alloc resets or keeps (lines 101-138), preallocation (off
in `config-6.1`), the procfs files that only print, a second process that
writes `flush` at the same time, and pool sizes that are not a power of two.
`ConsumeReject` leaves open which buffers `consume_skb_can_recycle` refuses.

### MpdRemoteproc

Each protection domain is an rproc: `st`, `power` and `lock` are its state,
count and mutex; `wcss` is the driver's own state, `up` what really executes.  A
job is a client of a user domain, the crash worker of a domain or a restart
thread; `at` says where it is.  Several jobs go through the same driver
functions, so the actions take the job as a parameter: `Load`, `RootGet`,
`RootStart`, `RootRuns`, `Start`, `Run` are `pd_load`, `rproc_boot` of the root
and `pd_start`; `Stop`, `RootPut`, `Stopped` are `pd_stop`; `Sweep` and
`RootDown` are `q6_wcss_stop`, `Spin`, `Scan`, `ScanDone` the restart thread.  A
step ends where a mutex is taken or given up, where the firmware is waited for,
and between two reads of the same field.  `StartFails` and `RootStartFails` are the error returns
of the starts, `StopFails` those of `pd_stop` (the request times out, or the power-down is
refused after the user has stopped), `RootPutFails` and `RootDownFails` that of
`q6_wcss_stop` when the firmware does not shut the root down, under the last user or
during a recovery.

The remoteproc core is not in this tree.  It is modelled from the patches that
change it (0463 quotes parts of `rproc_boot` and `rproc_boot_recovery`, 0442
exports `rproc_start` and `rproc_stop`) and from how the driver relies on the rest:
`rproc_shutdown`, the crash handler and the mutex.

`MayCall`, `MayFail` and `MayCrash` say what the environment does.  With
`Overlap = FALSE` a behaviour is one of two kinds.  In one the root crashes, but only while no
call is under way, and no call begins before the recovery is over.  In the other the root
does not crash, and calls, crashes of users, and starts and stops that fail overlap freely.
A recovery that cannot shut the root down is possible in both.  With
`Overlap = TRUE` anything may meet anything.

Left out: user domains of user domains, boot arguments and licence
buffer, memory regions and image loading, probe and remove, the non-secure
build.

### Bootconfig

`flash` and `ram` are the two copies, `smem` the one the boot loader left,
`image` what user space read back.  A record has its magic, its age, the side
that boots (the same for all pairs of partitions) and its last word.  The CRC is
modelled as the tuple it covers: equal sums mean equal contents, so an accidental
collision of CRC32 is excluded.  `phase` follows `bootconfig_partition_init`:
`Read`, `Check`, `Erase`, `Write`, `Publish`; then `Edit` (age, primaryboot),
`GetBinary`, and the external `Program` and `Programmed` of sysupgrade.
`PowerLoss` can come at any step.  `type` tells MTD, a board with one MMC device
and one with two apart, because `write_to_flash` behaves differently on each.

Assumed of the environment: the boot loader needs one valid copy and prefers the
first; flash damages a copy on its own only while the other is intact (`Rot`);
sysupgrade programs a copy it has read, and only while the other one is intact;
user space writes `age` and `primaryboot` and reads the copy back one after the
other.  The last is what `ImageValid` depends on: nothing in the driver locks the
copy, and a write in the middle of `getbinary_show` would give an image with a
wrong checksum, which only the next boot would notice.
Left out: the firmware call of `trybit` and module exit.

### CprController

One controller, `Vregs` regulators that share one VDD supply, each with a
`Table` of corners.  A voltage is a number of steps; the levels of the
other supplies and the target quotients use the same scale.  `corner`, `on`
and `last` are `current_corner`, `vreg_enabled` and `last_volt` of each regulator,
`aggr` is `aggr_corner`, `supply` what the rails and the mux are really at, `cpr` and
`chip` the controller's flags and registers, `refs` the references on the
supplies.  `job` is the handler that holds the controller lock, `plan` the
writes its walk has left, `next` the aggregate it walks to.

| Code | Actions |
|---|---|
| `cpr3_regulator_set_voltage`, `_enable`, `_disable` | `SetVoltage`, `EnableVreg`, `DisableVreg`; `GiveBack` undoes an enable or drops the references of a disable, `Return` ends |
| `cpr3_regulator_suspend`, `_resume`, `closed_loop_enable` | `Suspend`, `Resume`, `ToggleClosedLoop` |
| `_cpr3_regulator_update_ctrl_state` | `Update` (aggregate, stop the loop, choose the voltage, plan the walk), `UpdateFails`, `ClocksFail`, then `MakeWrite` or `WriteFails` per write, then `Commit` |
| `cpr3_regulator_scale_vdd_voltage`, `_config_mem_acc`, `_switch_apm_mode`, `apm.c` | `Scale`, `SystemWrites`, `AccWrites`, `SwitchApm`, `Applied` |
| `cpr3_irq_handler` | `HwRaise` is the CPR block; the thread then takes the lock and is `IrqSpurious` or `Irq`, then the same walk, then `IrqDone` |

Every write of a walk is a step, so the properties hold between them, and any of
them may fail; `WriteFails` of the mux also covers the roll-back of VDD.  The APSS (CPR4) and NPU (CPR3) drivers differ in `Config`; no
board of this tree enables hardware closed loop, aging or a mem-acc threshold.

### CprTables

Computes at probe what `CprController` has as `Table`.  `stage` is the next
pass over the corners and each pass is an action: `Parse`, `FuseVoltages`,
`OpenLoop`, `Limit`, `LimitFloor`, `Quotients`, `Boost`; the checks that refuse a
device tree end at stage "failed".  Voltages are in uV, frequencies in MHz, and
divisions round as the C code's do.  A quotient is a word (`Word`, 2^32), and a fused quotient less
its offset a long one (`Long`, 2^64) that wraps below zero (`OffsetLow`) and is cut
to a word after its adjustment (`AdjustedLow`).  The products of `Interpolate` are taken exact: the
64 bits of the code hold them for every voltage and frequency of a board.  The bounds of section 4 are device trees, not
intervals: the arithmetic is checked on the values the boards have.

### LicenseManager

`disk` is what the files are now, `buf` which files were copied and how large
they were, `len`, `names`, `valid`, `count` the driver's fields, `lock` who holds
`license_valid_lock`.  A user goes `Get`, (`LockValid`, or `Lock`, `ReadFile`,
`BadList`, `SetValid`, `Unlock`), `Grant`, `Count`, and back by `Free`,
`FreeCount`, or by `Forget`, the failed load in `qcom_q6v5_mpd.c` that never
frees.  A rescan (`Rescan`, the ioctl or sysfs) tests the count and then goes the
way of a first user.  Reading a file is one step each, because `Edit` may change the files
in between.  `raced` is a history variable: some user was given the buffer while a
scan was pending.

### LpassPcm

`tree` is the device tree (both interfaces or one, voice build, memory of each ring),
`start` and `running` the flags of the test, `at` the place of its thread, `dma` the
period in the hardware, `raised` and `irq` the interrupt and its handler, `rxAdd`
and `avail` what the handler hands to the thread.  `Setup` computes the ring from
the test's parameters (`CircularBuffer`, `Buffers`, `RxBase`, `TxBase`), `Run` ..
`Check` are the loop of `pcm_test_rw` with `ipq_pcm_data`, `ipq_pcm_done` and `process_read` split where the
interrupt may come, `Store..`, `SendEvent` and `Delayed` are the sysfs write.  A thread holds its
period from `Take` to `Check`: it writes that of the transmit ring before `Done`, and `process_read`
compares that of the receive ring after it.  The tests that copy receive to transmit read before
`Done` and skip `process_read`; they are taken for those with the same parameters.
`Deadline` is an assumption about time: the handler ends within the period it
announces.  The thread may be late: `ended` counts the periods that ended since `data_avail` rose for the
pass to come, `late` those since it rose for the pass under way, and `MaxLate` bounds both.  `Settled` is
an assumption about the user, see section 6.

### RpmLog

The RPM is external: it takes up a message (`RpmBegin`), drops its oldest ones
until there is room (`RpmFree`), writes words (`RpmWrite`) and then moves its tail
(`RpmPublish`).  The reader's `msm_rpm_log_copy` is `CopyTail`, `CopyHead`, the loop
`LoopHead`, `LoopTail`, `ReadLength`, `CopyWord`, `CheckHead`, `CheckTail`: one action per
register or word it reads, because the RPM may move between any two.  `h`, `t`,
`readIdx` are `head_idx`, `tail_idx`, `read_idx`; a word of the ring is <<message,
place>>, so that a copy made of two messages shows.  All indices are modulo
`Modulus`, and `Is8974` is the version whose length word counts itself.  `kept`,
`opened` and `rolled` are history.  Left out: several readers of one open file, which
a mutex serialises, and the text of a byte, of which `Fill` keeps the length.

### TzLog

`ring` and `logged` are TrustZone's; `kerRing`, `kerCount` what was fetched, `copyBuf`,
`copyLen` the log put in order (`Ordered`: `tz_hvc_log_open` after the fetch).  `source` is the
kind of board: on "scm" one firmware call fetches the area, on "io" the position and then
every byte but the last (`FetchPosition`, `FetchByte`, `FetchEnds`).  `Wraps` is the counter of the
area, a `uint16_t` (`WrapLimit`), by which the driver tells whether the ring has wrapped.  `Release` unlocks the mutex
as the code does, whoever has it.  A byte of the log is its number.  Left out: the
text of encrypted logs, the IPQ806x layout, `smmu_state`.

### DccProgram and Dcc

Addresses and lengths count registers.  `ConfigAdd`, `Write`, `Rmw` and `Loop` make the
entries as `dcc_config_add` and its neighbours do, with its merging and splitting;
`Program` folds `PutEntry` over them and carries the local variables of `__dcc_ll_cfg` (`link`,
`addr`, `off`, `total`, the loop), one operator per branch.  `Accesses` is an assumption about
the engine, taken from the words that the driver's comments describe: a pair moves a
place by its offset and reads or writes its length from there, a loop repeats what
came since.  The count of a loop is kept less one, in a word that wraps (`Word`), and written to a field of
fewer bits (`LoopField`).  `Dcc` has all lists, `curr_list`, locks, enables and the SRAM.  `asked` is
history, what a user asked of a list, and `Meaning` is the accesses that this stands for;
the files that add an entry share `Fill`.  A word of the SRAM is
clear, captured or of the program of a list: every file takes the driver's mutex, so a
store is one action, and `Enable` goes through the lists in their order as `dcc_enable`
does, up to the first that fails.

### Minidump, DumpList and MinidumpDevice

`list` is `metadata_list`, `buf` and `cur` the TLV buffer and its position, `line`, `len`, `at`
the two files with their lengths and offsets, `numSeg` the count in the header.  A
caller of `minidump_fill_segments` goes

| Code | Actions |
|---|---|
| `minidump_traverse_metadata_list` | `Reuse` a node; or `NoneFree`, then unlocked `Create`, then `Link` |
| `minidump_fill_tlv_crashdump_buffer` | `ReplaceTlv` or `AddTlv`, then unlocked `LoadEnd` and `MarkEnd` |
| `minidump_store_mmu_info`, `minidump_store_module_info` | `Test` without the lock, `Write` with it |
| `minidump_remove_segments` | `Remove`, all under the lock |

With `Overlap = FALSE` a call starts only when none is under way.  Positions
count TLVs and lines from 1; an offset outside a file is `Wild`.  A line that is written or erased behind
the last reaches over the length and the offset that follow the file in
`minidump_metadata`, and that is modelled (`Spilled`, `Gone`); what a wild offset would overwrite
after that is not.  The abstract state of `DumpList` is the set of live TLVs.
`MinidumpDevice` extends `Minidump` with the device: `DoMinidump` (the system request
key, with the modules), `Open`, `Read`, `Release`.  Callers may go on adding and removing
segments meanwhile, unless `Frozen`.  Left out: `total_size` of the header, allocations that fail, the walk
over the module list, 32 bits.

## 3. Properties

- Recycler.  `OwnedOnce` (`OneOwner` and `NothingLost`): what a use-after-free or a leak
  of a buffer would violate.
  `NoneStranded`: nothing stays on a dead CPU.  `OccupancyBound`: how far the
  limits may be exceeded.  `EveryCallReturns`: no section and no wait for the lock lasts for
  ever.  `PoolSpec`: it implements `SkbPool`.
- Multi-PD.  `RefsBalanced`, `RootUpWhileReferenced`:
  the count on the root.  `RunningRuns`: a domain that counts as running runs,
  unless its own stop failed half-way.
  `SuspendedRestarts`, `RecoveryEnds`: what a crash must lead to, the first unless
  the root could not be shut down.
- Boot configuration.  `OneCopySurvives`: no power loss leaves the board without
  a configuration.  `ImageValid`: what is read back passes the next check.
  `RestoreAgrees`: what is published comes from flash or from the boot loader.
  `AgesLevel`: after a boot both ages are equal and, unless they wrap, grew.
- CPR.  `ApmSafe`: the memory arrays are on the right rail at every write of
  every walk.  `Enough`: VDD suits whoever is on, and what the loop learned lies within the range
  of the corner it is stored for.  `LoopServes`: the loop never runs on
  targets of an earlier aggregate.  `SuppliesHeld`: no regulator that is on
  loses its supplies over a failure.  `RailOrder`: which supply moves first.
  `IrqTaken`: an interrupt is answered.
- CPR tables.  `TablesServe`: what the controller relies on.  `FuseHonoured`:
  voltages and, unless one wraps, quotients of a corner are no lower than what its chip was fused with.
- Licence buffer.  `CountExact`: `buf_use_count`.  `InUseKept`: what a user was
  given does not change under it.  `ValidMeansWhole`: a buffer said to be valid
  was filled to its end.  `NeverRewritten` is refuted, see section 6.
- PCM.  `NeverTorn`: from taking its period to its last look at the receive ring the thread is
  on one that has ended, by no more periods than went by in its pass, and never the hardware's unless the
  ring comes round within that pass.
  `BuffersApart`: rings of both directions and interfaces do not overlap in the
  16 KiB of the LPM.  `StopHeeded`: a stop ends the test though the hardware may be silent.
- RPM log.  `KeptIsWhole`: a message kept has all its words and none of another.
  `NothingSkipped`: none twice, none back, none passed over that was there.
  `Arrives`: a reader does not sleep on messages.  `OnlyMessages` is refuted.
- TrustZone log.  `LogInOrder`: the file is the last bytes logged, in
  order, and all the ring holds, but for the length while the counter of wraps reads 0 again.  `OneInside` is refuted.
- Data capture.  `RightAccesses`: the engine reads every register asked for, no
  other, on its bus, in order and as often, in the space set aside for it; a list has no program only
  if it must not have one.  Users write before they read, loop once or more, and do not
  cross from one bus to the other at registers that follow each other; section 6 says what comes of the others.  `RegionsApart`, `ProgramKept`: lists in one SRAM.
  `AlwaysKept` and `CrcCleared` are refuted.
- Minidump.  `BufferDescribes`: between calls buffer and list say the same, and
  the boot loader finds the end.  `OnlyListed`: at
  any moment, as a crash comes at any, a live TLV is that of a listed segment.
  `LinesDescribe`: the lines of both files.  `HeaderAgrees`: what users of the
  device are told.  `ImplementsDumpList`: it is a set.  `Lined` is refuted.

## 4. Runs

| Run | Shows | Bounds |
|---|---|---|
| `recycler` | all safety properties of the recycler and `PoolSpec` | 2 CPUs, 3 buffers, 2 slots, limits 0 and 1, lists of 2, hotplug down to 1 CPU; 239 010 states up to symmetry |
| `recycler_live` | `EveryCallReturns`, CPUs stay online | 2 CPUs, 2 buffers, 2 slots, `max_spare_skbs` 1 |
| `mpd` | all properties of the multi-PD driver, calls and recoveries apart, or overlapping while the root does not crash | 2 users booted twice, 1 thread; 2 crashes of the root, or 2 of users, and 2 starts or stops that fail; 40 623 states |
| `bootconfig` | its safety properties and `AgesLevel` | ages modulo 3, 1 damage, 2 boots, 1 edit, 3 kinds of board |
| `cpr` | all properties of the controller | 3 boards (APSS with a mux and one regulator, APSS with boost and two, NPU with two), tables of 2 and 1 corners, 5 voltages, 1 failing call, 1 suspend or switch |
| `cpr_tables` | all properties of the tables | the two IPQ9574 device trees and six variants, two of which the checks refuse; about 6200 chips, some with quotients below their offset; words of 16 and 20 bits; 207 972 states |
| `license` | its properties | a processor, an MHI device, two rescans, 2 files of 0, 1 or 2 units in a buffer of 3, 1 change of a file |
| `pcm` | its properties | every device tree, tests 1, 6 and 7 on the secondary interface, one thread, late by up to 4 periods; 347 659 states |
| `rpm_log` | its properties, with `Arrives` | a ring of 8 words, lengths 3 and 8, 5 messages, indices modulo 512 that roll over after the first |
| `tz_log` | `LogInOrder` on boards with the firmware call, and on those that copy the area while TrustZone logs | 2 users in turn, a ring of 5 bytes, reads of 1 and 4; the firmware call's ring wraps three times, with a counter of two values, the copied one not |
| `dcc` | its properties | one list of up to 5 out of 9 reads, 2 writes, loops of 1, 2 and above the largest count, read-modify-writes, with pairs of at most 3 registers and offsets up to 6; two lists of 3 entries in all that run in 12 words, which are overstepped, and in 30, which hold both; 641 528 states |
| `minidump` | all its properties but the refuted one, with the device and the refinement of `DumpList` | 1 caller at a time, 6 segments at 3 addresses, 3 TLVs, 2 lines in MODULE_INFO, 4 in MMU_INFO, the list still while the device is open; 669 157 states |

Why these are enough.  Recycler: interference is between two CPUs for a list and
the ring, and the callback needs one to die and one to run; a ring of two slots
holds one list and so is full, empty and wrapped within three calls; three
buffers fill a hot list, a spare list and leave one in a caller's hands, so every
list meets its limit of 1 and of 0.  The proofs remove these bounds for the
properties they cover.  Multi-PD: two users are needed to see the root kept up by
one while the other stops, two crashes to see a recovery meet the next, and two faults to see one after
another job's.
Boot configuration: one damage and one restore per boot, and a second boot to
read what the first one left; ages 0, 1, 2 wrap.  CPR: the
threshold is reached by the upper corner only, from below and from the range of
that corner, so walks stop at it both ways; two regulators are needed for an aggregate that
is not a corner; the proofs remove the bounds for all but `IrqTaken`.  Tables:
the fuse codes are the ends of both signs, values out of order and values on
either side of the part threshold; the variants use every property that the
drivers parse; the words of the run are narrower than the code's, wider than any quotient that does not wrap, and quotients of
100 fall below their offsets; the proofs remove the bounds.  Licences: two files make "too long", "last one missing" and "first
one missing" different; a rescan against two users is the whole race.  PCM: the
three tests have the ring lengths that occur: long, the shortest allowed and the
one that must be refused; in four periods rings of two and of four come round.  RPM log: two messages fill the ring, so the third
overwrites the first while it is copied, and the indices pass zero meanwhile; the proofs
remove the bounds for all but `Arrives`.
TrustZone log: part of a ring, one wrap, two, at which a counter of two values is back at 0, and three; the proof removes the bounds.  Capture: with `MaxLen` 3 and `MaxOffset` 6 (127
and 255 in the driver) five entries merge, split, follow at a distance, go back and
change the bus, inside loops and between them; a loop of 4 is above the largest count, 3 (255).  SRAM: 12 words hold the longest
single list and not two.  Minidump: three TLVs (626 in the driver) and two lines (245 of
MODULE_INFO, 372 of MMU_INFO) fill in different orders, and addresses come back with another
size or without a name; the proofs remove all bounds, given that MMU_INFO is not full.

`CHECK_DEADLOCK FALSE` appears where the system may stop: the recycler in the
hotplug dead-lock (`recycler`; `recycler_live`, without hotplug, checks
deadlock), the multi-PD driver and the boot configuration when their bounds are
used up, the tables once they are computed, the PCM interface when its user
stops for good.

## 5. Fairness

- Recycler (`FairSpec`).  Weak fairness of the steps inside a section: interrupts
  are off, so a CPU in it goes on.  Strong fairness of taking the lock: the kernel's
  queued spinlock serves waiters in order.  Nothing is assumed of callers, flush
  writers or hotplug, except that the hotplug thread in its locked section
  continues if no interrupt keeps its CPU: `HotplugFreeSpare` needs `Runs(c)`.
- Multi-PD (`FairSpec`).  Strong fairness of each job's steps as one action: the
  scheduler runs every job, and a kernel mutex is handed to its longest waiter.
  Clients need not call; crashes and faults need not happen.
- CPR (`Fairness`).  Weak fairness of the steps under the controller lock: a handler
  runs to its end.  Strong fairness of the interrupt thread: the kernel's mutex
  serves its waiters in order, so requests cannot keep it out for ever.
- PCM (in `Spec`).  Weak fairness of the thread, of the interrupt handler and of
  the event that a stop sends.  None of the hardware, which may never end a
  period, and none of the user.
- RPM log (`FairSpec`).  Weak fairness of the reader's thread, of the end of its sleeps
  (a timeout of the code) and of the RPM while it is in a message; it need
  never begin one, users need not read.
- The boot configuration has no liveness property: power may always fail.
  Neither have the tables (they are computed once), the licence buffer, and the
  TrustZone log, the capture lists and the minidump, whose calls end by themselves.

## 6. What was found

These are disagreements between the code and what it says of itself, or what it must
be meant to do.  They are not among the runs of section 4, all of which pass.  For each, TLC
refutes the property with the named cfg, by `tlc -config MCDccCrc.cfg MCDcc.tla` and so on.

| | Instance | Refuted |
|---|---|---|
| 1 | `MCSkbRecyclerHotplug.cfg` | `EveryCallReturns`: `skb_cpu_callback` takes the ring lock without disabling interrupts; an allocation in a softirq of its CPU then waits for ever |
| 2 | `MCMpdRemoteprocSelfLock.cfg` | `RecoveryEnds`: shutting a user domain down while the root's worker stops it can make the worker wait for its own mutex |
| 3 | `LicenseManagerRace.cfg` | `NeverRewritten`: a rescan tests the use count of the licence buffer before it takes the lock, and a user raises it after the lock is released, so the buffer can be filled again under a user that has it |
| 4 | `MCRpmLogTorn.cfg` | `OnlyMessages`: a reader of the RPM log moves on by a length that may have been overwritten, and then takes payload for a message |
| 5 | `MCRpmLogStuck.cfg` | `Arrives`: on the 8974 version such a length below four underflows, and the reader never gets past it |
| 6 | `MCTzLogRace.cfg` | `OneInside`: closing the TrustZone log unlocks a mutex that another user may have |
| 7 | `MCTzLogLastByte.cfg` | `LogInOrder`: the copied area lacks its last byte, which shows once the ring has wrapped |
| 8 | `MCDccWrite.cfg` | `RightAccesses`: the capture program of a write after reads mixes the pair of the read into it; with `BusBoards` or `ZeroBoards` for `WriterBoards`, the two cases below |
| 9 | `MCDccOverstep.cfg` | `AlwaysKept`: a list that does not fit clears the programs of those that are enabled |
| 10 | `MCDccCrc.cfg` | `CrcCleared`: the triggers of a new CRC list go to the list chosen last |
| 11 | `MCMinidumpLined.cfg` | `Lined`: a node used again for a segment without a name makes the next one share its line |
| 12 | `MCMinidumpMmu.cfg` | `LinesDescribe`: with MMU_INFO full a segment that replaces another has no line |
| 13 | `MCMinidumpRace.cfg` | `BufferDescribes`: two additions at once leave a node with a TLV that is not its own |
| 14 | `MCMinidumpStale.cfg` | `HeaderAgrees`: the header of an open device counts segments that its arrays do not have |

What follows was met while modelling and has no instance of its own; the constant or the
action that would show it is named, so that a reader can look.

- Recycler: with `DebugObjects = TRUE` a buffer of a list that is refused is
  never freed (`ConsumeListDebug`).  With `max_spare_skbs` 0 the ring gets empty
  slots, and a refill may come back with none.
- Multi-PD: recovering a crashed user domain takes one more reference on the
  root (`MaxUserCrash` above 0).  A user being booted while the root crashes ends
  RUNNING and dead, and a second crash of the root before the restart thread of the
  first has ended leaves users suspended (`Overlap = TRUE`).  A user that fails
  to start after it booted the root keeps its reference (`MaxFaults` above 0).
  A user that is asked to stop, stops, and is then not powered down is an error to its caller and
  stays RUNNING and counted, but executes no more; nor does one whose request timed out but was heeded (`StopFails`).
  `RunningRuns` excepts it until it is spawned again (`used.halted`).  When the firmware refuses to shut the
  root down after its last user, `rproc_shutdown` takes the count back and `pd_stop` does not look: the root
  keeps a reference that is nobody's (`RootPutFails`).  When it refuses in a recovery, the root stays
  CRASHED and its users SUSPENDED for good (`RootDownFails`, `GivenUp`).
  This is why `mpd` keeps crashes of the root apart from calls and from other crashes, and why
  `RefsBalanced` is stated for the time before a user crashes or a start or stop fails.  `TypeCorrect`, `MutexCorrect` and
  `RootUpCorrect` are proved without these limits; `RefsCorrect` and `RunsCorrect` need the first.
- Boot configuration: on a board with one MMC device a copy that was restored
  is reported as not restored and withheld until the next boot (`Restore`, `type`).  The comment at
  `bootconfig.c:780` says that bootconfig2 is copied to bootconfig1; the driver
  only levels the ages, and "we" may mean sysupgrade.
- CPR: when switching the mux fails and taking VDD back fails too, the mux stays on
  the low side and later updates do not look at it again; `ApmSafe` is stated
  for the time before a call fails.
- CPR tables: the quotient less its offset is unsigned (`cpr4-apss-regulator.c:1022`).  Fused below its offset it wraps, and
  being large it replaces the higher quotient; an adjustment upwards of both brings them round zero to a small
  value, and the corner gets a quotient below the fused one: 100 less 5 * 40, both adjusted upwards.  `Unwrapped` in
  `QuotHonoured` excludes such chips, and without it `cpr_tables` refutes `FuseHonoured`.  That the quotients
  do not fall is checked and proved for them too.  No fuse of a working chip should be so.
- TrustZone log: the counter of wraps is a `uint16_t`.  After 65536 rounds it reads 0, and `tz_hvc_log_open`
  (`:308`) takes the ring for one that has not wrapped: until the next wrap a file has only the bytes before the
  position.  `LogInOrder` exempts its length then (`LooksUnwrapped`), not the order of its bytes.
- TrustZone log: copied while TrustZone logs, a wrapped ring holds newer bytes after the
  position than before it (the copied area of `tz_log` stops before the wrap); another open during a read changes
  what it reads.
- Capture: `dcc_config_add` does not look at the bus before it merges (`:1103`): a register that follows the last entry's, but on
  the other bus, is read on the bus of that entry (`BusBoards`: 10 on one, 11 on the other; `mixesBus`).
- Capture: a loop of 0 is accepted, and its count less one wraps (`:379`).  The engine repeats as often as the field of the
  loop word can say, while nothing is set aside for what it captures, as `total_len` wraps too (`ZeroBoards`).
- Capture: a reset of the configuration while lists are enabled lets the next list
  overwrite them (`resetsAtRun`).  After a list that did not fit, `ram_cfg` stays past the
  end (`Overstep`), so a shorter one is refused too.
  The case of a list that ends in a read-modify-write is never taken (`Program`).
- Minidump: two users of the device at once share one queue, so `MinidumpDevice` has one at a time.
  A node that gets its first line when MODULE_INFO is full has it behind the end (`Spilled`).
- PCM: a user who does not wait for a test to come up or end can start two
  threads, the first of which to end stops the DMA under the other, which no stop
  reaches; and a test that is refused is stored before it is looked at, so a
  thread that is coming up runs it, with a ring of one period.  `Settled` excludes
  both.  `ipq_pcm_done` lowers the flag again, so a period that ends during the work is passed over.
  A thread that is late by a whole ring, which for the voice tests is two periods, writes and compares the period that the
  hardware is in; nothing notices.  `NeverTorn` says of such a thread only how late it is.

## 7. Proofs

All are checked by TLAPS for every value of the constants, under the named
assumptions of the modules (finite sets of CPUs and buffers, at least one slot,
limits that are numbers; a modulus above zero; a non-empty list of distinct
users; corners whose open-loop voltage lies between floor and ceiling, and a finite
set of regulators; a finite set of users of the licence buffer, and rescans that are none of them; one of the two
PCM interfaces, and tests that exist; a ring of two bytes or more; a buffer and files with room, and special words that are no segments; device trees that the parsing takes and whose
ceilings and adjustments are in order; words and counters of at least one value; a ring of the RPM that the messages fit in, indices that go round it a whole number of times,
and messages that take less than a round of the indices).
Where a theorem assumes more (`~DebugObjects`, `~Overlap`, `OneAtATime`, `Frozen`), the run that checks the same property does so too, and
the paragraph says why.

**Recycler.**  Safety follows from one inductive invariant, `IInv`, a conjunction:

- `TypeOK`;
- `ArgOwned`: a buffer on its way through `skb_recycler_consume` is in use, and
  no other call has it.  Without it publishing could put a buffer in a second list;
- `HotplugTarget`: while the callback runs it names a dead CPU, and its own CPU while
  it holds the lock;
- `LockProtects`: who holds the lock, and that the index it read is current;
- `OneOwner`;
- `RingReachable`, which rests on `LockProtects`: a slot moves into or out of the
  window only under the lock, by an index that is still the ring's.

One lemma per conjunct has a step per action.  `TypeCorrect`, `OwnerCorrect`,
`LockCorrect` and `RingCorrect` follow.  `Implements` (refinement of `SkbPool`)
and `NothingLostCorrect` add `DropDebug`: outside the debug build no caller
ignores a failed consume.  That is their hypothesis `~DebugObjects`; the lost buffers
of section 6 are why it is needed.  `OwnedOnceCorrect` joins `OwnerCorrect` and
`NothingLostCorrect`.

`StrandedCorrect` needs two more: `FlushInv`, that a flush work keeps its CPU
online and its local list is empty but between taking a list and freeing it; and `DeadInv`, that an
offline CPU is in no section and the callback has freed its hot list before it
asks for the lock.  `OccupancyCorrect` needs `Limited`: the limits ever written
have a bound, and consume lists are of some length above zero (a limit of the
kernel is an `int`, a constant of the model any set of numbers).  Its extra
invariant is `EmptyHot`: a refill splices only into an empty list, which is why
a slot's worth of buffers never comes on top of another.  The largest limit
exists by well-founded induction (`LargestExists`).

**Boot configuration.**  `SurvivesCorrect` needs `Spared`: the copy being erased or
written is never the last valid one, and when the driver decides, memory still
equals flash.  `ImageCorrect` needs only that a checksum covers everything but itself
(`SummedValid`).  `TypeCorrect` gives both their types.

`RestoreCorrect` needs `Restoring`: while a copy is being written,
memory holds the boot loader's record in its place and flash in the other, and
the loader's record stays valid as long as the power is on.  `LevelCorrect` is an action
property and follows from the types alone, for any modulus.

**Multi-PD.**  `Inv` is a conjunction of five parts:

- `TypeOK`;
- `LabelInv`: the functions each kind of job can be in and the user it works on.
  A crash worker of the root never boots a user, a restart thread never stops one;
- `MutexInv`: a job holds a mutex exactly while it is between the places that take and
  release it.  The same place of the code runs with the mutex (clients, workers of users) and
  without (root's worker, restart threads), so this is not read off the actions;
- `PowerInv`: who may lower a count has raised it, and a root that is RUNNING or CRASHED or
  being started is counted.  Without it the counts would not be numbers of users;
- `Uncrashed`: until the root crashes no loop over the users runs, nothing is
  RESTARTING, and the root's count, state and execution agree whenever its mutex is free.

A lemma per action shows that it keeps all five, resting on general ones about a job that
moves, takes or gives back a mutex.  `TypeCorrect`, `MutexCorrect` and
`RootUpCorrect` follow.  They hold with every overlap, crash and fault, also where
section 6 says that other properties fail.

`RefsCorrect` (`RefsBalanced`) and `RunsCorrect` (`RunningRuns`) assume `~Overlap`, as the run
`mpd` does: the root crashes, any number of times, when no call and no other recovery is under way and
no user has crashed and no start or stop failed; or it does not, and users crash, starts and stops fail at any moment.
The exception to the first is a recovery that fails to shut the root down, which may come at any time.
After it the root is CRASHED for ever and nothing runs (`Abandoned`, an invariant of its own), so what is proved
inductive is `ApartInv \/ Abandoned` (`ApartHolds`).  `ApartInv` adds to `Inv`:

- `TurnInv`: a recovery of the root is alone, and has at most one restart thread;
- `RestartInv`: how far its worker is can be read off the root's state, and `Agree`
  holds before and after.  `Uncrashed` says nothing once the root has crashed; this is
  what takes its place;
- `ThreadInv`, `UserInv`: what a job knows of the count and state of the user it works on;
- `UpInv`: a user that is RUNNING executes, is about to be reported, or is one whose own stop
  failed (`halted`), except those that the root's worker has not yet come to;
- `CountInv`: the root's count is no less than the users that are counted, and equal
  to them before a user crashes or a start or stop fails.  A start of the root that fails is counted
  until it is given back, so these are more than the users of `RefsBalanced`.

**CPR.**  `Inv` has `TypeOK`, `LastInRange`, and what relates a handler's stage to the
rails.  `WalkInv` is the heart: what is left of a walk (`Left`) has one of four
shapes: no write of VDD or the mux; one of VDD; the mux and then VDD; VDD to the
threshold, then the mux, then VDD.  Each says where VDD and the mux are now, so
each write leads from one shape to the next; any failing call ends it.  `RestInv` says
what VDD is between walks, `MuxInv` that the mux is where VDD wants it.  The maxima that
the aggregate takes exist by well-founded induction on the distance to `MaxVolt`
(`HasMax`).  `TypeCorrect`, `ApmCorrect`, `EnoughCorrect` and `LastCorrect`
follow for every board, table and number of regulators.

`LoopCorrect` adds `LoopInv`: the loop runs only while CPR is enabled, and that is never
while it is suspended; the target computed by an update serves who is on from
the start of its walk, and the one programmed does so between requests, during an
interrupt and once an update is through.  `SuppliesCorrect` adds
`RefInv`: the references cover the regulators that are on and, during a disable, the
one that is about to be dropped too; a second failing call is counted.
The number of regulators that are on changes by one (`OnStep`).

`RailCorrect`, an action property, adds `RailInv`: while nothing has failed, what is left
of a walk either only lowers VDD (`Falls`) or only raises it (`Rises`), ends where the update
wants to be, and for each write names the one that has to come before it, unless it
has been made.  The walk that `Scale` plans is such a one in each of its cases; a write takes
the first entry off, which is then the rails as they are.

**CPR tables.**  `TablesCorrect` (`TablesServe`) and `FusesCorrect` (`FuseHonoured`) hold for
any number of corners, fuse corners and parts and any fuses.  They are in `CprControllerProofs`, as
their subject is the table that the theorems above start from: `floor <= ol <= ceiling` of every corner, which
`CprController` assumes, is the first conjunct of `TablesServe`.  The invariant of the first, `TInv`, says what the passes
done so far have reached:

- `Typed`, and `Limits`: from the parsing on every corner has a floor below its ceiling;
- `FusesRise`: the voltages of the fuse corners are in order, so a line between two of them rises (`Rising`);
- `Limited`: once limited, the open-loop voltages lie within their corner.  A floor above the voltage raised it,
  and floors need not be in order, so voltages rise here only but for the floor of a lower corner;
- `Final`: with the running maximum of the floors they rise again, and raising a floor takes
  voltage and ceiling with it.

That of the second is `TInv` and `HInv`: the fuse corners have what their fuses ask for, and with the adjustment for the cold no less
(`FusesAsked`); as long as the voltages are not there the ceilings suffice, afterwards the voltages do
(`Honoured`).  Rounding up to a step keeps what is above the line above it.  `QuotsServe` says the
same of the quotients, and follows from the pass that computes them: a maximum over a run of
corners of one oscillator is no lower than any of them.  They are words that wrap.  That they do not fall holds for any fuses;
that they are no lower than fused is for chips of which no quotient wraps (`Unwrapped`), where the words are the
numbers they stand for (`InWord`).

What the theorems assume of a board is what `MCCprTables` evaluates for each of its boards.  `BoardsOK` is
what the parsing refuses a device tree for: arrays of the length of the corners or of the fuse corners.
`BoardsInOrder` is what it does not look at: ceilings do not fall from a corner to the next, least
differences are not negative, the boost ceiling is no lower than the others, and an adjustment for the
cold lowers nothing.  The boards of this tree are so, and the code needs it.  The last is the least
obvious: the cold round cuts the ceilings to its voltages, and the normal
round starts from these, so a cold adjustment below zero would cap the normal voltages
under what the fuses ask.  No board here has one.

**Licence buffer.**  `LockInv` says who is in the lock, `ContentInv` that a valid
buffer holds a file, `QuietInv` that as long as nobody was given the buffer
during a scan, no scan is pending while somebody has it.  With them
`CountExact` and `InUseKept` are inductive: `CountCorrect`, `InUseCorrect`.  The
cardinality of the users that hold it changes by one (`HoldersStep`), from the
library's theorems about finite sets.

`WholeCorrect` adds `WholeInv`: the length is the sum of the sizes in the buffer, and a
buffer that is valid outside a scan ends with the last file of the list.  A file taken adds
its size to a sum over a sequence, a fold (`TotalStep`): that a function with its partial
sums exists for every sequence is shown by induction over the set of lengths for which it does
(`SumsExist`, `TotalSums`).

**LPASS PCM.**  `PcmInv` is a conjunction:

- `TypeInv`, and `ThreadInv`: there is one thread, which alone turns the hardware on, and only
  once it has set up a test that was not refused;
- `RingInv`: the ring has two periods or more.  Of all tests, device trees and both
  interfaces only the large test with both interfaces on gets one, and that test is refused
  (`Prepared`, `Period`, `RingFacts`);
- `LagInv`: the handler's index is one period behind the hardware, and so is what it
  publishes; what a pass will read falls behind by the periods that end before it is taken, and what a thread holds,
  until `process_read` has done with it, by those that end meanwhile.

`TornCorrect` follows from the last, with a ring of two periods or more: one behind is not the same.  How far a thread falls
behind is not assumed but counted, so the theorem says of each pass what its lateness makes of it, however late it is.
That the handler runs before the next period ends is an assumption about time, in the
action `PeriodEnds` (`Deadline`).  `ApartCorrect` needs only the sizes: a ring fits the space of its half (`RingAt`).

**RPM log.**  `KeptCorrect` (`KeptIsWhole`) and `OrderKeptCorrect` (`NothingSkipped`), in `TzLogProofs`, hold for a ring of
any size, indices of any width, any lengths of messages and any payload, read as a length, that is
for the instances of `MCRpmLogStuck.cfg` and `MCRpmLogTorn.cfg` too: what these refute are other properties.
The indices go round, so they are compared by how far they are past the first message (`Far`).  `CopyInv` is a conjunction:

- `RpmInv`: the messages lie one behind the other (`Chain`), the head is where one begins and at most a ring behind
  the tail (`HeadOK`), and the ring holds all words of each message that the head has not
  passed (`RingHolds`).  A word that is written lies in no such message;
- `ReaderInv`: the heart.  What the reader has copied is words of the message at its index for as long as the
  head has not passed that index; and what it has copied when it looks again, as long as the head
  that it then read has not.  The first may stop being true between any two steps, the second may not,
  which is why the driver has to look after the copy, and not before;
- `KeptInv`, `OrderInv`: what was put in the buffer is whole, and ends before the index;
- `SkipInv`: until a message is dropped under the copy the index is where one begins, and
  those before it were kept or overwritten.  After that it may be in the middle of one (4 and 5 of section 6), and
  the property says nothing of what is passed over.

`WithinARound` is the assumption that matters: as many messages as there are, each as long as the ring,
would take less than a round of the indices.
It is the bound of the run, `MaxMsgs`, against the width of an index, 2^32 bytes.  A reader that lags by a full round
takes the index of a new message for that of an old one; no driver with indices of this kind can tell them apart.  What is proved is
therefore about the first 2^32 / `log_len` messages from where the indices stood, through their rolling over.

**TrustZone log.**  `OrderCorrect` (`LogInOrder`) assumes that users open the files one at a time
(`~Overlap`), and, on boards where the driver copies the area, that the ring has not
wrapped (`Unwrapped`); a constant fixes the first in the run, the bounds of the run the second, and
`MCTzLogLastByte.cfg` shows what is lost after the wrap.  `Inv` says that the ring
holds its last bytes, each at its position (`Holds`), that a copy by the driver has what
it has come to (`Copied`: TrustZone goes on writing, but never again below the position that was read first), and that an
open file and what was read of it are in order (`Opened`).  A counter of wraps that reads 0 makes the driver give a shorter part of the
ring, its newest bytes, which are in order all the same: the theorem is for a counter of any width, over any number of rounds,
and promises the whole ring except in that round (`LooksUnwrapped`).  `OrderedLog` is the lemma about the code's two
`memcpy`s.  The rest is arithmetic: a count is so many rounds and a
position (`Rounds`, by well-founded induction), and d bytes further on lies d positions further round the ring (`Further`),
so a new byte overwrites the oldest only.

**Minidump.**  The theorems assume that calls do not overlap (`OneAtATime`); `MCMinidumpRace.cfg` shows
that they need to.  `IInv` is a conjunction:

- `Types`: looser than `TypeOK`, since the lines take no part;
- `Alone`: one caller is in a call;
- `Numbered`: node i has TLV i, and the buffer ends after the last node, but for a
  caller that has linked its node and not yet put the TLV;
- `Filled`: every other TLV is the segment of its node, or marked as removed if the node is;
- `Held`: what the caller knows of its node is still so, and a TLV to be replaced is empty;
- `Ended`: the end is marked, and nothing before it.

`Describes` (that `BufferDescribes` holds) and `OnlyTheListed` are its consequences.  `Implements`, the refinement of `DumpList`,
adds `Unique` (no two live nodes with one address and size) and `Fresh` (a caller that is about to
make a node has a segment that is not listed): only the steps that put or empty a TLV change the set,
each by one segment.  
`HeaderCorrect` (`HeaderAgrees`) adds `CountInv`, that `num_seg` is the number of segments in
the list.  It rests on `Unique` and `Fresh` too: a segment that was there already would
be counted twice.  It assumes `Frozen`, as the run does; `MCMinidumpStale.cfg` shows that it needs to.
`DeviceKeeps` says that the device takes no part in the rest, so that
the theorems about `Spec` hold of `DeviceSpec`, which is what `minidump` runs.

`LinesCorrect` (`LinesDescribe`) has two parts.  That no line outlives its segment (`Owned`, proved alone as
`OwnedCorrect`) holds with full files too; `LineInv` follows the caller from the node whose
offset it took to the line it writes there.  That every listed segment has a line
in MMU_INFO needs `MmuInv`: nodes have distinct lines, all written but the one a caller has still
to write.  It holds for as long as the file is not full, which is the hypothesis: the driver
has 626 TLVs and 372 lines, so the file can fill up, and `MCMinidumpMmu.cfg` shows
what is lost then.

All theorems about the minidump hold for any number of callers and segments and all sizes.

**Only model-checked.**  Of the safety properties only those of the capture engine (`RightAccesses`,
`RegionsApart`, `ProgramKept`): `DccProgram` ORs words with `Bitwise`, which the prover does not take.
`TypeOK` of `Minidump`, which the proofs replace by `Types` and `LineTypes`.
Liveness (`EveryCallReturns`, `Arrives`, `SuspendedRestarts`, `RecoveryEnds`,
`IrqTaken`, `StopHeeded`) and whatever needs ENABLED are out of reach of the prover.

## 8. Not modelled

Data tables, packaging, firmware and generated configuration have no behaviour.
The patches change functions whose text is not here, so they cannot be modelled
from source, except where a hunk completes a modelled function: 0367, 0417
(recycler), 0442, 0463, 0197 (remoteproc).  Drivers that make one firmware
call per file (secure services) or program registers under one mutex (performance monitors)
have no interleaving worth a model.  The upgrade script writes kernel and root
file system in place, one after the other; there is nothing to check in it.

Within the modelled components:

- recycler: what alloc resets and keeps, preallocation, procfs reads;
- multi-PD: user domains of user domains, memory regions and images, probe,
  remove, the non-secure build;
- boot configuration: `trybit`, the partitions of a record (one side stands for all), module exit;
- CPR: hardware closed loop, VDD limiting, aging, the mem-acc threshold (no
  board has them), the dynamic floor of an off-line core, clock throttling, the sdelta
  tables beyond their spread, the tcsr switch of IPQ6018, the cold-temperature
  switch of the NPU, whose only caller is commented out; of the tables the
  selection of rows by speed bin and fuse combination, the tables of a second
  SoC version, and running out of memory;
- licence manager: the list of clients that the QMI callbacks keep, the two
  ioctls that keep no state, probe and remove;
- RPM log: several readers of one open file, the characters of the text, copies to
  users that fail;
- TrustZone log: encrypted logs, the IPQ806x layout, `smmu_state`, the error interrupt;
- capture: reading the SRAM back, status and interrupts, hibernation, lists from the
  device tree;
- minidump: failing allocations, the walk over the modules, 32 bits, the rest of
  `ctx-save.c` (registers of the CPUs, notifiers);
- PCM: the programming of the registers, slots and clocks, parameters that other
  users of the driver may give, probe and remove.

Not modelled at all although they have behaviour of their own: the MHI test
driver, a test module with one queue and one worker, and hostapd on ubus, handlers of
one event loop that call into two programs that are not here.  Both were read, and left
for later.

Most C lines of this tree are register tables, headers of register addresses,
clock trees and firmware calls (`ipq-lpass-cc.h`, `gcc-*.c`, `nsscc-*.c`, `qseecom.c`,
`pinctrl-*.c`): data, or one call with its arguments.  A model of them would repeat
the tables.  This is why the share of modelled lines stays small although
the components with state and concurrency are in it.

## 9. Plan

Done: `SkbPool`, `SkbRecycler`, `Bootconfig`, `MpdRemoteproc`, `CprController`,
`CprTables`, `LicenseManager`, `LpassPcm`, `RpmLog`, `TzLog`, `Dcc`, `Minidump`,
`MinidumpDevice`, and proofs about all but `Dcc`.  What would come next:

1. Lists of the capture engine in one SRAM apart from the words they consist of, so that `RegionsApart` and
   `ProgramKept` can be proved without `Bitwise`.
2. An abstract root with counted users, and the multi-PD driver without crashes
   shown to implement it.
3. User domains nested in user domains; `mpd` with a crash of the root and of a user at once.
4. The client list of the licence manager, and the events of the MHI test driver.
5. The bans of hostapd on ubus, if libubus and the event loop can be stated well
   enough as environment.
6. What alloc resets and keeps (`recycled_for_ds`, `is_from_recycler`).
