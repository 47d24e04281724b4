# A verification project for `mu`, the router's control daemon

The repository is the firmware of a home router: an OpenWrt tree (kernel,
toolchain, third-party packages) with the vendor's own programs under
`src/package/`. The program that carries the logic is **mu**
(`src/package/mu/src`, 19,000 lines of C): one single-threaded process that
owns the configuration, the child processes, the timers and the state of the
interfaces. Everything else asks it over a socket, or is asked by it.

The TLA+ modules here model mu's core: the child processes it supervises, the
timer list every module of it hangs on, the state machines of the modules on
that list (LAN ports, connection detection, radio, guests, VPN tunnels), and the
WAN interface with the programs that get its address. TLC checks them on small
instances; the TLA+ proof system proves the most important invariants for every
value of the constants.

Contents: 1 the system, 2 the modules, 3 the runs, 4 fairness, 5 the proofs,
6 what was found, 7 what is not modelled, 8 the plan, 9 how to run it.


## 1. The system

### 1.1 mu's main loop (`main.c`)

    mu_init: mu_call(<module>, INIT) for each module     -- arms the first timers
    for (;;) {
        tv = process_schedule()                 -- walk the timers, time to the next
        n = select(IPC socket, netlink sockets, tv)
        IPC readable:      ipc_server_accept -> mu_call(module, cmd, data)
        netlink readable:  nlk_call -> mu_call / nlk_..._action
        pid = waitpid(-1, WNOHANG)              -- at most one child per turn
        pid > 0:           igd_sys_waitpid: daemons first, then tasks
    }

There are no threads and no locks. What makes the program hard is that *every
handler runs to its end in one piece, and everything else happens between two
handlers*: children exit and are killed, pids are reused, seconds pass, other
clients' requests arrive, the answers of programs that have been killed still
come in. Handlers call each other directly and arm or cancel each other's
timers, also from inside the walk over the timer list.

### 1.2 Components

For each: the state it keeps, its operations, what it interacts with, what is
hard, and what makes it correct.

| Component | State | Operations | Interacts with | Hard, and what makes it correct |
|---|---|---|---|---|
| **Timer list** `igd_lib.c`, `main.c` | list of malloc'ed entries sorted by expiry | `schedule`, `dschedule`, `process_schedule` | every module of mu; select's timeout | callbacks change the list while it is walked; malloc fails or returns the memory just freed; callbacks take time. *What is due is called back; the walk never uses a freed entry; a static variable that remembers an entry means that entry.* |
| **Daemon supervisor** `igd_system.c` 738–1022 | `sys_daemon_list` of (name, pid); `sys_oomkill_list`, `oomkill_time` | ADD (two handlers), DEL, OOM report, one-second check, reaped pid | clients, plug-ins, kernel OOM report over netlink, fork/kill/waitpid | pid reuse; fork fails; death, DEL, OOM and ADD in any order. *One instance of a daemon; no process unsupervised; no exit missed.* |
| **Task runner** `igd_system.c` 1024–1214 | groups of commands with counters | ADD, DUMP, one-second check, reaped pid | web server (copy, move, remove), the same waitpid | a reaped pid belongs to one of many; poll and expiry free the group; commands added while others end. *Each command runs once, in order, one at a time, and is not dropped.* |
| **LAN restart** `igd_interface.c` 368–446 | `lan_event`; the ports | restart, callback | clients, dnsmasq's callback, a change of the LAN's address | asked for while down, malloc fails. *Ports that are down come up.* |
| **Connection detection** `igd_interface.c` 234–283, 603–687 | `online`, `detect`, `net_event`, the WAN interface's `IF_STATUS_IP_*` | kernel's report, netdetect's answer, ten-second timeout, address up/down | netdetect (a program of its own), nlk | answer, timeout and loss of the address race. *Online only with an address; an answer is not overturned by an old timeout.* |
| **dnsmasq** `igd_dnsmasq.c` | `dnsmasq_event`; configuration | restart, callback | LAN restart, daemon supervisor | as above |
| **Timed reboot** `igd_system.c` 638–737 | `retime`, its timer | set, callback | – | set and unset while the callback re-arms. *What is set is waited for.* |
| **Radio** `igd_wifi.c` | settings, five timers, `wifi_lock`, scan flags | GET_CONF, SET_AP/VAP/TIME/ACL, GET_SURVEY | web server, ali and cloud clients | a setting takes effect seconds later; scans exclude settings; callbacks schedule each other. *A scan and a setting exclude each other; no switch is forgotten; a scan ends.* |
| **Guest hosts** `igd_wifi.c` 1045–1540 | table of guests, one timer and a few iptables rules each | online/offline (kernel), let in, shut out, one more minute, expiry, roaming check | radio, kernel host table | mu asks the kernel later than the kernel told it; entries are reused; a timer points at an entry. *No net without leave for longer than a minute; no old timer cuts off who has leave; a full table has someone to replace.* |
| **Firmware** `igd_system.c` 100–430 | `fwinfo`: status, file, event | check, download, update | child processes that report back over IPC | the child dies; a check clears the file that a scheduled update will use. *Next in the plan.* |
| **WAN interface** `igd_interface.c` 603–1396 | mode, hander, status bits, address | set mode, messages of udhcpc, pppd and wisp, cable check | udhcpc, pppd, wisp, w3g | late messages of clients that were killed. *One client at a time; somebody always works on an address; no late message harms the client of now.* |
| **Nightly pppd restart, automatic PPPoE** `igd_system.c` 1621–1839 | a pending timer; `has_switch` | timers | WAN interface | they change the WAN behind the owner's back. *As above.* |
| **Hosts** `igd_host.c`, `host_mac.c`, `host_os_type.c` | table of hosts, per-host rules, statistics | kernel's messages, per-host settings, timers | kernel modules, nearly all clients | the copy in the kernel and the copy here; shared rules' reference counts. *Planned in parts.* |
| **Tunnels** `igd_tunnel.c` | two slots: settings, hander, status; a dial timer per slot; shared iptables chain | add, change, remove, restart of all, pppd's reports, dial | pppd, xl2tpd, WAN interface | the dial reads the settings two seconds later; a setting fails half-way; killall ends all of a kind; reports are late. *No process, timer or rule outlives the settings it belongs to.* |
| **Plug-ins** `igd_plug.c` | installed plug-ins, download timers | install, start, stop, remove | daemon supervisor, cloud | several steps, each can fail. *Planned.* |
| **NAT, routes, VPN, QoS, UPnP** | configuration | set | iptables, ip, tc, miniupnpd | formatting of commands; little control |
| **Cloud commands, advertisements, URL logs and safety, ali, lanxun** (in mu) | rule files | set, download, reload | cloud client, kernel modules | files and tables, little control |
| **IPC, netlink, uci, MTD** `libshare` | sockets, files | request/answer | all programs | a server that reads without a timeout. *IPC planned.* |
| **ioos** (web API), **cloud**, **ali**, **diskm** | sessions, connections | requests to mu | mu, servers, USB | cloud's reconnecting and diskm's hot plug planned; ioos only as a client |
| **netdetect, wisp** | – | – | mu | netdetect: environment of the detection |
| **jsprocess, js_fill, url_\*, wguest, resetd, factory_check, lanxun_new, ddns, proxy, saas, wwp, l7, telcom** | – | – | – | packet rewriting, data, small vendor tools; not planned |
| **OpenWrt base** | – | – | – | third party; not planned |

`PROJECT.json` lists the same under "components", and under "hazards" every
place found where this code is hard to test, with the property that watches it
or the reason why none does yet.


## 2. The modules

    MuProcs ──┬── SysDaemon ──┐
              └── SysTask ────┴── MuSupervisor ── MCMuSupervisor
                                    │  implements JobQueue
                                    └── MuSupervisorProofs ── JobQueueProofs

    Scheduler ──┬── SchedulerProofs
                ├── MuTimers ───┬── MCMuTimers
                │               └── MuTimersProofs
                ├── WifiRadio ──┬── MCWifiRadio
                │               └── WifiRadioProofs
                ├── GuestHosts ─┬── MCGuestHosts
                │               └── GuestHostsProofs
                └── Tunnels ────┬── MCTunnels
                                └── TunnelsProofs

    WanInterface ─┬── MCWanInterface
                  └── WanInterfaceProofs

The four proof modules on the right also extend SchedulerProofs. Scheduler is
instantiated by EXTENDS: each module on it names its own timers
(`Clients`), its static variables (`Held`) and its delays. WanInterface has no
clock: its timers fire in any order and at any time.

MuSupervisor and the timer list meet in one assumption: MuSupervisor takes it that the
one-second timer is served again and again (`WF(Timer)`); the property
`TaskRuns` of MuTimers shows it of the timer list.

Some definitions are followed or preceded by a *faulty variant*: the same
operation with a plausible bug. No specification uses it. It is there to show
that a property would notice: with the variant in place of the original, TLC
finds the property violated.

### 2.1 MuProcs: children

`child` maps each pid to the child of mu that owns it: running, dying (SIGKILL
sent), exited or signaled (a zombie), or `Free`. A pid is free for fork only
after mu has reaped it, which is the point of the model: the supervisors
identify processes by pid. Fork may fail at any time (`ForkMayFail`), and does
when no pid is free. `Background` stands for the children of
`exec_cmd("... &")`, which nobody tracks and which the one waitpid of the loop
meets all the same. Children that `exec_cmd` waits for itself are gone before
the handler ends and do not appear.

### 2.2 SysDaemon: the daemon supervisor

| Code | Model |
|---|---|
| `sys_daemon_list` | set of [name, pid]; the order of the list is never used, since names and pids are unique (that they are is a property) |
| `sys_oomkill_list` | sequence of names, oldest first |
| `oomkill_time` | `oomkill_age`, seconds since, up to the delay |
| `igd_sys_daemon_add`, `igd_plug_daemon_add` | `DaemonAdd`: refused for a known name; forgotten when fork fails |
| `igd_sys_daemon_del` | `DaemonDel`: searches only the supervised ones |
| `igd_sys_daemon_oom` | `DaemonOom(p)` for *any* pid: the report is late |
| `igd_sys_oom_check` | `OomWait`, `OomIdle`, `OomForget`, `OomRestart` |
| `igd_sys_daemon_check` | `DaemonCheck(p, ch)`: forked again under its entry, or the entry goes |

The plug-in's path and OOM score are data of the child and left out.

### 2.3 SysTask: the task runner, and JobQueue

A group is a record of the counters `nr`, `finish_nr`, `err_nr`, the `timeout`
and the list `sub`, oldest command first. `igd_sys_task_check` is called in two
ways, by the timer (pid 0) and with a reaped pid; the second may also start
commands, and expire groups, in those groups that come *after* the pid's own in
the list. Which those are is left open (`after \in SUBSET Groups`), as the
list's order is the order of first use. `Walk` is one pass over all groups;
within one, forks take distinct free pids.

A task's child is `sh -c`'s parent: mu's own copy, which calls `system()` and
then `exit(0)`, so a command that fails still exits with 0. Only death by a
signal is counted as an error.

`JobQueue` is the promise to clients, without processes, counters or timers: a
log of accepted commands, of which a prefix has ended and at most the next one
runs; it is forgotten only when all of it has ended. `MuSupervisor` implements
it (`ImplementsJobQueue`) under the mapping `Log`.

### 2.4 MuSupervisor

Both of them under the main loop: requests, the one-second `Timer` (both
halves of `igd_sys_task_timer`, in order), and `WaitPid(p)`, which offers the
reaped pid to the supervisor first and to the runner only if the supervisor did
not know it (`igd_sys_waitpid`). Each is one step, as mu is single-threaded.
`ChildExit`, `ChildDie`, `Exec` and `Tick` happen between them.

### 2.5 Scheduler: the timer list and the loop

`events` is the list; each entry has an address, and `malloc` may return any
address not in use, the one just freed included. `handle` are the static
variables in which modules remember their entry. `loop` is where main's loop
is:

| `loop.at` | Code |
|---|---|
| `"select"` | in `select()`, with `timeout` counting down |
| `"netlink"` | after an IPC message of the same turn, before the look at netlink |
| `"check"` | the walk looks at `cur` and has read `nxt` (`list_for_each_entry_safe`) |
| `"ran"` | `cur`'s callback has returned, its entry is not yet freed |

One action per step: `WakeUp`, `Skip`, a callback (guard `Due(c)`, mark `Ran`),
`Release`, and `Answered`/`Handled` after a message. A callback that removes the
entry in `nxt` leaves the walk on freed memory. There the program is undefined
and the model stops (`Readable`); `NoFreedEntryUsed` says it does not happen.

Time: `due` is what is left, negative when overdue. `SchedulerTick` may come
while the walk and its callbacks run (`slow`, at most `WalkTicks` per walk).
`process_schedule` computes select's timeout from the time it read *before* the
last callback; `late` keeps by how much that is old.

### 2.6 MuTimers: five timers on that list

| Timer | Code | Remembered in |
|---|---|---|
| `"task"` | `igd_sys_task_timer`, every second | nothing |
| `"dnsmasq"` | `dnsmasp_restart` / `dnsmasp_cb` | `dnsmasq_event` |
| `"lan"` | `interface_lan_restart` / `interface_lan_cb` | `lan_event` |
| `"retime"` | `igd_system_retime` / `system_retime_cb` | `retime_event` |
| `"net"` | `nlk_net_status_action` / `net_status_cb` | `net_event` |

`Init` is what `mu_init` leaves behind when the loop begins: four timers armed,
the LAN ports down because the LAN interface has just come up, the WAN interface
without an address or with a static one. dnsmasq's callback restarts the LAN
ports from inside the walk; a WAN address in the LAN's subnet moves the LAN and
restarts ports and dnsmasq (`LanMoves`). `LanRestart` is therefore the *set* of
what the function can leave, for handlers that go on after it. `Asked` bounds
which requests come in, so that a run can look at two modules at a time.

`IpStatic` ends with `online` and `detect` false where the code goes through
`interface_generic_ip_down` only if the interface is up: on an interface that
is not up both are false already, by the invariants `DetectUp` and
`OnlineOnlyWhileUp`, which are proved. Bridge mode restarts dnsmasq before the
ports, the other way round; the two commute except for the addresses used.

`portsDown` is about the ports of the LAN. The WAN's own port goes down with them
only where it serves as one more of them (wisp, 3g), and `interface_lan_cb` skips
it when `ifstats` has it up; it is left out.

### 2.7 WifiRadio: one radio

Settings (`cfg`) are saved at once and take effect by a timer five seconds
later. The client's `GetConf` and `Set` are two messages: the second copies all
fields, the stale ones too. `wifi_lock` says the radio is down. `ApCb` and `Up`
call `wifi_set_vap`, which cancels and schedules `wifi_vap` from inside the
walk. Scans (`Survey`) set `scannng` (spelled so in the code), which every
setting looks at. The hours in which the radio is off are any subset of the
checks (`TimeHours`): the time of day is data.

### 2.8 GuestHosts: an open guest network

| Code | Model |
|---|---|
| kernel host table, `dump_host_info` | `place`: off, in the guest network, or in the owner's; a host that goes over is not reported |
| netlink socket | `queue`, in order; `Told` takes the head, and the handler looks at `place` as it is *by then* |
| `struct vap_host`, malloc'ed | `guest[e]` for an entry `e`; `vhost` is the list of entries in order |
| `guest->event` | `handle[e]`: a timer belongs to an entry, not to a host |
| black, dnsrd and redirect rules | `rules`, a set of what they do |
| `wifi_vap_host_online` | `Online`: ignored, again (`OnlineAgain`), new (`OnlineNew`), or in the place of the first entry offline (`OnlineInstead`) |
| `wifi_vap_host_offline` | `OfflineMsg` / `Gone`: the entry stays only if the owner has decided about the guest |
| `wifi_vap_host_action`, `wifi_wechat_allow`, `wifi_wechat_clean` | `HostAdd`, `HostDel`, `WechatAllow`, `WechatClean` |
| `vap_wechat_cb`, `wifi_vap_cb`, `wifi_ap_change_cb` | `MinuteCb`, `VapCb`, `ChangeCb` |

`TableMax = HostMax + 1` is the code's `IW_VHOST_MX`. No request but the listing
looks at `online`: the owner and the host itself may ask for a guest that has left
and whose entry is kept, a minute included (a guest that came in by a WeChat name,
left, and lost its leave by `wifi_wechat_clean` may have one).

`memset` on reuse clears the handle as well: `OnlineInstead` sets it to `Null`, while
the timer, if the entry had one, stays in the list. It goes *astray*: it is about
whoever has the entry now, nobody can cancel it, and when it ends it makes the
entry forget its guest's own timer (`MinuteCb` clears the handle), which is then
astray in turn. `Astray(e, a)` says this of a timer at address `a`. What an astray
timer writes to an entry that was freed is undefined in C and left out; so are
the rules of a guest whose entry is reused, which stay in the kernel.

### 2.9 Tunnels: VPN

| Code | Model |
|---|---|
| `tcfg[TUNNEL_MX]` | `tcfg`, two slots; `invalid` set means "in use", as in the code |
| `l2tp[]` timers | `handle[i]`, callback `L2tpCb` |
| the iptables chain all tunnels share | `nat`: whose masquerade, whose DNS rule, how many jumps |
| pppd-pptp, pppd-l2tp, xl2tpd | `procs`; `started` are those whose reports may still come |
| `tunnel_set`, `tunnel_save_config` | `Add`, `Change`, `Remove` (the page sends nothing but the index) |
| `tunnel_restart` | `Reset`: both slots in one handler, each with what the slot's settings say |
| `tunnel_ipcp` | `TunnelIpUp`, `TunnelIpDown`, of any pppd there has been |

A handler is a function from the state it has reached to the set of those it may
go on from (`TunnelDown`, `Raise`, `Restarted`), because `tunnel_set` runs twice
in `Reset` and can fail between its steps. A request that failed leaves a
slot in use whose settings name slot 0, as in the code; the next `Reset` then
removes tunnel 0 in its place (see "hazards").

### 2.10 WanInterface

| Code | Model |
|---|---|
| `config.mode`, `hander` | `mode`, `hander` |
| `IF_STATUS_IP_UP`/`_DOWN` | `status`; `"none"` is neither bit, as after the start |
| the address of the device | `addr`: whose it is, of a process, of the settings, of a dead process, nobody's |
| udhcpc, pppd, wisp, w3g | `run`, `prog` |
| IPC messages not yet read | `inbox`, with the sender; the code does not see the sender, only `addr` and the properties do |
| `interface_param_set` (if_down, if_up, save) | `SetMode`, `ParamRefused` (a mode that is none: refused after if_down) |
| `exec_cmd`, `system` whose fork fails | `fails`: any of "helper", "client" (not killed) and "start" (not started) |
| `interface_ipchange`, `interface_generic_ip_up/_down` | `Deliver`, `IpUp`, `IpDown` |
| `ifstats_cb` | `LinkCheck`; `Plug` is the cable |
| `pppoe_do_cb`, `pppd_restart_cb` | `PppoeDo`, `PppdRestart` |
| `auto_swtich_to_pppoe_cb` | `AutoSwitch`, `AutoStop` |
| udhcpc's and pppd's scripts | `Deconfig`, `Bound`, `PppLost` |
| wisp's address handling | `WispUp`; `WispLost` (udhcpc is killed) and `WispDown` (mu is told), two steps of another process |
| (none) | `trouble`: a history of what has gone wrong and still lasts, which no step reads |

`exec_cmd` returns 0 when its fork fails (`igd_lib.c:202`), so nobody learns that a
client was not killed or not started, and a set of the mode succeeds all the same.
Nothing refuses a set in the six seconds in which the nightly restart has killed
pppd and not yet started it: `pppd_restart_cb` then starts pppd in whatever mode
there is (`redial = "stale"`). Both are steps of the model, and both break what the
code would otherwise keep. `trouble` says which of them still lasts:

- `"kill"`: a client or helper is alive that if_down should have killed;
- `"start"`: the last if_up, or the restart, started nothing;
- `"redial"`: pppd was started after the mode had been set.

"start" ends with the next if_up that starts something; the other two end when an
if_down leaves nothing alive. The properties say what holds in spite of each: a late
restart adds one pppd and never two (`SingleClient`); a static interface is safe
whatever happened (`StaticIsSafe`); that somebody works on an address is lost with a
failed fork or a refused set only, not with a late restart (`KeepsTrying`). Whose
address the interface has is promised while nobody else is on the WAN (`Alone`).

`Reported` and `DownIsOwn` are about what the code can know: with udhcpc, which
says DOWN before it says UP, the address is always repaired; with pppd, which
does not, a dead udhcpc's late UP can stand, and `Reported` does not claim the
contrary.

A client that is killed is dead at once in the model, although pppd gets a SIGTERM
and takes a moment: `interface_pppoe_down` sleeps two seconds, `interface_3g_down`
follows with SIGKILL, the restart waits six seconds; and a pppd that was told to
go by a signal does not report DOWN (`ipcp_down`: `status != EXIT_USER_REQUEST`).
Programs of one name are one in the model where the code kills them by name: two
wisps, left by a fork that failed, are one.


## 3. The runs

Properties that others imply are not run by themselves: that a command is never
dropped or accepted twice is part of JobQueue; that no pid is in both tables, that
a name has one entry and a started command its child are theorems (section 5), as
is the type invariant of WanInterface. Model values; symmetry only for safety (pids, names, commands, addresses are
used as identities only).

| Run | Bounds | Shows |
|---|---|---|
| `supervisor` | 2 daemons, 1 command, 4 pids, delay 1, 2 parked | types, an entry has its child, no runaway, one instance |
| `tasks` | 2 groups, 2 commands, at most 3 accepted, 2 pids | a process belongs to one command, order, counters agree, implements JobQueue |
| `live_supervisor` | 1 daemon, 1 group of 2 commands, 2 pids | a dead daemon is noticed, zombies are reaped, commands end, a finished group is forgotten |
| `timers` | dnsmasq, LAN and net asked for, malloc fails at will, walks of up to 2 s, 6 addresses | no freed entry used, handles live, list sorted, ports down have a timer, no timer left over, answers stand, online only while up |
| `live_timers` | LAN and reboot asked for, 5 addresses | what is due is served, the one-second timer runs for ever, ports come up, a reboot is waited for |
| `wifi` | guest network on, walks take no time, 6 addresses | scan against setting, no switch forgotten, a guest network that is on is up or about to be |
| `live_wifi` | 3 addresses | a scan ends |
| `wifi_freed` | guest network, 4 addresses | *violation*: the walk uses freed memory (section 6) |
| `guests` | 3 hosts, 1 alive at once, a table of 2, 1 minute to ask for, 2 messages waiting, 4 addresses; in three parts, below | types, no free ride, leave lasts, a minute is one's own, a victim exists |
| `guest_minute` | the same, malloc may fail | *violation*: a minute that never ends (section 6) |
| `tunnels` | 2 slots, 2 kinds, 3 addresses, malloc and files fail at will | handles live, no stray pppd, a dial is one's own, rules only for what is up |
| `wan` | 2 udhcpc, 2 pppd, 3 messages waiting (1 while a client outlives its killing), `Troubles` without what "kill" may come with | one client, somebody works on an address, reported, a DOWN is one's own |

Why the bounds are enough. Interference by pid needs a pid that is reused while
somebody still remembers it: one pid per supervised process plus one for a
stranger; the safety runs have that or more, the liveness run lets all compete
for two. Two commands are the least for order; a third lets an ended one stand in
front of a running and a waiting one, and be added again. Five timers need five addresses;
the sixth lets malloc choose between memory just freed and other memory. With
fewer addresses than entries, malloc fails, which is one of the cases (`live_wifi`,
`wifi_freed`). Delays keep the order of the real ones (1 s for the task timer,
2 for dnsmasq, 6 for the LAN, 10 for net, 30 for the reboot) but are scaled to
1–4 ticks: entries due together, overdue by a callback's time, and due in
sequence all occur. `MaxTasks` and `MaxOom` bound queues that the code does not
bound. `oomkill_age`, a group's `timeout` and `Forever` stop where the code no
longer tells the values apart.

A guest table one larger than the number of hosts alive is the code's own ratio,
and one alive, two entries and three hosts are the least in which a host finds
the table full of others. The run takes the states in three parts, since all at
once are too many (`MCGuestHosts`): in `"requests"` every request is made, also
about guests offline, with settings that stay, no guest going over to the owner's
network, one message waiting and one minute astray at a time (`AstrayMax`, so that
memory is left for the others); in `"changes"` settings change and guests go over,
and requests are about guests online; in `"lag"` two messages wait. The theorems
about guests know no such parts.

Two slots are the code's `TUNNEL_MX`. Two udhcpc and two pppd, of which two may be
alive when another starts (`AliveMax`), let a client start while one that was not
killed still runs, which is what `SingleClient` excludes; three messages let a
dead client's DOWN and UP wait in front of a living one's.

A switch that excludes a case: `MallocMayFail` is FALSE in `live_timers`, `wifi`,
`live_wifi` and `guests`. With failures, the one-second timer is gone for good, a
setting is lost, and a guest's minute does not end (`guest_minute`).

`CHECK_DEADLOCK FALSE` in `Wifi.cfg` and `Guests.cfg`: these models really stop
where the program's next step would read freed memory (`wifi_freed`). All other
runs check for deadlock.


## 4. Fairness, and why the code has it

MuSupervisor (`Fairness`):
- `WF(Timer)`: `igd_sys_task_timer` schedules itself again each time, and
  `TaskRuns` (run `live_timers`) shows the timer list serves it for ever. It
  needs `malloc` to succeed: the timer has no second source.
- `WF(WaitPid(p))` per pid: every turn of the loop ends in
  `waitpid(-1)`, which looks at mu's children oldest first, so a zombie is not
  passed over for ever.
- `WF(ChildDie(p))`: a process that was sent SIGKILL dies. `WF(Tick)`: time
  passes.
- `TaskFairness`: commands end by themselves. The code has no timeout on them
  (`struct igd_sys_task_info.timeout` is set and never used), so `CommandEnds`
  and `GroupForgotten` rest on it. No fairness is assumed of daemons' exits or
  of requests.

Scheduler (`FairSpec` of MuTimers and WifiRadio): `WF(Callback \/ Loop)`: the
loop does not stop between two selects, and callbacks return; `WF(Tick)`. None
for messages: the properties hold when clients ask at every turn, or never.
`WalkTicks` excludes callbacks that are for ever slower than their own periods
(see "hazards").

GuestHosts, Tunnels and WanInterface state safety only: that a host leaves, a
server answers or a cable is plugged in is in nobody's hands here, and that a
timer which is armed is served is Scheduler's liveness (`DueServed`).
`KeepsTrying` and `NoFreeRide` are the safety halves of "an address comes" and "a
minute ends": there is always someone who works on it, or a timer armed.


## 5. The proofs

All are checked to the last leaf by tlapm with Z3, Zenon and, for the temporal
steps, LS4.

**MuSupervisorProofs**, for any pids, daemons, groups, commands and bounds:

| Theorem | Statement |
|---|---|
| `Inductive` | `Spec => []IInv` |
| `TypeCorrect` | `Spec => []TypeOK` |
| `ExitsFound` | `Spec => [](OneEntryPerName /\ EntryHasChild)` |
| `NoRunaway` | `Spec => []NoRunawayDaemon` |
| `Supervision` | `Spec => []OneInstance` |
| `Order` | `Spec => []InOrder` |
| `Ownership` | `Spec => [](TaskHasChild /\ OneOwner /\ NoSharedPid)` |

None of these is inductive by itself. That a daemon's exit is found needs that
its pid was not handed to someone else; that needs that the owner of a pid
is in exactly one table; and that needs that a command's pid, and only that,
marks the one open command of its group. `IInv` is types, the supervisor's three
invariants, the shape of a group (ended commands, then at most one started, then
pending ones; `finish_nr` the length of the first part), and the ownership of
pids between the two tables. The lemmas go from operators up: what a fork, a
kill and a reap change (`ForkOnly`, `KillDaemon`, `ReapDaemon`, ...), what starting,
ending and expiring do to a group (`StartFacts`, `EndFacts`, `ExpireFacts`), what
a whole pass does (`WalkFacts`), then one lemma per action, `NextIInv`, and the
theorems. `NextOpen` is a CHOOSE of the least open index; `NextOpenIs` shows
that it is the code's "first that has not ended".

**JobQueueProofs**, on top of it: `TaskRunnerRefines` (`Spec =>
ImplementsJobQueue`) and `Counters` (`Spec => []CountersAgree`). The mapping `Log`
counts states, so the proof begins with what the shape of a group makes of them
(`LogIs`): as many commands have ended as the first part is long. Then each
operation on one group is a move of its queue, or none (`EndLog`, `StartLog`,
`ForgetLog`, `ExpireLog`), a pass is such a move in every group (`Walked`), and every
handler one of JobQueue's steps (`SubmitStep`, `DumpQueue`, `TimerQueue`,
`WaitPidQueue`, `TickQueue`). A pass of the timer may expire a group, end its
last command and start another group's, which is why JobQueue's step moves all groups
at once. `Counters` needs, besides, how the number of errors changes when one
command of a list does (`Counted`).

**SchedulerProofs** is about schedule() and dschedule() as functions of any list:
`Scheduled` inserts at one position, before the first entry due later
(`ScheduledAt`), `Dropped` takes one position out (`DroppedAt`), both keep the list
sorted and without an address twice (`Inserted`, `Removed`). `Linked(evs, h, x)` ties the
list to the static variables: one that is set has an entry of its own
callback, and an entry whose callback has one is what it points to, but for
`x`, the entry whose callback has run and which the walk has still to free. Arming
a client whose variable is NULL, cancelling, the beginning of a callback,
`Release` and a tick keep it. `Anchored` is the first half of it alone, for modules
that forget entries, and `Moored` what the loop keeps of that. `ListInv` adds to `Linked` that what the walk has read
is still listed: the current entry, and the next one, which is another. The
steps of the loop keep it (`WalkKeeps`), a request does (`AnsweredKeeps`), and a
callback that only adds entries (`RanKeeps`). `LoopInv` is the weaker one that also holds
where callbacks cancel. `OneEntry` says that a callback has one entry; with it `HeldRoom`
counts: a timer whose static variable is NULL finds an address that is free.

**MuTimersProofs**, for any delays, addresses and failures of malloc:

| Theorem | Statement |
|---|---|
| `TimersInductive` | `Spec => []TimersInv` |
| `PortsDownTimed`, `Online`, `Answer` | `PortsDownPending`, `OnlineOnlyWhileUp`, `AnswerStands` |
| `ListInductive` | `Spec => []ListInv` |
| `NoneFreed`, `ListSorted`, `Handles`, `NoneLost` | `NoFreedEntryUsed`, `SortedByDue`, `HandlesLive`, `NoOrphan` |
| `RetimeHolds` | with memory for the timers, `RetimeArmed` |

`TimersInv` adds the type of `handle` and `DetectUp`: an answer makes the
connection online when a detection is under way, so a detection must be under way
only while there is an address. It says nothing of the list itself; what
schedule() puts where does not matter to it. `ListInv` is about the list only:
MuTimers' callbacks add entries and cancel none; WifiRadio's cancel some, and there
`ListInv` does not hold (section 6). That the kernel's report of a dead connection
does not arm `net_event` twice rests on `AnswerStands`. `RetimeHolds` is where the
two meet. The callback schedules itself while the walk still holds the entry it
runs from, so that memory for one entry per timer is one too little; and that the
other timers have no more than one entry each needs `Linked` for those with a
static variable and `OneTask` for the one without. `RetimeInv` is all of this.

**GuestHostsProofs**, for any hosts, entries, settings, delays, and any number of
messages that mu has not read and of minutes that have gone astray:

| Theorem | Statement |
|---|---|
| `NoFreeRideHolds` | `Spec => []NoFreeRide`, with memory that does not run out |
| `LeaveIsLastingHolds` | `Spec => LeaveIsLasting` |
| `MinuteIsOwnHolds` | `Spec => MinuteIsOwn` |
| `GuestsTyped` | `Spec => []TypeOK` |
| `VictimExistsHolds` | `Spec => []VictimExists` |

Two invariants. `GuestsInv` says of each entry (`EntryOk`) what its guest may have
and whether the timer it knows of runs: leave means none, and online without leave
means cut off or timed. It does not say that the entry's timers are those it knows
of, since some are not; it has `Moored` of the list, which is what is left of
`LoopInv` then: a static variable that is set has an entry of its own callback,
while an entry need not be anybody's. That is enough for `NoFreeRide`, which is
about the timer at `handle[e]`. The two action properties are proved with it, one
lemma per handler: `Owns(e)` says of a step how a minute of `e` may go astray, by
reuse or by the end of one that is astray already; the others begin, end or cancel a
minute that the entry knows of. `NoFreeRide` has `Roomy` as a premise: malloc
does not fail, and there are more addresses than any list has entries, since the
minutes astray within one minute are not bounded. `guest_minute` shows that a
premise of this kind is needed. `TableInv` is about the hosts: for `VictimExists` the table must hold one
guest offline however far mu lags behind. Its witness is a sequence of sets of hosts, one for
each message not yet read (`Lag`): what mu takes to be online by then is among the hosts
that were alive when the kernel sent it, and those are at most `HostMax`. Kernel
steps extend the sequence at its end, mu's reading drops its first set. With `MacsOwn`, that no two entries
are about one host, `TableMax = HostMax + 1` entries cannot all be online.

**TunnelsProofs**, for any delays, addresses and results of malloc: `NoneStray`
(`NoStrayPppd`), `DialsOwn` (`DialIsOwn`), `RulesFollow` (`RulesOnlyForUp`), `DialHandles`
(`HandlesLive`). A handler of igd_tunnel.c is a function of states in Tunnels, so
the proof is about `StateOK(s)`, which every stage of a handler starts from, and
about the slot that a stage is at work on: `tunnel_down` leaves it `Quiet`
(`TunnelDownIs`), the rest of tunnel_set starts from a quiet slot and fails, or
brings up what the new settings want (`RaiseIs`), before tunnel_save_config writes
them (`SavedOK`). `SlotOK` has to know the hander besides what the properties say:
it decides what the next tunnel_down kills, and a set that fails half-way leaves
it apart from the settings. It also has to know that settings with a name
carry the index of their slot, since a restart goes by that index.

**WifiRadioProofs**: `Exclusion` (`ScanExclusive`) for any result of malloc and any
requests; with memory for the timers, `SwitchHolds` (`SwitchNotForgotten`) and
`GuestHolds` (`GuestServed`). The last two come from one invariant, `WifiInv`:
`LoopInv` of the list (which holds here, although `ListInv` does not), the scan's
invariant, and `RadioInv`. `RadioInv` has, besides the two properties, what a
client's copy of the settings has to do with those in force (`CopyAgrees`): the
switches in a copy that a client still holds are those of the settings, so that
sending it back undoes no switch.

**WanInterfaceProofs**, for any processes and any number of messages waiting:

| Theorem | Statement |
|---|---|
| `WanInvariant` | `Spec => []WanInv` |
| `TypeCorrect` | `Spec => []TypeOK` |
| `StaticOwn` | `Spec => []StaticIsSafe`: a static interface never has a client's address |
| `AlwaysTrying` | `Spec => []KeepsTrying` |
| `OneClient` | `Spec => []SingleClient` |
| `MailInvariant` | `Spec => [](WanInv /\ ClientInv /\ MailInv)` |
| `BoundReported` | `Spec => []Reported` |
| `DownsAreOwn` | `Spec => DownIsOwn` |

None assumes anything of forks, of the times at which the mode is set, or of
`Troubles`: what breaks a promise is in the promise (section 2.10).

`WanInv` adds `HelperRules`, that wisp and w3g run only with their hander, and
`Unsaved`, that the mode is the hander's but for a wisp that could not be started.
Without the first a helper could start a client that the hander does not kill.
`OneClient` needs `Pending` besides: while pppd is about to be restarted in time no
pppd runs, while wisp is down there is no udhcpc, and a late restart is the only one
there has been since all were dead. With that, the extra pppd is one: what is alive
besides it is the hander's one client.

`BoundReported` and `DownsAreOwn` are about messages that mu cannot tell apart.
`MailInv` says why it need not: while it is alone, what the dead have said comes before what the client that
lives has said (`DeadFirst`), and the interface has that client's address only
when no word of the dead is left (`AddrOwn`). For udhcpc the queue also ends with what it said
last, and its UP comes right behind a DOWN, or mu has read the DOWN (`UdhcpcSaid`), so mu
is without an address when it reads the UP and takes the new one. pppd says no
DOWN when it starts, and `PppdSaid` has only the first half: the interface comes
up, with whose address is left open, as in `Reported`.

Assumptions. On names: `ProcsAssumption` (daemon and task command lines and
`Background` are told apart), `TaskPidAssumption` (0 and -1 are no pids),
`TaskAssumption`, `DaemonAssumption`, `MuTimersAssumption`,
`WifiRadioAssumption`, `GuestHostsAssumption` and `TunnelsAssumption` (the names of the timers),
`WanInterfaceAssumption` (the two kinds of processes are told apart from each
other and from other names). `SchedulerAssumption` says of the delays that there
is a longest; they are finitely many constants in the code. TLC evaluates them in
every run. On the system, in the theorems that say so:

- *memory for the timers*: `MallocMayFail` is FALSE, and there are as many
  addresses as timers and one more, for the entry that the walk has not freed yet
  (MuTimers, WifiRadio), or more than any number of timers (GuestHosts). The code
  does not look at the result of `schedule`, so without memory the properties are
  false: a reboot, a setting or a guest's minute is lost. All that does not need
  this is proved without it.

**Model-checked only:** the liveness properties (fairness and ENABLED are out of
the prover's reach): those of `live_supervisor`, `DueServed`, `TaskRuns`,
`PortsComeUp`, `ScanEnds`. Every invariant, the refinement of JobQueue and
`DownIsOwn` are proved. That `WF(Timer)` of MuSupervisor follows from `TaskRuns` is an argument of section
2, not a theorem: two modules with different variables.


## 6. What was found

**The walk of the timer list can use freed memory** (run `wifi_freed`).
`process_schedule` walks with `list_for_each_entry_safe`, which survives the
removal of the entry it is at and of no other: the next one has been read
already. `wifi_ap_cb` and `wifi_time_cb` (through `wifi_up`) call
`wifi_set_vap`, which cancels a pending `wifi_vap` with `dschedule`. When that
entry is the next in the list, the walk goes on in it. Two ways: the radio's
check is due just before a pending setting of the guest network, and brings the
radio up; or SET_AP and then SET_VAP arrive within one second, so that the two
are neighbours with the same expiry. The timers of MuTimers do not do this:
`timers` checks it for all orders.

**A guest's minute may never end** (run `guest_minute`).
`wifi_vap_wchat_evnet_action` takes off the rules that keep a guest from the net
and then calls `schedule` without looking at its result. When malloc fails there,
nothing puts the rules back; the comment at its caller says that the guest may use
the net for one minute.

**A minute can go astray.** `wifi_vap_host_online` takes the entry of a guest that is
offline and clears it (`igd_wifi.c:1343`) without a look at its timer, and no request
but the listing looks at `online`. A guest came in by a WeChat name and left; its
entry is kept, as it has leave. WeChat is cleaned, which takes the leave, a minute
is asked for the guest, which `wifi_wechat_allow` grants, and the entry is
reused. The timer of the first guest now ends about the second: it puts `black`
and `dnsrd` on it although the owner may have let it in meanwhile, and makes its
entry forget the timer of its own minute. `MinuteIsOwn` and `LeaveIsLasting` say
exactly this and that nothing else does it; `NoFreeRide` holds all the same. No
document of the repository promises the contrary, so no run claims it.

**The mode set while pppd is restarted.** In the six seconds after the nightly kill
a set of the mode is accepted, and `pppd_restart_cb` then takes the interface down
and starts pppd with the account of before: a DHCP interface that has just got its
lease loses it, and the next udhcpc's DOWN can take pppd's address. One set of the
mode later all is well again if its if_down kills pppd, and else pppd stays.
`SingleClient`, `Alone`.

Other behaviour worth a look, which no document of the repository contradicts,
is under "hazards": a switched-off guest network left up by a SET_AP within
five seconds; DEL of a daemon that is parked; `detect` left on when netdetect
dies; one failed malloc that ends the one-second timer for good; a fork that fails
and that nobody learns of; a pppd whose UP is ignored because a dead udhcpc's came first; a tunnel that
could not be added and takes tunnel 0 with it.


## 7. What is not modelled

- In the modelled parts: the formats of commands and configuration files;
  `uci_*` and MTD writes; the CPU binding and environment of a daemon;
  `igd_sys_daemon_pid`, which only reads; the dispatch table of `mu_call`; the
  parsing of netlink messages; the reboot itself, which ends the program.
- The radio: the second radio (a second copy of the same state); SET_CHANNEL,
  SET_TXRATE and the like, which run `iwpriv` at once; two clients
  at once, whose lost updates are certain (GET_CONF and SET are two messages); a
  client that sends SET_AP and then SET_TIME for one switch.
- The guests: rules that cannot be registered (the code keeps their id in an
  unsigned short), the message by which the cloud learns of a guest, what the host
  module keeps about them; netlink messages lost to a full socket buffer.
- The WAN: the bridge mode, the LAN interface, the setting of MAC and MTU, the
  writing of settings to flash. What an address that comes or goes starts
  elsewhere is modelled where it arrives (MuTimers, Tunnels), not as one
  composition: its size is beyond TLC.
- The tunnels: routes, and xl2tpd's fifo, which can block mu.
- Firmware: its interesting properties (one answer per check, an update installs
  what was downloaded) are broken by what the code plainly does, and no document
  says otherwise; the places are under "hazards".
- The rest of section 1.2 marked planned or not planned. Third-party code.


## 8. The plan

Done: MuProcs, SysDaemon, SysTask, JobQueue, MuSupervisor; Scheduler, MuTimers,
WifiRadio, GuestHosts, Tunnels; WanInterface; proofs of all their safety
properties, with the refinement of JobQueue and the structure of the timer list.

Next, most important first:

1. **Firmware** (`igd_system.c` 100–430) on Scheduler: the status machine of
   `fwinfo`, the child that reports back or dies, the file used three seconds
   later.
2. **Ipc** (`ipc_msg.c`): request, answer and silence between clients and mu.
   Abstract specification: each request is answered once.
3. **Plug** (`igd_plug.c`) on the daemon supervisor; **Hosts** (`igd_host.c`):
   online/offline, reference counts of rules, in parts; the cloud client's
   login; diskm.
4. Composition of WanInterface with MuTimers' connection part on a reduced list.

Proofs: the safety half of `DueServed`, that no entry is overdue by more than the time
its walk takes.


## 9. Running

    tlc -workers 2 -config Supervisor.cfg MCMuSupervisor
    tlapm MuSupervisorProofs.tla
    tlapm TunnelsProofs.tla
    tlapm GuestHostsProofs.tla

Every run takes less than three minutes with two workers; the largest is
`wan` (394,000 distinct states). `PROJECT.json` has for each run its module,
configuration and properties; for each definition the lines it models; for each
property a mutant, a faulty variant that makes TLC report that property.
