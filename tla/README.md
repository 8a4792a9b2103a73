# svdhcp: models, checks and proofs

svdhcp is a small C project for handing out addresses after a login: a server
daemon (`src/src/svdhcpd.c`), a client (`src/src/svdhcp.c`) and the code they
share. At this commit only the first of eight handshake steps is code; the
others are comments. This directory holds TLA+ models of what is code, TLC
configurations that check them on small instances, and TLAPS proofs for all
values of the constants.

## The system

| part | state | operations | talks to |
| --- | --- | --- | --- |
| main loop of the server (`svdhcpd.c`) | sockets, `rfds`, `retval` | start, restore a lost socket, select, read a signal, read and answer a packet, sweep | signal pair, UDP, list |
| client list (`svdhcpd.c` 148-265, `protocol.c` 53-98, `timeout.c`) | `list_client`, the `client_t` cells, `idclient` | push and fill a session, look an id up, free overdue sessions | main loop, clock |
| packet codec (`packet.c`) | `packet_t` | `packet_init`, `packet_add`, `packet_close`, `packet_get`, header readers | main loop, `new_client`, `new_server` |
| signal pair (`signalpipe.c`) | a stream socket pair, the handlers on the stack | `sig_handler`, `sig_read` | kernel, both main loops |
| UDP (`udp.c`) | socket, addresses | open, bind, send, receive | both main loops |
| pid file (`common.c`) | the file, its lock, `saved_pidfile` | acquire, write and release, background, delete at exit | other instances |
| raw sockets (`raw.c`) | a frame, the socket | init, send, checksum | main loop (start only) |
| client program (`svdhcp.c`, `protocol.c` 153-173) | `list_server`, `server_t` cells | the server's loop with other names; push a server that answered, look an id up | signal pair, UDP, codec |
| configuration, keys, users (`config.c`, `rsa.c`, `database.c`) | none that lasts | load, generate, look up | start-up |

What makes it hard: signals arrive between any two instructions, inside of each
other's handlers and while select sleeps; packets queue up behind them; the loop of
`packet_get` is steered by the bytes of a packet, read through signed chars, and need
not end; the clock is read anew for every session of a sweep; links are changed under
two cursors; ids are eight bits and are read back through signed chars, too; several
instances share one pid file and may be killed anywhere.

The components, modelled or not, are in `PROJECT.json` with the reason where a
part is left out; so are the hazards, each at its line and with the properties
that watch it.

## Readings of the source

The source does not compile as it stands (`packet_get_option` has no definition, for
one). Where a slip of the pen leaves one
sensible reading, that is what is modelled:

- `client.udp` in `svdhcp.c` 127-130 is `client.udp_rx`, the socket that was
  initialised, `client.raw_tx` is the raw socket of `client_t`, and `reply_to_server`
  takes the packet it is called with;
- `packet_id` is `packet_xid`, and `packet_get_option` is `packet_get`;
- the `;` behind three signatures in `packet.c` are not there;
- `packet[...]` in `packet.c` is `packet->data[...]`; `curr` there is `i`;
- `PACKET_MAX_DATA_SIZE` and `PACKET_MAX_OPT_LENGTH` are not defined anywhere:
  they are the constants `MaxData` and `MaxOpt`;
- calls of `packet_add` in `protocol.c` have an older order of arguments.

Where the compiled program would do something the author did not mean, that is
what is modelled: chars are signed (a constant, to see the other case too),
`j<<1+1` is `j<<2`, and functions that end without a return value return
anything.

## Modules

### ClientTable, ClientList: the sessions

`ClientTable` is what the table of sessions promises: a session is admitted with
an id not used in the last 256 admissions by a live one, and leaves only when it
is overdue. `ClientList` is the code: cells of a heap, `next_client` links, and
one action per turn of each loop, because each turn of the sweep reads the clock
again. Variables carry the names of the code's variables. `Register` is the
malloc and push of `reply_to_client` (svdhcpd.c 195-197) with `new_client`;
`BeginLookup`, `LookupHit`, `LookupAdvance`, `LookupMiss`, `RejectMatched` the
lookup; `BeginSweep`, `SweepKeep`, `SweepDropHead`, `SweepDropInner`, `SweepEnd`
the sweep. A use of anything but a live cell is recorded in `fault` and nothing
happens after it.

`new_client` ends with two calls of `packet_get`. `KeysRead` has their ends as the
codec's module shows them: on some packets (`keys` is "sound") they return; on some
("endless") they go round for ever, and the daemon stays in `pc` = "keys"; on some
("wild") they go outside the packet or the buffer, where anything they meet may let
them return, stay, or fault.

`MacRoom` is the distance from `macaddress` to `next_client` in a `client_t`.
`new_client` copies 18 bytes there. With the usual x86-64 layout the distance is
12 and the copy reaches the link (`Overrun`); with 18 or more it would not. Both
layouts are checked, and proved about.

`expected_packet` is never assigned; whatever it holds, the packet is refused by
the test or by the default case, so `RejectMatched` has one outcome.

### WirePacket, MainLoop: what both programs share

`svdhcpd.c` and `svdhcp.c` have the same loop with other names. `MainLoop` is that
loop: `Start`, `RestoreUdp`, `EnterSelect`, `SelectTimeout`, `SelectReady`,
`ReadSignal` and `Receive` follow svdhcpd.c 57-140 (svdhcp.c 55-138); `Deliver`,
`Interrupt` and `Arrive` are the environment. `EnterSelect` sets `sig_ready` and
`udp_ready` as FD_SET does, and select leaves them so when it is interrupted: it
returns -1, which `if(retval)` takes for ready. `Start` and `RestoreUdp` let every
outcome happen that a function without a return value allows. `WirePacket` is what
both read from a packet: `packet_type` and `packet_xid` with their signed chars, and,
as the field `keys`, what `packet_get` makes of its options. `KeysEndless` is a main
that never comes back from there.

Alone (`LoopSpec`), `MainLoop` leaves open what a packet leads to and how many
steps a lookup or a timeout check takes. It is the abstract specification both
programs implement:

    Server  =>  ClientList  =>  ClientTable
    Server  =>  MainLoop
    Client  =>  SignalPipe  =>  MainLoop

### Server: the daemon

`Server` extends `ClientList` and `MainLoop`: each of its steps is a step of both or
leaves one of them alone. `Turn` is the loop without the list, `ReplyMalformed`,
`ReplyFirst`, `ReplyOther` and `Lookup` are `reply_to_client`, `Sweep` is
`timeout_check_client`; `Signalled`, `Packet` and `Clock` are the environment.

### SignalPipe: signals that take time

In `MainLoop` a signal is caught, sent and ready to be read in one step.
`SignalPipe` has what really happens: `Raise` makes a signal pending, `Catch` starts
its handler between two instructions of main or of another handler, `Wake` starts
it in the sleep of select, which will return -1; `Send` and `SendFails` are the
send of `sig_handler`, which does not wait. A signal is blocked in its own handler
(`OnStack`), not in that of another.

A handler whose send fails does nothing more. The DEBUG of signalpipe.c:35 is the
empty one of `common.h`: signalpipe.c does not include `svdhcp.h`, `svdhcp.h` includes
`common.h` (line 27) before it defines SDHCP_DEBUG (line 30), and the Makefile defines
nothing. So no handler logs, and no handler waits.

`ImplementsLoop` maps `phase` only: for the loop select has returned when the
first signal is in the socket pair. What holds of `MainLoop` so holds in the
presence of handlers that interrupt each other and send out of order.

### Client: the client program

`Client` extends `SignalPipe` with `reply_to_server`. A server that answers with a
PACKET_2 goes on the front of the list (`ReplySecond`, with `NewServer`, whose calls of
`packet_get` end as in `new_client`, or a failed malloc); any other packet is looked up (`ReplyOther`, `LookupNull`, `LookupHit`,
`LookupAdvance`, `LookupMiss`) only to be refused, because the later steps are
comments and `expected_packet` is never assigned. Nothing removes a server
(`Timeouts` is the empty `timeout_check_server`), so the list is the sequence of its
ids and a pointer a position. `heard` is a history.

### Packet: the codec

`Packet` has the packet as an array of chars with `BYTE` values, filled by one
action per call and read by one action per turn of the loop of `packet_get`
(`GetSkip`, `GetBeyond`, `GetNotFound`, `GetWrongSize`, `GetFound`). Every
narrowing goes through `ToChar`; lengths are written and read exactly as the two
(different) formulas of the code do. A read or write outside of `packet->data`
sets `fault`. `added` is a history; its `at` is where an option was put.

### Pidfile: the pid file

`Pidfile` has several instances of a daemon and one name. A file whose name was
taken away lives on for those who have it open; a lock belongs to a process.
`OpenOld`, `OpenNew`, `Lock`, `Write`, `Close` are `pidfile_acquire` and
`pidfile_write_release` as `start_log_and_pid` calls them; `Daemonize` is
`background`; `Exit` runs `pidfile_delete`; `Die` is a kill or a crash.

### Raw: frames

`Raw` is `raw.c` for one socket: `init_raw_socket` fills the headers,
`send_raw_socket` writes data, lengths and checksum over what the last frame left,
`chg_header_raw_socket` changes the destination. The IP header is its ten words;
`cksum` adds them, folds the carry twice and takes the complement as the code does,
in words of `BYTE * BYTE`. Only the initialisation is called by the programs of
this commit; the example in raw.c 24-38 shows the order of the other calls.
`target` and `given` are histories, for the properties only.

### Slips

An operator whose comment begins with "Slip" is a plausible mistake in the
definition of similar name below it: a dropped reset, an off-by-one, a swapped
order. Nothing uses it. `PROJECT.json` pairs each with the property that notices
it when it takes the place of the original.

## Runs

| run | what is checked | bounds |
| --- | --- | --- |
| client_list | types, no stale pointer, order of the list, sweeps complete, ids, lookups, that loops get on and find the list empty no more once a session was opened, and that the list implements the table | 4 cells, 5 sessions (so cells are reused), 3 ids (so ids wrap), timeout 1, 4 seconds; cells symmetric |
| server_liveness | `sig_read` never blocks; live sessions with ids in the lower half are found; SIGTERM ends the daemon, packets are read, overdue sessions that are not last are freed, unless `packet_get` never returns | 3 cells, 3 sessions (so there is an inner one), 1 second, 2 signals, 1 datagram waiting, options of every kind |
| client_program | the client implements `MainLoop` with signals in one step; `sig_read` finds a signal; a raised SIGTERM is never forgotten but by a full pair; a lookup misses no server that answered, takes the newest of equal ids, and finds the list empty only before the first answer; SIGTERM ends the client and packets are read, unless the pair was full or `packet_get` never returns | 2 ids (one reads negative), 2 servers, 2 signals in the pair, SIGUSR1 and SIGTERM raised any number of times, 1 datagram waiting, options of every kind |
| server_as_built | with `MacRoom` = 12 no second session is ever opened | 3 cells, 3 sessions, 2 signals, 2 datagrams |
| signal_kills_idle | violated: a signal does no harm to a daemon that gets no packet | no datagrams |
| signed_xid | violated: a live session is found by the id its packets carry | ids modulo 4, so 2 and 3 read negative |
| packet_signed | header kept, layout of options, lengths and end tag, options read back in their places | bytes of 8 values, packets of 34 (less than the two longest options need), 2 options of up to 17 chars, 1 read |
| packet_unsigned | the seek stays inside the packet, moves forward with each turn, notices the end tag, ends | the same with unsigned chars, and one more option id, that of the end tag |
| option_comes_back | violated: an option comes back as it was added | real sizes: bytes of 256, a key of 256 digits |
| packet_never_returns | violated: every `packet_get` returns | real sizes, signed chars, one option of 256 chars among which is the length -3 |
| pidfile | a daemon that ran alone is named in the file; nothing is left after the last clean exit; two write to one file only if one went through `daemon()`; no one waits for good | 3 instances with pids of 3, 4 and 5 digits, 2 files |
| raw_frames | every IP header verifies; data and lengths are those of this frame; it goes to the destination chosen last | words of 64; data of 0, 1, 3 and 6 bytes (a full frame) and one too long; 24 addresses |

Why the bounds are enough. A sweep distinguishes the head, inner sessions and the
last; four cells have all of them twice over, and five sessions make malloc hand
out a freed cell. Three ids against five sessions make `idclient` wrap with an old
session still alive, as it does after 256. The loop reads one signal and one
packet per pass, so two signals and one packet show every order. Two signals
are enough for a handler inside another, for both orders of their sends and, with
room for two in the pair, for a send that fails with either signal at its head;
a third kind of signal is to main what SIGUSR1 is. Two servers
with two ids meet equal ids, a hit on either place and a miss. A byte of eight
values has a sign bit, an end tag and lengths that do not fit. Lengths of 0 and 9 are
read as they were written (9 of 17 chars is the ODD part, too); 3, 5, 8 and 17 are not:
too long, negative where chars are signed, zero, and too long again. The xid 12 has a
second byte, and its first reads negative. Two files are as many as
three instances can have at once: one whose name is gone, one that has it now.
The addresses of raw_frames make the first fold of the checksum carry for some
headers and not for others.

The eight counters that bound behaviours are named: `MaxClients`, `MaxServers`, `MaxTime`,
`SigRoom` (the real limit of the socket pair, scaled down), `RxRoom`, `MaxAdds`,
`MaxGets`, and the set `Instance`. Deadlock is checked for raw_frames only:
elsewhere the daemon may exit or stop on a fault, bounded clocks and counters run
out, a packet has been read, the last instance has ended.

## What the violated properties say

1. *signal_kills_idle*: a SIGUSR1 that interrupts select leads to a lookup on the
   empty list and through NULL.
2. *signed_xid*: ids from 128 on are never found, because chars are signed.
3. *option_comes_back*: an option's length is written as its low byte twice, and
   read with its bytes in either order. Only lengths that the low byte, twice and with
   its sign, makes up again (0, 257, 514) are read as they were written.
4. *packet_never_returns*: where chars are signed, the length bytes 0xFD 0x00 are -3, and
   the loop of `packet_get` adds -3 + 3 to its position for ever. The step leaves
   everything as it is, so TLC shows it as stuttering, and under the fairness of
   `FairSpec` that is the only step there is. `new_client` and `new_server` call
   `packet_get` on packets as they came: the daemon and the client then read no signal
   and no packet any more.

The models show more of this kind, without a run of its own:

- a packet that is too short is looked up under id -3, and a lookup on an empty list
  goes through NULL, in the server and in the client (`LookupNull`);
- `timeout_check_client` runs while there is a successor, so the last session of the
  list, the first the daemon ever had, is never compared with the clock and never freed
  (`FirstClientStays`);
- with signed chars a length byte in the upper half of its range sends the cursor of
  `packet_get` backwards, out of the packet at its front (`GetOutside`), past what
  packet.c:53 calls "over memory test": `SeekInside` holds for unsigned chars only;
- a walk over options does not reach an end tag in the last two bytes of the buffer;
  `packet_get` spreads EVEN parts over every fourth position;
- a signal that finds the socket pair full is lost, a SIGTERM too (`term_lost`), and so
  is the message about it, which is compiled away;
- the socket is never bound to `PORT_SERVER`; `broadcast_sDHCP` sends a packet of
  type 0;
- a daemon that exits takes away the pid file of one that started beside it;
- `background`, which nothing calls at this commit, does not "hold lock during fork"
  (common.c:105): a lock of `lockf` ends with the parent, and the child writes its pid
  without it. `WritersApart` says that this is the only way two instances come to
  write one file.

Of two of the violated properties the other half holds. `ServedSafely` and
`AnsweredSafely` bound the lookup through NULL of *signal_kills_idle*: it can happen only
until the first session was opened, or the first server has answered, because the last
session is never freed and a server never removed. (`NeverEmptyAgain` and `ServerLookupExact` have them as parts.)
`LowIdFound` bounds *signed_xid*:
ids below 128 are always found.

## Fairness

`FairServerSpec` has weak fairness of `Daemon`: one thread that runs unless a call
blocks, and the only blocking call, select, has a timeout of a second. Nothing is
assumed of the environment: signals and packets may or may not come, and may
come forever. TermHonoured and the like ask for an open socket, because
`while(sockfd < 0)` reads no signals, and name `KeysEndless`, because a daemon in
a `packet_get` that does not return runs, however fair, without ever coming back.

In `FairClientSpec` main does not run while a handler does, so weak fairness would
promise nothing under a stream of signals. Assumed are strong fairness of main
(`Program`) and of each handler's next step, which say that between signals the
interrupted code gets on by an instruction now and then, and weak fairness of the
delivery of a pending signal. TermEnds and PacketRead name the ways to fail that the code
has: the SIGTERM dropped at a full socket pair, and the packet whose options `packet_get`
never gets through; without either name TLC finds the property violated.

`FairSpec` of the codec says that a call of
`packet_get` goes on; `FairPidfileSpec` that an instance goes on with its start
and that a free lock is given to one who waits, which weak fairness is enough
for because only so many instances start.

## Proofs

All proofs hold for every value of the constants allowed by the assumptions in the
modules, which say no more than what kind of value a constant is, and that
NULL, WILD and UNINIT are not cells.

**ClientListProof.** `IInv` strengthens `TypeOK` and `ListOrder`: sessions have
distinct birth numbers below `served`; the cursor of a loop is a link of the list,
and during a sweep `last_client` is a live session that links to the cursor unless
the cursor is at the head. That is what `NoStaleUse` needs and does not say.
`SweepComplete` needs what a sweep has established behind its cursor, and
`SameIdFarApart` that an id is the birth number modulo `XID_MOD`. From `IInv` follow
`NoStaleUse`, `ListOrder`, `SweepComplete`, `FirstClientStays`, `SameIdFarApart`,
`ServedSafely` (a lookup starts at a live session as soon as there was one; with
`FirstClientStays` it is the run's `NeverEmptyAgain`), the action properties `LookupExact` and `CursorDescends`, and the refinement
`ListImplementsTable`: each action is an `Admit`, an `Evict`, a `TableTick` or a
stutter of the table.

**MainLoopProof** has the types of the loop, for every reading of what a packet leads
to, and that `sig_read` finds a signal.

**ServerProof.** `DaemonUsesList` and `DaemonUsesLoop` show that the daemon implements
`ClientList` and `MainLoop` (every step is a step of each or leaves it alone), so the
theorems about them hold in it: `DaemonNoStaleUse`, `ServerTypeCorrect`,
`SigReadNeverBlocksHolds`, `DaemonServedSafely`, `DaemonCursorDescends` and, through the
list, the table: `DaemonImplementsTable`. `LowIdFoundHolds` joins `LookupExact` with the
narrowing of ids by `AsChar`, which leaves those in the lower half as they are.
`OverrunServesOneHolds` has an invariant of its own: after the first registration the
loop is on its way into a sweep that starts at the overwritten link.

**SignalPipeProof.** `PipeInv` adds to the types that a main that is to read a signal has
either one in the pair or a handler above it that has not sent yet (`HandlerToSend`). From
it follow `ReadFindsSignal` and the refinement `PipeImplementsLoop`: a handler's first
`Send` after `Wake` is the loop's `Interrupt`, any other `Send` or `SendFails` its
`Deliver`, all else of the handlers a stutter. `TermKeptHolds` follows a SIGTERM from
pending through its handler into the pair: no step of another handler or of main takes
it from where it is. `ClientTermKept` carries that over.

**ClientProof.** `ClientUsesPipe` carries these results to the client.
`ClientTypeCorrect` and `KnownServerFoundHolds` need that the ids in the list are
those of the packets in `heard`, narrowed in the same way, and that a lookup has
passed none of its id, which also makes the one it finds the newest
(`NewestAnswerFoundHolds`). `AnsweredSafelyHolds` is by the list growing only.

**PidfileProof.** `PidInv` says, beside the types, which instances have a file open
(`FileKept`), that from the lock on `pidfile_delete` is registered (`Registration`), that
while there is a pid file somebody will take it away unless an instance was killed
(`RemoverThere`), and that an instance no other ran beside has the named file open,
empty until it writes and with its pid after that (`LoneFile`). `PidfileTypeCorrect`,
`LoneDaemonNamedHolds` and `NothingLeftHolds` follow. `WritersApartHolds` is by
`HoldsLock`: from the lock to the close an instance has the lock of the file it opened,
whatever that file is called by then, unless it is past `daemon()`; two holders of
one lock are one instance.

**PacketProof.** `TypeCorrect` needs `CursorBound`: the over memory test bounds the
cursor from above with signed chars, too, so that what `GetSkip` and `GetFound`
read are chars of the packet. `HeaderKeptHolds` needs that options are stored from
position 6 on (`HeadBytes`), `SeekInsideHolds` that with unsigned chars the next
option begins behind the current one (`SeekForward`, also the reason why the loop
ends), and `SeekAdvancesHolds` states that of every step. Of an xid `XidLeft` shows
that the masks leave the low byte only.
`LayoutExactHolds` is by `LayInv`: each option ends where the next begins and none
behind `OptionsEnd`, where `packet_add` puts the next, so that storing it leaves them
as they are. `EndTagNoticedHolds` and `OptionReadBackHolds` share `WalkInv`: over options
whose lengths are read as they were written (`OnOption`) the cursor goes from the
beginning of one to the beginning of the next, up to the first it does not go past, which
is the end tag for the one theorem and the option that is asked for, for the other.
`CopiedInPlace` says where the chars of that option go. `OptionReadBackHolds` needs
nothing of the sign of chars; both exclude what hides the options behind it, an option
with the id of the end tag, where it matters.

**RawProof.** `FrameInv` is the conjunction of the run's invariants and
`OneDestination`, that both copies of the address agree. `DivMod` (a number has one
quotient and remainder) carries the arithmetic: `FoldedValue` says what two folds
give, `Complement` that with the complement added they give all ones if the nine
words add up to less than ten times a word, and `HtonsTwice` that a length read back
is the one written. The size of a byte stays a constant; all that is assumed is that
a word can count the bytes of a frame.

Out of the prover's reach, and left to TLC: the liveness properties (`TermHonoured`,
`PacketServed`, `OverdueRemoved`, `TermEnds`, `PacketRead`, `SeekEnds`, `LockPasses`).
Every other property of a passing run is proved. Proved but in no run are what holds by
the way the programs are composed (`UsesLoop`, `UsesPipe`, `UsesListSafely`, and with
them `LoopTypeOK` of the daemon; the client's run checks that of the loop). What is proved
beside the liveness properties is the measure each rests on: `CursorDescends` for the
loops over the list, `SeekAdvances` for `packet_get` with unsigned chars, `TermKept` for
the SIGTERM that `TermEnds` follows. `CursorDescends` and `SeekAdvances`, like every
property of steps, do not see a turn that changes nothing; for the seek `SeekForward`
excludes it, for the list the links that `ListOrder` keeps do.

## Not modelled

- Handshake steps 2 to 8, in both programs and in `protocol.c`: comments at this
  commit, and half of `protocol.c`. `expected_packet`, which would drive them, is never
  assigned.
- `broadcast_sDHCP` as an operation of the client: nothing calls it, and the address it
  would send to is zeroed. What it writes into a packet is modelled with the codec
  (`BroadcastHeader`, *option_comes_back*).
- Contents of options, keys and passwords: what `new_client` and `new_server` read of
  the key is used by nothing, and by *option_comes_back* no key of 256 digits is
  returned as it was added.
- `database.c`, two constant tables that nothing calls; `rsa.c`, whose generated key is
  assigned to a parameter and lost; `config.c` beyond its missing return value.
- A `socketpair` that fails (FD_SET of -1 is undefined), and a `lockf` that fails: its result
  is ignored (common.c:54), the instance goes on without the lock, and `WritersApart` and
  `LockPasses` are about locks that are granted.
- What `packet_get` reads and writes outside of the packet and of its caller's buffer: in the
  codec that is `fault`, in the programs the options are "wild" and everything may follow.
- EVEN parts in the caller's buffer: `OptionReadBack` leaves them out, since `packet_get` does
  not put them where they belong (`Place` has where it does).
- Logging text, printing and the formatting of addresses; the build, which names a
  file that does not exist; `tests/`, which exercise the SHA1 of OpenSSL.

## Plan

Done, in this order, because everything the daemon does passes through its list and
everything both programs do through their loop: ClientTable, ClientList, Server,
Packet, Pidfile, Raw, then WirePacket and MainLoop taken out of Server, SignalPipe,
Client, and proofs for each.

What would come next once the code has it:

1. The handshake, from step 2 on, as a composition of Client and Server over the
   codec, when `send_packet_2` is code again: then duplicate ids in the client's list
   and lost or repeated PACKET_2s matter.
2. `Udp` with ports, when the socket is bound to the port it is given.
3. `Server` over `SignalPipe`: not needed for its safety, since `SignalPipe`
   implements the `MainLoop` that `Server` runs on, but its liveness under handlers
   that take time is checked for the client's loop only.
