# veetee in TLA+

veetee is a DEC VT terminal emulator written in Rust. This directory holds TLA+
models of the parts of it whose behaviour over time is hard to get right and
hard to test, the TLC runs that check them, and proofs of their main
invariants. Every definition is a translation of code under `src/`;
`PROJECT.json` says which lines.

- [The system](#the-system)
- [The modules](#the-modules)
- [The runs](#the-runs)
- [Fairness](#fairness)
- [What is proved](#what-is-proved)
- [Where the code and what it says of itself differ](#where-the-code-and-what-it-says-of-itself-differ)
- [What is not modelled](#what-is-not-modelled)
- [Plan](#plan)

## The system

A window holds one or more sessions. Each session has a terminal (the emulator
in `vt-core`, fed by the parser in `vt-parser`), a connection (`vt-transport`:
serial line, pseudo-terminal, ssh, Telnet or LAT) and three threads that share
both: the UI thread, which types and draws, an I/O thread, which reads the host,
and a pacer, which sends slowly what must be sent slowly. A Kermit transfer
(`vt-kermit`) takes the line over for a while. LAT has a protocol engine of its
own (`vt-lat`), without clocks or I/O, which `vt-transport` drives.

| Component | State it keeps | Operations | Interacts with | Hard behaviour | Right when |
| --- | --- | --- | --- | --- | --- |
| LAT session (`vt-lat/src/session.rs`) | circuit state, numbers sent and heard, credit both ways, typing waiting, messages kept and messages waiting behind a gap | call, receive (start, run, stop), write, release_typing, retransmit, keepalive, peer_gone, close | called by the LAT transport under one lock; the host over Ethernet | loss, duplication and reordering; byte numbers that wrap; credit that is only estimated; five ways to end | nothing typed is lost or sent twice; text is shown once and in order; neither end starves; a circuit is taken down once if it stands |
| LAT transport (`vt-transport/src/lat.rs`) | the session, timers, bytes read and not asked for yet | connect, read_timeout, write, keepalive, drop | a reading and a writing thread share the session | four timers racing frames | timers fire when due and only then; the end of a session is reported after its last text |
| Window line (`veetee/src/session.rs`) | `queued`, `paced`, `stopped`, `held`, `closed`, the transfer | type, hold, Set-Up, close, start and cancel a transfer, read, answer, XON and XOFF | three threads and five locks; terminal, transport, transfer | checks made under one lock and acted on under another | bytes leave in order and whole; XOFF stops the line; keys stay out of transfers; threads end |
| Session log (`veetee/src/session.rs`, `log.rs`, `capture.rs`) | captured text, text in hand, the logger | start, stop, log, a failed write | I/O thread, UI thread | text taken under one lock and logged under another | a log has what was shown while it ran, once, in order |
| Modem control (`veetee/src/session.rs`) | DSR and carrier seen, when carrier was lost | check on every read | I/O thread, Set-Up | a delay racing the signal; settings changed under it | disconnects when and only when Set-Up says so |
| Kermit transfer (`vt-kermit`) | state, packet number, retries, the open file | feed, tick, cancel | I/O thread, UI thread, the folder | damaged, lost and repeated packets; cancelling at any point; lingering for a repeat | a file reported saved is whole; both ends agree on what was sent |
| Telnet (`vt-transport/src/telnet.rs`) | options on and pending at each end, the decoder, the size, the port's settings | hello, negotiate, decode, encode, resize, set_line | reading and writing threads share the options | offers and requests that cross; a command cut between reads | no loops, the ends agree, and text goes through |
| Workspace (`veetee/src/workspace.rs`) | panes, numbers, who is active and what is on the screen, whether one is opening, timers | open, split, switch, reconnect, close, exited, transfer | callbacks that come after the window has changed | state read before an await and used after | the keyboard is on the screen; no later session is taken for a dead one |
| Parser and input (`vt-parser`, `terminal/mod.rs`, `printer.rs`, `crm.rs`, `dcs.rs`) | parser state, parameters, printer controller mode, macros | advance, advance_paced, every state of the parser | I/O thread, emulator | a read may end anywhere; modes that take the input over; macros run in the middle | it makes no difference how input is cut; nothing of one sequence becomes part of another |
| Screen (`vt-core/src/terminal/mod.rs`, `grid.rs`, `rect.rs`) | the page, page memory, cursor, margins, tab stops, status line | every control function that writes, moves or resizes | parser, Set-Up, view | many fields indexed by others that change size | everything stays inside the page |
| Set-Up (`vt-core/src/setup`, `terminal/setup.rs`, `veetee/src/setup_store.rs`, `line.rs`) | current, saved, filed and factory features; the line | open, choose, save, recall, default, leave, set_line | screen, host, files, port | a copy edited while the host changes the original; a port that refuses | what was saved is what comes back; Set-Up shows the line as it is |
| Keyboards (`keymap.rs`, `keymaps.rs`, `keymap_editor.rs`, `vt-core/src/keyboard.rs`, `keyprog.rs`, `udk.rs`) | the keymap and its file, modes, programs of keys, user-defined keys | press, bind, save, load, DECPFK, DECPAK, DECCKD, DECPKA, DECUDK, their reports | view, parser | several tables that say something of one key | a key sends what it is bound and programmed to, and the host is told so |
| Character sets (`vt-core/src/charset.rs`, `charset_tables.rs`, `softfont.rs`, `terminal/paste.rs`) | G0 to G3, GL and GR, single shift, two downloaded buffers, renditions, the supplemental set | designate, shift, download, report, restore, type, paste, copy | parser, Set-Up, view | ways back and forth through the same tables | what is typed is what is shown; reports give back what they told |
| Print jobs, fonts, recording | files, pixels | | | | |

The interactions: a key goes view → `Session::send_as` → pacer or line →
transport. What the host sends goes transport → I/O thread → flow control →
transfer, or log and terminal → replies back to the line. A LAT connection is
both ends of that: `LatWriter::write` and `Lat::read_timeout` are called from
different threads and share one `Session` under a lock.

## The modules

| Module | Models | Extends |
| --- | --- | --- |
| `LatProtocol` | every operation of the LAT session, as functions on its record | |
| `LatSession` | the session with any far end: one action per call the transport makes | `LatProtocol` |
| `LatSessionProofs` | proofs about `LatSession`: the window, credit, the circuit, gaps, allowance, what is never undone | `LatSession` |
| `LatCircuit` | the session, a strict host and two lossy wires | `LatProtocol` |
| `LatTransport` | the session's clocks, the threads that read and write, and a host with clocks of its own | `LatProtocol` |
| `LatDelivery` | abstract: what a session promises its window | |
| `LatCircuitProofs` | proofs about `LatCircuit`: types, what is typed, what the host says, the end, the refinement, both reckonings of credit | `LatCircuit`, `Inductions` |
| `WindowLine` | the three threads that send on a session's connection | |
| `WindowLineProofs` | proofs about `WindowLine`: locks, XOFF, order and wholeness | `WindowLine` |
| `WindowLog` | a session's text logs | |
| `WindowLogProofs` | proofs about `WindowLog` | `WindowLog` |
| `KermitTransfer` | two ends of a Kermit transfer, their files and the line | |
| `FileTransfer` | abstract: what a transfer promises its two users | |
| `KermitTransferProofs` | proofs about `KermitTransfer`: the conversion of lines, the folder, the promise, the length of packets | `KermitTransfer`, `Inductions` |
| `KermitPackets` | the packets, character by character: parameters, checks, encodings, attributes, names | |
| `Input` | how the terminal takes what the host sends: parser, printer controller, display controls, macros | |
| `Keys` | what the terminal's keys send, and how the host programs them | |
| `Keyboard` | from a PC's key through the keymap, its file and its editor | `Keys` |
| `Screen` | page memory, cursor, margins, status line, sizes and resets | |
| `CharacterTables` | the characters of every set, their stand-ins and composed letters | |
| `CharacterSets` | sets designated, invoked and downloaded, renditions, reports, what is typed, pasted, copied | `CharacterTables` |
| `SetUp` | Set-Up, its files, the serial line and a modem | |
| `SetUpFeatures` | every feature, its register, the host's settings and reports of it, and the file | |
| `SetUpMenus` | the menus of the VT500s | `SetUpFeatures` |
| `SetUpScreens` | the screens of the earlier models | `SetUpFeatures` |
| `SetUpWalk` | a visit to a model's Set-Up, key by key | `SetUpMenus`, `SetUpScreens` |
| `TelnetOptions` | a Telnet connection and its server | |
| `TelnetOptionsProofs` | proofs about `TelnetOptions`: types, that the two ends agree | `TelnetOptions`, `Inductions` |
| `Workspace` | the sessions of one window | |
| `WorkspaceProofs` | proofs about `Workspace` | `Workspace` |
| `Inductions` | lemmas: induction and recursion over numbers and sequences, inequalities | |
| `MCWindowLine`, `MCTelnetOptions`, `MCWorkspace` | values of the constants for TLC | the module of the name |
| `MCLatSession` | the same | `LatSession`, `LatTransport` |
| `MCKermitTransfer` | the same | `KermitTransfer`, `KermitPackets` |
| `MCInput` | the same | `Input`, `Keyboard` |
| `MCScreen` | the same | `Screen`, `CharacterSets` |
| `MCSetUp` | the same | `SetUp`, `SetUpWalk` |

The last five have two systems beside each other, of which one is the larger or
takes the results of the other. A behaviour of their `MCSpec` is of one of the two: the other's variable is asleep.

Two refinements are checked, and proved: `LatCircuit` implements `LatDelivery` (`DeliversInOrder`), and
`KermitTransfer` implements `FileTransfer` (`KeepsPromise`).

Most of the modules hold the state of an object of the code in one record, named like the
object (`session`, `emu`, `term`, `ws`), and write a method that changes it as an operator from
record to record under the method's name. A handler that calls several methods is then
the composition of the operators in the order of the calls, in one action. A definition whose
comment says it is a mistake is not used by the model: it is one a property is shown to
catch.

### LAT: `LatProtocol`, `LatSession`, `LatCircuit`, `LatTransport`

The fields of `Session` are those of the record `session`, under the same names
(in TLA+ case). A method of the source calls others on `self` one after the
other, some of them (`spend`, `slot_frame`, `send_typed`) from many places; in
`LatProtocol` each is an operator from record to record and they are composed in
the order the source calls them, so an action of `LatSession` is a whole call,
with every frame it puts out. `send_typed` and `drain` are loops. Each turn of
the first needs room in a window of at most 16, and each of the second takes one
of at most eight messages waiting, so they are written as 16 turns and
8 + 1 turns, each doing nothing once the loop's condition fails. That keeps the
module free of recursion, and so within reach of the proof system; the
constants `Window` and `GapPatience` are assumed to be no more than 16 and 8.

Left out or summed up: bytes on the wire; a message's slots, of which only how
many there are, the credit and data addressed to this end and whether one ends
the session are kept; statistics; service names. `outgoing` and `data` hold
what the latest call produced: the transport takes both before the next.

In `LatSession` the far end is a set of messages, `Inbound`, any of which may
arrive at any time: an honest host, a stale circuit, a duplicate, a number from
nowhere. So what holds there holds whatever is on the wire. In `LatCircuit` it is the host
of `vt-lat/tests/soak.rs` — which takes messages only in order, grants and
spends credit, and clamps it at fifteen — with the retransmission and the ends of
session that `docs/lat-protocol.md` describes and the test's host does not do. The host's
own part that is not in that file is marked external in `PROJECT.json`, as are the wires.

In those two the timers of `Lat::keepalive` are four actions, each taken when the code's
condition on the session holds, at any time; with `Patient` the timers of a second or more
expire only when no frame is in flight, which is what a LAN does. So they allow more than the
clocks do: `LatCircuit`'s `Dead` may take any host for gone that has said nothing for a second.

`LatTransport` has the clocks. `shared` is the source's `Shared`: the session, and `sent`,
`heard`, `held` and `stalled` as the seconds since each was set, counted no further than what
they are compared with. `Flush` sets `sent` if anything was sent, a frame that is not
`Ignored` sets `heard`, and `KeepalivePart` is the whole of `keepalive`: HOLD, then
RETRANSMIT, then DEAD, or else KEEPALIVE.

| In `lat.rs` | Actions |
| --- | --- |
| `connect` | `ConnectTurn`, for each turn of its loop; `ConnectTimesOut` |
| `read_timeout` | `ReadTurn`, for the frame and what is done with it under the lock; `ClocksLookedAt`, unless what was read was text |
| `LatWriter::write` | `KeyWritten`, between any two of these |
| `Drop` | `LatDropped` |
| `wait_while_held` of `session.rs`, which keeps the thread from the connection | `SessionHeld`, `SessionResumed` |

Frames wait in a socket of a few places, with those of other circuits between them. `SecondPasses`
only when a thread that reads has been round its loop and has read what was waiting, because a wait
for a frame is of a tenth of a second; a session that is held reads nothing. The host says something
at least every `HostKeepalive` once it has agreed, until it stops, with or without a word; the wire
may lose that. Three things are asked (`SilenceIsJudged`). `EndIsNoticed`: a host that has gone is
noticed within DEAD of reading, whatever this end sends and the other circuits say. `NeverMistaken`: one that is merely quiet is
not taken for gone. `KeptAlive`: a thread that reads leaves the host for less than KEEPALIVE without a frame.

### The line: `WindowLine`

A thread's place is `at[t]`, and `hand[t]` what it carries between one lock
and the next. A step is what the thread does under one lock, because that is
where another thread can come in:

| In `session.rs` | Actions |
| --- | --- |
| `send_as`: look at the transfer, then at the terminal, then `send_paced` | `PressKey`, `FindPace`, `SendPaced` |
| `send_paced`: under `paced`, queue or let go of the lock and `transmit` | `SendPaced` |
| `transmit`: take `queued`, look at `stopped`, queue or write | `Transmit`, `Write` |
| `pacer` | `Pop`, then `Transmit`, `Write`; `PacerStops` |
| `io_loop`: wait while held, read, `flow`, route to the transfer or the terminal, reply | `WaitWhileHeld`, `Read`, `Xoff` and `Xon`, `FeedTransfer` or `RouteToTerminal` and `Advance` |
| `close`, `set_held`, Set-Up in `view.rs` | `Close`, `CloseLetsGo`, `HoldScreen`, `OpenSetUp`, `ApplySetUp`, `LeaveSetUp` |

`writing` is the only place at which a lock is held from one step to the next,
since a write may block; a thread there holds `queued`. XOFF is an atomic store
and needs no lock, so it may come between. Bytes are numbered by what sent them
and by their place in it, so that order and wholeness can be stated.

### The log: `WindowLog`

`Advance` takes what was captured (`Step.text`), and `LogText` writes it, a step
later; `StartLog` and `StopLog` hold both locks and can come between.

### Kermit: `KermitTransfer`, `FileTransfer`

`end[side]` is a `Transfer` with the `Sender` or `Receiver` in it, its `Source` or `Folder`,
and the slot of the session it is in. `Castings` says which end was told to do what, so that two senders and two
receivers are in the model. `WriteFirst` is `Session::start_transfer`; `Hear` is the I/O
thread reading one packet and calling `feed`; `Expire` is `tick` when the deadline has passed;
`Cancel` and `LingerOver` are the user's and the slot's clearing. `feed` dispatches on
the state like the code (`SenderHears`, `ReceiverHears`), and the operators under it are its methods: `Acknowledged`, `SendData`,
`FileTaken`, `NextFile` and `Again` of a sender, `HearSendInit`, `HearFile`, `HearData`, `HearEndOfFile` and `HearBreak` of a receiver,
`Tidied` and `Fails` of what an end does when it stops. `Lose` and `Damage` are the line.

A file is a sequence of `"x"`, `"cr"` and `"lf"`: the conversion between lines of text
and CR LF is modelled byte by byte, since a carriage return at the end of one packet
belongs with what begins the next. The folder opens, writes, finishes and removes; each may fail except
removing, and a finish that fails leaves the file unsaved. The agreement on checks, long packets and attributes
(`init.rs`) is a choice from `Agreements`; how it is worked out is `KermitPackets`.

The refinement maps how many files the folder has saved to `kept`, the sender's count of files sent to `claimed`, the two ends'
statuses to `outcome`, and a user's having cancelled to `withdrawn`.

### Kermit's packets: `KermitPackets`

A character is its number. `exchange` is one file going from one `Link` to another: Send-Init and its answer, the
name, the attributes, the bytes and the end, each built by the sender (`Built`), put on the line and looked for by the receiver
among what has come (`Take`), whole or in two reads (`Arrive`). Checks, the three prefixes, long packets, the
quoting of parameters, attribute fields, names on both sides and what looks like text are computed as in the
code; `2 ^ i` bits are sets. Once in an exchange something may come in the way: a noise before a packet (`Stray`), a read that ends in
the middle of one, or a character spoilt (`Spoil`), after which the packet is sent again (`GoesAgain`). The settings are those of ends that have been seen —
C-Kermit, G-Kermit, OpenVMS — and some of few words; `MaxCount`, the most that one character counts, is 94 in the code and 18 here, so that
short and long packets are both in reach.

### Input: `Input`

A byte is a symbol for its class, and `Advance` is `Terminal::advance` over a read. `term.p` is `Parser` — every state and
transition of `vt-parser/src/lib.rs`, with the limits of `params.rs` — and `term.e` what of the emulator bears on how input is taken: printer controller
mode with the bytes it holds back, CRM, VT52 mode, the macros, the DCS in hand. The paced
path, which stops after a line that scrolls, and `Recall`, which goes on, are modelled beside the unpaced one
that macros use. `done` records what was performed, in order.

`Receive` is a read, `Echo` local echo of a key, `SetUpPrints` and `SetUpShows` the Set-Up features
that turn controller mode and CRM on, `ClearComm` Clear Comm. A host's `says` is a set of pieces of which any
may come next, cut at the worst places.

`AnyReads`, `PrinterTakesAll` and `DispatchedAsSent`, parts of `HoweverItComes` and `TakenWhole`, compare the code's way
with a reference definition: the same input a byte at a time, a scan for the controller's end, and what was sent.

### Keys: `Keys`, `Keyboard`

`k` is the terminal as far as its keys go: modes, level, programs, user-defined keys, local functions. `Encode` and
`EncodeWith` are what a key sends, `KeyWith` a key pressed with what the host programmed for it, `ProgramKeys` and `LoadUdks`
the DCS sequences with their memory, locks and errors, `KeyDefinitionReport` the answer to DECRQKD. `Keyboard` puts the
PC's keyboard before it: `MapKey` and `MapBind` on the keymap, `FromToml` and `ToToml` its file, `LoadKeymap` with the functions a newer
veetee adds, the editor's `Capture`, `Unbound` and `RestoreBuiltIn`, and `PressKey`, which is the view's handler. Bytes that a
host programs are symbols, memory is 12 bytes instead of 768.

### Screen: `Screen`

`emu` is `Emulator`, `emu.pages` its grids. A cell is blank, written, or written and protected; rows have the
line attribute of `DECDWL`. Every control function that writes, moves the cursor, scrolls, erases, edits,
or changes a page, a margin, a size or the status line is an action under the name of its function
(`Writes`, `Moves`, `Erases`, `Edits`, `Pages`, `StatusLine`, `Resets` group them), with the
dispatch of `mod.rs` as its guard and its clamps in its body. The user's Clear
Display, panning and looking at other pages are there, as is applying saved Set-Up at
power-up and on RIS.

The pages are small, but the relations between sizes are those of a VT420: two
widths, page lengths with different numbers of pages, screen heights both smaller
and larger than a page. Each behaviour keeps to one of nine repertoires, in which the
functions that interfere are together; any order of five of them is explored.

### Character sets: `CharacterTables`, `CharacterSets`

Here characters are their code points, and the tables are the code's in full. `chars.sets` is `Charsets`, `soft` the two buffers,
`attrs` the renditions. `Shown` goes from a code to a character as printing does; `EncodeTyped` and `PasteCharacter` go from a
character to the codes that are sent, `CopiedChar` from what is shown to what is copied. `CursorInformation`, `SupplementalReport` and `SgrReport` are
reports, `RestoreCursorInformation`, `AssignSupplemental` and `SelectGraphicRendition` what is made of them when they are
given back. An action is what a host does: `SCS`, the shifts, `DECDLD`, `SGR`, `DECNRCM`, `DECSC`, resets and changes of level.

### Set-Up: `SetUp`

`term` has the features that something beside Set-Up also changes, `menu` the copy that Set-Up's screens
or menus edit, `file` what is on disk and what is factory, `line` what the port was last told. The UI thread opens Set-Up (`OpenSetUp`), edits the
copy (`Choose`, the dialogs), saves, recalls or defaults it (`Do`) and leaves (`Leave`), after which
`UserSetsLine` and `UserHasSetLine` are `set_line` before and after the port is asked.
The I/O thread is in the middle of a read when the session is held (`Read`, `Step`, `IoSetsLine`,
`IoHasSetLine`, `GoOn`), and watches the modem (`Signal`, `Tick`: `ModemWatch`).
Ticks are coarse: a delay of 2 is the two seconds, 1 the 60 ms, 0 never.

### Set-Up of each model: `SetUpFeatures`, `SetUpMenus`, `SetUpScreens`, `SetUpWalk`

`SetUp` has the few features that something else changes too; these have all of them, for all eight models. A feature
that is on or off is a name in `on`, another a value in `at`. `ApplyFeatures` puts them in the terminal's registers, `SetupFeatures` reads
them back, `SelectedBy` and `Reported` are the host's settings (`vt520.rs`) and the reports of them, `ToText` and
`FromText` the file. `SetUpMenus` has the menus item by item, with what is dimmed, where the boxes lie and what each key
does; `SetUpScreens` the screens field by field. A visit of `SetUpWalk` begins from a file and one thing a host may have
said, and then takes any keys.

### Telnet: `TelnetOptions`

`options` is the `Options` that both halves share under a lock. `Read` decodes what has come and answers under the lock;
`WriteReplies` writes the answers after it is let go. `Write` and `SendBreak` encode under the lock and
`WriteOut` writes; `SetLine` and `Resize` are the two calls from outside. The server is external and
modelled from the protocol: it answers requests, may make some of its own and may be of the old kind that
answers every request. Each direction is a sequence, since TCP keeps order.

### The window: `Workspace`

`ws` is the `Workspace` with its panes. Everything runs on the UI thread, and a handler is one action; what
is interleaved is what happens between them: `attempts` are connections being
opened by threads of their own, `notices` sessions that have ended and whose message has not been handled yet,
and the bar of a file transfer has its pollers and its clearing timers (`TransferTimers`). The models of terminal
are given by how many sessions they take: one, two or four.

`recent` is the order the sessions were last active in, the latest last. The list of sessions the user is shown is sorted
by it: `Sooner` says when a session that is no longer in it comes after one that is, and `AheadOf` counts those ahead
of a session, so that the first to be shown is the one with none ahead.

## The runs

`CHECK_DEADLOCK FALSE` is given wherever bounds on what is typed, said, lost or done
end every behaviour; a session that is over does nothing more. `kermit_transfer` checks deadlock.

| Run | Question | Bounds |
| --- | --- | --- |
| `lat_session` | Do the session's invariants survive any far end; do the clocks tell a host that has gone from one that is quiet? | numbers 0–5, so they wrap within a run; credit 3, full reckoning every 2 messages, window 2, patience 2, slots of a byte, 2 to a message, keys of 2 bytes; frames arrive while 1 message is unacknowledged and no allowance is held, which each handler can then exceed in one step; of the clocks, RETRANSMIT 1, HOLD 2, KEEPALIVE 2, a host's longest silence 3 and DEAD 9 seconds, a socket of 2 frames, 1 key, 1 text, 1 frame lost besides those the socket has no room for |
| `lat_circuit` | Does the session, with a host that ends it, implement `LatDelivery`; are both reckonings of credit safe; is nothing typed lost; is the end read last? | numbers 0–11; 2 keys, 2 texts, 6 frames in flight each way, 1 loss or swap |
| `lat_live` | Does what is typed and said arrive, and does credit return? | 1 key, 2 texts, 1 loss, credit 2; a host that grants nothing of itself, so that every key waits for HOLD and asks |
| `window_line` | Order, wholeness and XOFF over the three threads | 2 keys of 1 or 2 bytes, a report of 2, chunks with XOFF, XON or both |
| `window_live` | Are keys sent and threads let go? | 1 key, 1 packet; Hold Screen, transfers and closing |
| `window_log` | Is the current log whole, and are logs disjoint? | 5 pieces of text, 3 logs |
| `kermit_transfer` | Is what is kept whole and what is claimed kept; do both ends stop, and a transfer with little trouble go through; are packets read as they were sent? | 2 files, of 6 bytes and of 2; packets that hold 3 to 8; retry limit 2; 2 faults of the line, 2 cancels; sequence numbers 0–7, so they wrap; of packets, one file's between 14 pairs of ends, 6 names, bytes of each class, and one fault |
| `screen` | Does everything stay inside the page, whatever changes size; is the status line left alone; does a state report restore; are characters typed, pasted, copied and reported as shown? | widths 4 and 6, lengths 2 and 3, heights 2 and 4, 3 pages; 5 functions of a repertoire, from every saved Set-Up; of character sets, 11 terminals and hosts with 2 or 3 acts, 8 downloads, 9 renditions, and each of the 12 national keyboards |
| `input` | Does it matter how input is cut; does the printer get all and only what it should; does one sequence leak into another; do macros end; do keys send what they are bound and programmed to? | 2 parameters, 2 macros in 6 bytes of memory, macros 2 deep, columns 2; 4 reads, of 6 to 9 pieces to choose from; of keys, 2 acts from 9 starts of the host, the user or the editor |
| `workspace` | Is the window's bookkeeping true of its sessions whatever comes late; does a transfer keep its line; is an end shown? | 2 and 4 sessions at once, 4 panes in all, 3 transfers |
| `telnet` | Do the ends agree in the end, is text unchanged, does negotiation stop? | 2 requests of the server's, 2 sizes, 2 characters each way, 3 line settings |
| `setup` | Is the line as Set-Up shows it; is what was saved on file; does a visit without changes do no harm; does the delay run; is all of Set-Up in reach and kept? | 2 visits of 3 keys; 1 or 2 reads; 3 changes of a signal; walks from 8 pairs of a model and a file, with any number of keys that only move and 2 more after the first that changes something |

Most properties are conjunctions of named parts that ask one question of one
component together:

| Property | Parts | Says |
| --- | --- | --- |
| `LatSession!SessionSound` | `TypeOK`, `EarlyWaits`, `AllowanceKept` | what waits behind a gap is really ahead of it, and nothing typed is sent past the far end's allowance but the one slot that each expiry of HOLD lets go |
| `LatSession!NeverUndone` | `HeardNeverRewinds`, `ClosedIsFinal` | the number heard never goes back over one that was taken, and nothing revives a closed session |
| `LatTransport!SilenceIsJudged` | `ClocksOK`, `EndIsNoticed`, `NeverMistaken`, `KeptAlive` | a host that has gone is noticed in time whatever keeps going, one that is quiet is not taken for it, and the host hears from this end in time |
| `LatCircuit!CreditsReckoned` | `CreditReckoned`, `AllowanceReckoned` | what one end thinks it has granted and what the other has differ by what is in flight |
| `LatCircuit!NothingIsLost` | `NothingTypedIsLost`, `EndComesLast` | typing is with the host, on the wire, or still to be sent; the end is read after all text |
| `LatCircuit!HostIsHeard` | `TextArrives`, `CreditComes` | what the host says is shown, and a host with nothing to spend is granted more |
| `WindowLine!LineWhole` | `TypeOK`, `SentInOrder`, `SequencesWhole` | each sender's bytes leave in order, and no other's come in the middle of its sequence |
| `WindowLog!LogsWhole` | `TypeOK`, `CurrentLogWhole`, `LogsDisjoint` | nothing shown while a log runs is missing from it, and no text is in two |
| `KermitTransfer!FolderSound` | `FilesWhole`, `NothingLeftBehind` | a file reported saved has the bytes of the file sent, and an end that has stopped leaves only whole files unless the disk failed |
| `KermitTransfer!EndsWell` | `TransferEnds`, `GoesThrough`, `NeverGrowsBack` | both ends stop; with no more trouble than there are tries, no cancelling and no failure of the disk, everything is saved and both say so; packets that were made smaller stay so |
| `KermitPackets!PacketsSound` | `AgreeAlike`, `ReadAsSent`, `GoesOnLine`, `NameIsSafe` | both ends reckon on the same; what was sent is what is read, whatever is on the line; no packet is longer than its reader takes; a name makes a plain file in the folder |
| `Screen!ScreenSound` | `EverythingFits`, `PagesWhole` | what is kept beside the page (cursors, margins, tab stops, windows) fits it, and all pages of memory are of one size with one place empty for the page in use |
| `Screen!AsideKept` | `StatusLineAside`, `ReportRestored` | what is written on the status line leaves the page and the cursor kept for it alone; a state report given back restores what it told |
| `CharacterSets!CharactersSound` | `TypedIsShown`, `PastedPlainly`, `CopiedPlainly`, `ReportsGiveBack`, `SoftIsFound` | a character typed is shown when it is echoed; a paste controls nothing and loses nothing; no private code point is copied; reports given back restore; a downloaded set is found under its name |
| `Input!HoweverItComes` | `AnyReads`, `MacrosSound`: `MacroRunsInPlace`, `MacrosFit` | it makes no difference how input is cut; invoking a macro does what its text would in its place, and its memory is never overdrawn |
| `Input!TakenWhole` | `PrinterTakesAll`, `DispatchedAsSent` | the printer gets all that it should and nothing else; what is performed is what was sent |
| `Keyboard!KeysSound` | `AllWithinReach`, `KeymapKept`, `TakenOrLeft`, `ReportsGivenBack`, `ReportedAsSent`, `ToldApart` | every key is on the PC's keyboard, and keeps its binding through the file; programs are taken whole or not at all, within memory; reports tell what is sent; keys can be told apart |
| `SetUpWalk!SetUpSound` | `MenusSound`, `ScreensSound` | wherever keys have led, the cursor is on something that can be chosen, one button is on, and all of it is on the page |
| `MCSetUp!SavedAndKept` | `SavedAsFiled`, `FeaturesKept` | what was saved is on file; every feature comes back from its register, from the file, and from the host's settings |
| `Workspace!WindowSound` | `TypeOK`, `KeyboardOnScreen`, `WithinModel`, `UnseenBlinks`, `TransferInView` | the keyboard's session is on the screen, sessions are no more than the model's, unseen output blinks, and a transfer that runs can be seen and stopped |
| `Workspace!LaterOnesKept` | `TransferKeepsLine`, `LivesOn` | a late timer or notice ends nothing that began after it was set |
| `TelnetOptions!BothAgree` | `Agreed`, `NothingUnagreed` | once nothing is in flight each end has the other's view of every option, the size included, and no size was sent where none was agreed |
| `TelnetOptions!TextUnchanged` | `KeysAsTyped`, `ShownAsSaid` | the server hears what was typed, and what it says is shown, however it is cut |
| `SetUp!VisitHarmless` | `LeavesAsFound`, `HostWaits` | a visit that changes nothing changes nothing, and while Set-Up is open the host's output waits |
| `SetUp!CarrierTimed` | `EndsAfterWholeDelay`, `CarrierLossEnds` | disconnected after the whole delay and not before |

The bounds are enough for the cases of the code to happen. Two keys and two
texts are the fewest that can be put out of order; a loss with several frames in
flight gives a gap, a duplicate by retransmission and a repeat that crosses an
acknowledgement; a swap gives reordering with no loss. In `lat_session` the
numbers wrap several times, and each of the window, the patience, the reckoning
and the retransmission limit is reached. The clocks keep the order of the source's limits, 1, 3 and 10 seconds of its own
against a host's 20 and the 60 that are three of those, so that each can expire before the next, a keepalive of
the host's can be lost without harm, and a session can be held for longer than DEAD. In `window_line` every pair of
the three threads can meet at each lock; two bytes to a key are the fewest that
something could come between. In `kermit_transfer` the packet size grows from
the first size to the long one and is halved again, the file spans several packets with a CR and its LF in two
of them, and one more fault than a retry allows for happens. In `screen` a page can be
narrower and shorter than margins that were set on it, and a screen shorter and longer than its page.
In `input` each piece is also cut from what follows it, every limit is exceeded by one, and a macro
can call itself; programs of keys are met that have room and that have none. The tables — character sets, keys,
menus, screens — are not cut down: the properties of characters and keys look at every entry in each state, and the keys of a walk
that only move reach every item. In `workspace` a pane can be closed while it or another connects, and a second and third transfer start
before the first's timers have run. In `setup` the line can be set by both threads at once and refused to both.
Every action of every module is taken in some run. Each property is also shown to fail when the
code has a plausible mistake in it: the mutants, beside the definitions they
alter.

Counts are bounded where they would grow (typing, keys, texts, losses, forced slots,
frames on a wire, functions, visits), each by a constant marked "bound" where it is declared.

## Fairness

`LatCircuit!FairSpec`: a frame in flight is read in the end (the I/O thread
loops), and each of the session's timers fires if what it waits for lasts: the
loop runs `keepalive` at least every 100 ms, and `GoneDue`, that a host that has gone is noticed, is what
`EndIsNoticed` says of the clocks. The host acknowledges and hears,
and repeats what is not acknowledged (strongly: frames go on flying meanwhile).
Losses are bounded, so that a repeat gets through. Nothing obliges anyone to
type, or the host to speak or to go.

`WindowLine!FairSpec`: each thread goes on with what it began, since nothing but a
lock stops it; taking the lock on `queued` is strongly fair, as another thread may
take it in between; a write ends. The host that has sent XOFF sends XON
if it is read often enough — without that nothing stopped need ever be sent — and
`KeysGoOut` supposes too that the user does not hold the screen for ever.

`KermitTransfer!FairSpec`: each end writes its first packet, hears what is on the
line and acts on a deadline. It is written `[]<>~Can \/ []<><<A>>_vars`, weak fairness with
the guard spelt out, which is far cheaper for TLC than ENABLED over large actions; the guard
is the action's own. Deadlines that come first expire first (`due`), and a first packet is written before
the other end has come near the end of the sequence numbers. The line's faults and the users' cancels are bounded and not fair.

`Workspace!FairSpec`: a session's end is handled in time, since the UI thread takes its messages as they come.
Connecting, timers and the user owe nothing.

`TelnetOptions!FairSpec`: both threads go on, and the server hears what it is sent. It need not ask, say or accept anything.

`SetUp!Fairness`: the I/O thread's loop goes on, the UI thread finishes leaving Set-Up once it has begun,
and time passes. Nothing obliges the user to leave Set-Up, or a signal to change.

`Screen` and `Input` have no liveness: each action is a whole call that returns. The smaller systems beside the
large ones (packets, keys, character sets, walks) are not fair, so only what is always so is asked of them.

## What is proved

For every value of the constants that the assumptions of the modules allow, and,
in `LatSession`, for every set of messages the far end may send:

| Theorem | In | Property |
| --- | --- | --- |
| `TypeCorrect` | `LatSessionProofs` | `TypeOK`, a part of `SessionSound` |
| `NothingKeptIsSkipped` | | `KeptInOrder` |
| `TypingKeepsToWindow` | | `TypingInsideWindow` |
| `CreditIsRestored` | | `CreditAboveLowMark` |
| `CircuitIsOwed` | | `CircuitOwed` |
| `GapsAndAllowance` | | `SessionSound`, all of it |
| `HeardAndEndedForGood` | | `NeverUndone` |
| `CircuitTypes` | `LatCircuitProofs` | `TypeOK` |
| `TypedIsKept` | | `NothingTypedIsLost`, a part of `NothingIsLost`; while `Prompt` |
| `AllOfItIsKept` | | `NothingIsLost`, all of it; while `Prompt`, and with `HostWindow <= GapPatience` |
| `KeepsThePromise` | | `DeliversInOrder`: `LatCircuit` implements `LatDelivery`; while `Prompt` |
| `GrantsAreKept` | | `AllowanceReckoned`, a part of `CreditsReckoned`; while `Prompt` |
| `CreditIsReckoned` | | `CreditsReckoned`, both parts; while `Prompt`, and with `HostWindow <= GapPatience` |
| `LockHasOneHolder` | `WindowLineProofs` | `TypeOK`, a part of `LineWhole` |
| `NothingIsLeftWaiting` | | `NothingWaitsUnstopped` |
| `XoffStopsAllButOne` | | `OneWriteAfterXoff` |
| `LineInOrder` | | `LineWhole`, where Set-Up does not change the pace |
| `CapturesForALog` | `WindowLogProofs` | `TypeOK` |
| `NothingShownIsMissed` | | `CurrentLogWhole` |
| `LogsShareNothing` | | `LogsDisjoint` |
| `LogsAreWhole` | | `LogsWhole`, all three |
| `WindowFits` | `WorkspaceProofs` | `WindowSound` |
| `LeftoversHarmless` | | `LaterOnesKept` |
| `FromLineJoins` | `KermitTransferProofs` | (a text read in pieces is read as if in one) |
| `ThereAndBack` | | (what is read of a text that was sent is `Local` of it) |
| `NeverApart` | | (the invariant `IInv`) |
| `LeavesNothing` | | `NothingLeftBehind`, a part of `FolderSound` |
| `KeepsWholeFiles` | | `FolderSound`, all of it; where every packet has room for something (`Roomy`) |
| `DoesAsPromised` | | `KeepsPromise`: `KermitTransfer` implements `FileTransfer` |
| `ShorterForGood` | | `NeverGrowsBack`, a part of `EndsWell` |
| `TelnetTypes` | `TelnetOptionsProofs` | `TypeOK` |
| `EndsAgree` | | `BothAgree` |

In `LatSession` none of the properties is inductive alone. A handler breaks the credit
invariant in the middle and mends it before it returns; the window stays ordered
only if the number last sent is that of the last message kept; and types are
needed all along. The invariant `IInv` is therefore about the record, `Sound`,
and there is a lemma for each operator of `LatProtocol`: what it needs of the record
and what it gives. The lemmas follow the calls, from
`slot_frame` up through `spend`, `send_typed`, `take`, `drain` and `receive`, and
the theorem that `Next` preserves `IInv` has a step per action. The loops need
no induction: a turn keeps the record sound, so 2, 4, 8 and 16 do.

What waits behind a gap needs one thing more of the record (`Waits`): that each number waits once, that what waits in an open
session is ahead of the number heard and not next after it, less of it than the patience, and that nothing waits before a call
is answered. `drain` takes the messages one by one, and the number heard moves
under those that are left; distances between numbers that wrap are what the lemmas there are about. That the
allowance is kept is a bound on `allowance` by how often HOLD has let a slot go without credit (`Reading`): every operator
leaves it no lower than it was, or no lower than nought, but that one. `NeverUndone` has the same lemmas read
from one state to the next.

In `LatCircuit` there are two ends, and what each knows of the other has to be found in every frame on the wires. Numbers wrap, so
"newer" means something only of numbers less than half the span apart; that is the hypothesis `Prompt`: less than half
the numbers are kept unacknowledged, and no frame is on its way so long that the far end is half the numbers further. The code does not count
on anything else either (`newer`, `vt-lat/src/watch.rs:30`); what makes it true is the timers, which send again every second and give up after
thirty, and a LAN that holds a frame for milliseconds. TLC finds `Prompt` true of every state of `lat_circuit` when it is added to the invariants there.

What is typed (`Typing`): the messages kept have the last numbers used, those that the host has not taken carry the bytes after those it has, and
what waits to be sent comes after them (`Sender`); a message on its way that is still new to the host is kept, and nothing on its way here
acknowledges more than the host has. There is a lemma `…Keeps` for each operator of `LatProtocol`, all of one form: what was kept still is,
everything sent since has a number, and typing that was in order is.

What the host says (`Hearing`): the messages that the host keeps have its last numbers and carry its text in order
(`Saying`); what this end has heard is no older than they are, and what waits behind a gap is the host's, newer than what is heard, no number
twice (`Reader`, `Tidy`); every frame on its way here says what the message of its number said (`Matches`), and every frame on its way there
acknowledges no more than is heard (`Heeded`); the screen goes as far as what is heard (`ShownTo`). A host that has gone forgets everything
while its frames still come, so the invariant is about the host as it was when it went. The lemmas `…Reads` say of each operator
that it shows what was said between two places and nothing else. A gap is given up only where `GapPatience` messages wait beyond it; when the host
keeps no more than that, the missing one among them, they cannot all be waiting (`ManyWait`), so
with `HostWindow <= GapPatience` nothing is missing, and the end of the session, the host's last message, is read last. With a larger window a gap may be given up,
which `LatDelivery` allows for (`MayGiveUp`), and then `EndComesLast` does not hold.

`KeepsThePromise` maps each step on one of `LatDelivery`'s: a key is typed, the host takes what is next, it says something, a frame
read shows the text from one place to another; all others are stutters.

Credit is reckoned in sums (`Reckoned`), over what each end keeps and not over the wires. The messages kept here fall in two where the host's acknowledgement of what it
has taken cuts them (`Gone`), the host's where what is heard does (`Place`): what this end may still send, with what it spends on messages the host has not taken and what the host's unheard ones grant,
is no more than the host has granted (`PaidUp`); and what it believes the host has left, without the credit on messages the host has not taken, is no more than that and the slots still to
be counted (`AllCounted`). The lemmas `…Even`, `…Counts` and `…Reckons` say of each operator what it does to the two sides: to send moves
credit from one account to another (`Even`), to read a message takes what it grants from what is coming and counts its slots, whether it comes next or has
waited behind a gap. A sum is a recursive function of how many places it takes, and that the rest of a sequence sums up to the rest (`SumAfter`) is
shown by `NumbersUpTo`. `HostCut` says that the host forgets none of its messages that are not heard. Whatever gap is given up, `PaidUp` holds; `AllCounted` needs that none is, for the reason
[below](#where-the-code-and-what-it-says-of-itself-differ).

In `WindowLine`, `OneWriteAfterXoff` is not inductive: that a second write cannot
follow needs the lock to be free once the first has been made, and no write to
have been counted before XOFF came (`Stopping`). The proof has a lemma for each
thread, first for the types, with the single holder of the lock among them, and
then for `Stopping`; only `Transmit`, `Write`, `Xoff` and `Xon` disturb it.

`LineWhole` is about the bytes that have left, and what keeps it is about the bytes on their way. Laid end to end, `line`, what is
queued behind XOFF, what the pacer has in hand and what waits for the pacer are one sequence, `Stream`; the keys in it are in
the order they were pressed and each sequence is in one piece (`Carried`). A step of a thread either moves the place
where this sequence is cut or adds a whole message to its end. Why only there, and never into the middle of a key or a report, is `Routes`: while
the terminal's sending is limited all that goes past the pacer is a transfer's, otherwise the pacer has nothing
(`Limits`, `Kept`); a thread at rest has nothing in hand (`RestingEmpty`); and whoever has the line found nothing queued
(`NothingQueuedBehind`). That a key cannot pass those with the pacer holds only while the
pace stays what it was, and the theorem has that as its hypothesis, `"limited" \notin Changing`: a limit that Set-Up lifts while keys wait lets the next key
go round them, which is `window_overtakes`, below. The run that checks `LineWhole`, `window_line`, has it too.

In `WindowLog` the invariant says where each piece of text is. What is in hand
was shown before what is captured, both after what the log in progress has, and no
piece is in two places (`InOrder`, `InOnePlace`); a log not yet started is
empty and none began later than now (`Begun`). `CurrentLogWhole` then follows step by
step, since each action either adds the next number to the end of what is coming to
the log, or moves text along without changing it.

In `Workspace`, a window that is sound now is not enough either. A session that is being opened will be put into it later, by
a handler that looks at nothing again: so `IInv` has of the attempts in flight that there is at most one, that one for a
new session began while there was room for it, and that one for a pane there is has that pane ended (`OneAtATime`). What is on the
screen is a pane each, in the order it was (`InView`); of sessions whose end has not been handled, that they have ended; of each poller
of a transfer, that its button has a handler (`InHand`). There is a lemma for each handler of the code, under it one for each
method it calls; most break one part and mend it before they return. `LaterOnesKept` is proved from `IInv` one step at a
time (`LaterKept`): a timer clears only the transfer it was set for, and numbers are never used again.

In `KermitTransfer`, `FolderSound` says only what is in the folder, and why the next packet cannot spoil it turns on all the rest. The
invariant `IInv` is about a sender `S` and a receiver `R` together (`Matched`). They are never more than one packet apart: `R` waits for the packet
that `S` holds (`Level`) or has taken it and waits for the next (`Ahead`), and which of the two says what state `R` is in (`Stance`). On the way to `R` there
are copies of the packet held and, before them, of the one before it, and that only while `R` would know it for a repeat (`OnWire`); on the way to `S` an
answer to the packet held comes only from a receiver that is ahead, and no older word after it (`OnReturn`). Numbers wrap, and the three that are in use at one time
are different because the span is more than 3. Of the file that is going, what the folder has of it, what is in the packet held, if `R` has not
taken that yet, and what has been read and not sent yet are together what has been read, converted (`Contents`, `Reading`): so
nothing is missing, doubled or cut, and a carriage return kept back at the end of a packet is in none of them twice. While nobody has
cancelled nothing is discarded, and what `S` counts is what is saved, or one less when the receiver is ahead at the end of a file (`Counts`). Two ends that
have been told the same do nothing but repeat their first packets (`Alone`). There is a lemma for each operator of the module; a step of either end's takes
a matched pair to a matched pair (`SenderHearsSteps`, `ReceiverHearsSteps`, `ExpireSteps`, `CancelSteps`), and what is lost, damaged or late makes the wires only poorer.
`DoesAsPromised` then maps a step to one of `FileTransfer`'s from `Counts` and the two statuses; `ShorterForGood` has
of the invariant that a sender's ceiling is no more than half of the least that had to go again, or the least size.

The conversion of lines is a recursive function over the bytes of a text, and what it does with any text has to be shown by induction
over texts. The induction theorems of the library cannot be used here, but their set form can be shown: a set of sequences that has the empty one and is closed
under one element more has them all (`SequencesUpTo` of `Inductions`), from the fact that a set of numbers that is not empty has a least (`LeastNumber`). `FromLineJoins` and `ThereAndBack`
follow, for texts of any length with carriage returns and line feeds anywhere in them.

In `TelnetOptions`, `BothAgree` is about the moments when nothing is on its way, and what makes it so is about all the others. Of one option at
one end, whoever asked first and however the requests crossed, there are only twelve ways it can stand: what each end believes, what each
waits for, and the words yes and no about it that are on their way in either direction, in order (`Standing`). What the reading thread has decoded and not
written yet counts as on its way to the server. `InTouch` says that every option of ours and of the server's stands in one of them, that only options this program
knows are on or asked for, and that sizes keep to the option they are about: none is on its way before the word that it is on or after the word that it is
off (`Orderly`), and the last of them is the page's (`LastSize`). Both threads write to one connection, and the proof has to say why it does not matter which writes
first: what the writing thread has in hand is never an order or a size (`TypeOK`: `writing` has characters, Break and line settings only), so the words are the same
wherever it comes between the others (`Inserted`). A chunk is decoded one thing after another by a recursive function, and `DecodeFollows` shows by induction over the
chunk that each leaves the two ends in touch. TLC found `IInv` true on the instance of `telnet` before it was proved.

Assumed of the constants, of a line: the settings are settings, keys send a byte at
least, and chunks have the shape `Read` expects; of the logs, that there is one. Of
a LAT session and its circuit: the span of numbers is more than 3, the credit, the reckoning and
the slots' sizes are positive, the window is at most 16 and the patience at most
8 (as unrolled), this end's identifier is not nought, and what
may arrive has the shape the parser gives it; the host keeps at least one message and fewer than half the numbers; of a window, that its model takes one session at least and that the bounds are numbers.
Of a Kermit transfer: there are two sides, files are sequences of bytes with a mode each, the span of numbers is more than 3, rooms, sizes and tries are numbers, and
the least size is at least 2 and no more than the first. Of a Telnet connection: the server asks only about options that are named,
its flags are Booleans and the bounds are numbers. `KeepsWholeFiles` alone assumes more, that `ShortRoom` and `LongRoom` are not nought, and what happens
otherwise is [below](#where-the-code-and-what-it-says-of-itself-differ). TLC found `IInv` of the transfer true on the instance of `kermit_transfer`, and on it with `LongRoom = 0`, before it was proved.

Only model-checked: `LatTransport` counts seconds up to limits, of which TLC's instance has every one. `Input` takes what is read with folds of a library, over an operator, which induction over sets of sequences does not reach as
it does the recursive functions of `KermitTransfer` and `TelnetOptions`. Of `TelnetOptions`, `TextUnchanged` is about all that was typed and said
since the start, through an encoder that starts anew with every write, and about changes of binary mode on the way; it is left to TLC's instance. `Screen` and `SetUp` have many independent
parts and small invariants, where TLC's instances say most. `KermitPackets`, `Keyboard`, `CharacterSets` and `SetUpWalk` are mostly data.
All liveness is beyond the prover: of the components with proofs that is `HostIsHeard` and `TypingArrives` of the circuit,
`KeysGoOut` and `ThreadsEnd` of the line, `EndIsShown` of the window, and `TransferEnds` and `GoesThrough`, the rest of `EndsWell`, of a transfer,
and `Settles` of a Telnet connection.

## Where the code and what it says of itself differ

Seven configurations that are not in the table of runs each check one statement of a comment, a document
or a test, and TLC finds it violated: run them as `tlc -config <name>.cfg <module>`. The statement is
a definition of the module, with its source beside it.

| Configuration, of module | Statement | What the code does |
| --- | --- | --- |
| `lat_idle_credit`, `LatCircuit` | credit lets typing that waits out | not credit that comes without text |
| `lat_starved`, `LatCircuit` | the regular reckoning tops the host's credit up | a host left without credit is not always granted more by it |
| `window_overtakes`, `MCWindowLine` | a key waits behind those with the pacer | a key can pass the last byte of one that is still with the pacer |
| `window_keys_in_transfer`, `MCWindowLine` | nothing typed goes out during a transfer | keys waiting with the pacer go out during a transfer started later |
| `window_log_stop`, `WindowLog` | a log has all that was shown before it was stopped | text in the I/O thread's hand when a log is stopped goes to no log |
| `kermit_done`, `MCKermitTransfer` | Done: "Every file went, and the far end knows it" (`transfer.rs:118-119`) | a receiver can discard the last file at its end (583-605) after the sender has counted it |
| `setup_recall`, `MCSetUp` | Recall returns every feature to its saved value (`setup.rs:136`) | answerback and keyboard dialect stay when nothing is saved |

`Workspace!SetUpOfItsNumber` states one more, that a session has the Set-Up of its number
(`docs/sessions.md:56-57`): the number is chosen when it starts to open and again when it has
(`workspace.rs:508`). Five more are in their modules likewise, each violated under the constants of its component's run:
`Workspace!NoStraySession`, that a reconnected session takes the dead one's place (`workspace.rs:862-865`), where if that pane was closed meanwhile
the new session is dropped unclosed (892); `TelnetOptions!LineAsSet`, that the line settings go to the server when set, or when it agrees, where
settings made between its agreeing and the answer's being written can go out before it, and the older ones stay (`telnet.rs:597-632`, 506-520);
`Screen!HostKnowsTheSize`, that the host is told the size when it changes (`mod.rs:37`, `session.rs:955`), where RIS with
a saved Set-Up of another size tells nobody (`mod.rs:845-848`, 1771-1792); `Input!OneScrollPerStep`, that a step "stops after the first line that scrolls"
(`mod.rs:174-176`), where a macro scrolls as often as it likes; and `SetUp!PageAsShown`, that Set-Up shows the columns the page has
(`setup.rs:136`, 142), which DECCOLM that is not allowed, or a reset, makes different.

Met while modelling, without a configuration of their own:

- LAT. If the host's very first message is lost there is no
  number to see the gap against, and what it said is never shown (`session.rs:737` of `vt-lat`): `TextArrives` and
  `CreditReckoned` leave the case out. A gap is to be counted as missed when it is given up (`session.rs:666-668`), but where the message
  that is read in spite of it is an empty acknowledgement `take` returns (756-759) before it spends what was missed (816): until
  the next `REGRANT` the host is believed to have credit that it has spent. With `GapPatience = 1` and the window of 2, TLC finds
  `CreditReckoned` violated in 14 states; with `HostWindow <= GapPatience` nothing missing is given up on, and it is proved. HOLD runs from when typing began to wait and is not reset by a grant that lets
  part of it go (`vt-transport/src/lat.rs:895`). "A node that is merely quiet is never mistaken for one that has stopped" (601-602 there), but
nothing is read while Hold Screen or Set-Up keeps the thread from the connection, and `heard` stands still (934). After a minute of that the host's
keepalives are waiting in the socket, and the session goes on only if one of them is read first: where the first read gives a frame of
another circuit, `keepalive` ends the session. Nor is a keepalive sent meanwhile, for which the host may end it. `NeverMistaken` is
of sessions not held for as long as the host may be silent; without that, TLC finds it violated in `lat_session`. Two comments are out of date and change nothing: `vt-lat/src/session.rs:792-796`
  says nothing spends the allowance, and `docs/lat-protocol.md` says in one place that veetee does not count its own credit.
- Line and logs. Turning flow control off in Set-Up does not release a line the
  host has stopped (`session.rs:720`). Text that was in the I/O thread's hand when a log started goes to that log although
  it was shown before: `CurrentLogWhole` allows it.
- Kermit. A sender that is cancelled and whose Break goes unanswered ends Done (`transfer.rs:803-808`). A transfer lingers 2 s
  (`files.rs:225-228`) for a repeat that may come 10 s later (`init.rs:87`). A file its sender discards (D) makes
  the receiver cancel the rest (583). A receiver that has agreed on the longer check naks with it, which a sender still in its first packet cannot read.
  A far end whose packets leave no room (the length is taken as it is said, `init.rs:171`, 216, and the room stops at nought, `transfer.rs:237-242`) is not refused: with no room
  nothing is read (926-927), so `send_data` takes the file for one at its end (940-943) before it comes to "the other end's packets are too short to carry
  anything" (944-946), and the far end keeps an empty file that both report done. With `ShortRoom = 0` in `kermit_transfer.cfg`
  TLC finds `FolderSound` violated in 7 states, and `KeepsWholeFiles` assumes `Roomy`.
- Packets. Until a file has begun the receiver reads a packet with either check, so that a damaged one can pass for one with the check of a single
  character: `Spoil` leaves those out. Attributes are not cut to the length the far end takes.
- Screen. DECSCPP to 132 columns leaves the right margin at 80 (`mod.rs:1049-1066`, against 1028). Seven-bit IND, NEL and RI do not end
  a line of the log (2151-2160, against `capture.rs:1-4`). A pending wrap stays when a line becomes single width or DECLRMM is turned off.
  RIS after DECSLPP sets the screen's lines to the page's, so that a report taken then cannot be restored by DECRSTS: `ReportRestored` takes only
  reports with a height that can be selected. Applying Set-Up on a VT500 picks the next page length. RIS drops the lines gathered for auto print, and resets the count of
  sessions (833, against `reports.rs:105-109`).
- Character sets. `softfont.rs:72-73` says that of two buffers of one name the one loaded last is found: it is the second, which may have been loaded
  first, and font 0 puts the 132-column rendition of a set into the second buffer when the first has its 80-column one, which is then out of reach. A downloaded set named with two
  intermediates can be loaded and never designated. With a national keyboard the sets are ASCII at power-up, so an `ä` typed shows as `{` until
  the host designates the national set. A national set still designated after DECNRCM is reset cannot be given back by DECRSPS, nor a downloaded
  one whose buffer was loaded again with another size. DIM, bright and RGB colours and invisible are not in the reports. A VT52 shows an 8-bit
  character that was typed without its eighth bit. DECFRA goes by GR with national characters too (`rect.rs:120-122`).
- Keys. What DECPAK programs, and the answerback, are sent while the keyboard is locked. DECRQKD takes no account of user-defined keys and of copies
  of DECCKD. The report of a key that is not programmed, given back, programs function 0, and one of a key with an empty code in it leaves that code undefined: `ReportsGivenBack` is of
  programmed keys without one. What a local function given to the host does is not carried out. A local function whose last binding the editor removes is back after the next start (`add_new_functions`, `keymap.rs:64`), and Ctrl+Shift+C, V, M and F go on
  without a binding (`control_character`). The editor's keyboard has no auto print, sessions or split: only Restore brings those back.
- Input. The unpaced way does not bring the parser up to date after the printer controller's and CRM's branches (147-172), while the paced one does.
- Window. A second transfer that is over within 3 s of the first's report is cleared away before its poller sees it
  (`workspace.rs:1715`). One started within 250 ms of another's end is told twice, and its Cancel connected twice. A transfer
  whose connection closes is never told it has ended. `to_open` keeps what was left after a session could not be opened.
- Telnet. The race of `LineAsSet` can also send a setting after the server has withdrawn the option. The flag for binary
  is read by the writer before a WILL or WONT that arrives in between. WONT and DONT of options that are not known are answered each time.
- Set-Up. Opening Set-Up in Local takes the hold it finds for the user's, so that back On Line the session stays held (`view.rs:1096-1098`,
  against 1077), and Hold Screen in Local releases it despite the comment at 1095. Reset Session does not refresh the menus' copy. A change by the host
  in the chunk in hand, or a refusal of the port's, is undone on leaving (1086). The status line's "Disconnected" is written over. Of
  two DECSFC in a read only the last is kept. A refusal in `set_line` can write over a choice made meanwhile. A DECSCS typed in Local changes the
  features and not the line. Leaving Set-Up with nothing changed resets the character sets the host designated, coarsens a volume that it set, and ends DECNRCM where there
  is no national keyboard: `PutBack` allows the last. A repeat rate of 6 to 15 is shown, and put back, as the fast one (`setup.rs:349`). DECSDDT, DECARSM and DECSLCK do not reach the features that Set-Up
  shows. An energy saver of an hour can be chosen and is reported, but DECSEST refuses it: `FeaturesKept` leaves it out. Keypad and cursor-key application and two sessions are not saved. The tab
  ruler's cursor can stand past the page after 132 columns became 80. `CSI ? 101 l` from the host shows a concealed answerback (against `screens.rs:587`). A carrier that is away, returns while
  the session is held and goes again counts as away all along. A VT420 drops speeds above 38400 that Save wrote.

## What is not modelled

Left out of the modules that exist: `set_line` and the modem beside the three threads of `WindowLine` (they are in
`SetUp`, with the I/O thread reduced to its reads); recordings, raw logs and backspace over captured text;
waiting for a LAT node's announcement, errors of the packet socket and its trace; printing and its spooler, of which only what goes to the printer is in `Input`; what a cell
looks like; the wording of reports. `KermitTransfer` supposes that removing a partial file succeeds, `TelnetOptions` that a
write is made whole, `Workspace` that there is one window. `KermitPackets` sends one file with one fault, and does not lower-case
names beyond ASCII. `Keyboard` has no composing, and no key pressed in Set-Up or in a closed session. `CharacterSets` leaves out the
extension that pastes UTF-8, the dots of a glyph and the colour table; `SetUpWalk` how a screen is drawn and worded.

Out of scope: LAT's frame encodings (pure data, tested by round trips), its directory of services, fonts, the colour table, rendering, the operating system's
devices, recording and replay, the LAT helper, command line, GTK dialogs, packaging and site.

In all, the definitions stand for some 30 in 100 lines of the implementation; most of the rest is drawing, dialogs,
the command line, fonts and tests.

Three hazards have no property that a run checks. A blocking write to a host that does
not read until it is read turns on the system's buffers, which nothing in the source bounds. Keys that wait with the pacer do go out
during a transfer, and a session may get the Set-Up of another number: both are above.

## Plan

Done: all the modules above, and proofs about the LAT session and its circuit, the line, the log, the window and the two ends of a Kermit transfer.

Next:

1. `LatTransport`: reads of less than has arrived, and that the end is reported after the last text; proofs of `EndIsNoticed` and `KeptAlive` for all limits.
2. `MemoryKept`: that programs of keys and user-defined keys keep within their memory for every sequence of loads
   (parts of `KeysSound`), proved.
