# Specifications of the C homework programs

The repository holds independent C programs: about twenty homework programs (`hw03` … `hw35`)
and a final project, a virtual Ethernet switch. They share no build; the only code two of them
share is the logging library. This directory holds TLA+ models of the programs with the most
state, TLC configurations that check them on small instances, and TLAPS proofs of every safety
property among those that hold, for every instance.

## 1. Inventory

The programs, the state each keeps and what makes it correct. *Italic* programs are not modelled
(section 7 says why).

| component | state | operations and actors | what is hard | what makes it correct |
|---|---|---|---|---|
| virtual switch, main thread (`final_project/v_switch.c`) | MAC table (station → socket address, age), receive buffer, `refresh_age_flag`, the armed alarm | receive loop: learn, forward or flood, age; SIGALRM handler | the signal at any point; `continue` that skips part of the loop; stations that move; table entries that expire between two frames | the table is exactly who was heard lately and where; frames go where a learning switch sends them (all but where port numbers are equal); aging never dies |
| virtual switch, command line thread (`v_switch.c`, `cli_task_func`) | a walk over the same table, the row being printed | accept, session, `show mac_table` | shares the table with the main thread, no lock | a row is an entry of the table (it need not be: run `cli`) |
| switch port (`final_project/vs_port.c`) and UDP | socket address, `switch_addr`, a frame in each of two threads | a thread TAP → switch, a thread switch → TAP; restarts | loss, duplication, delay; a port restarted under another UDP port number; a struct shared by two threads | a station never gets its own frame back; a station that settles is found there |
| logging library (`hw16/logger.c`, copied in `final_project`) | mutex, log file, enabled levels | `loginit`, `loglevel_on`, `loglevel_off`, `logprint` from any thread | a message is several writes; one mutex must cover them all; early returns | no torn message; every call returns |
| file size daemon (`hw20/demon.c`) | configuration, socket file, signal dispositions, the client in hand, `finish_work` | start, serve, reread on SIGHUP, stop on SIGINT/SIGTERM | handlers that run between any two steps; calls they interrupt; one-shot handlers; clients that hang up; a socket file that outlives a crash | every text is answered or its connection ends, if nobody keeps silent; the socket file follows the daemon; stops when asked, only then |
| word counter, hash table (`hw06/hashtable.c`) | cells (word, count), size, counter of additions | `hashtable_search`, `hashtable_add`, `hashtable_extend` | linear probing that wraps; cells that move when the table grows; a table that gets full | every word once, where the search ends; counts right; additions return |
| word counter, reader (`hw06/wc.c`) | buffer of 64 characters | cuts a file into words, adds each to the table | words longer than the buffer, the byte that overflows it, the end of the file | the table holds the words of the text, each as often as it stands there (if none is too long for the buffer) |
| access log parser (`hw22/aparser.c`) | one list of files and one pair of tables (URL → bytes, referer → lines) per thread, totals, two top lists | deal files out, parse, join, merge, rank | threads that run while others are created; merge through a narrower type; `strtok_r` with changing delimiters | every line is counted once whatever the distribution; the lists show the heaviest entries |
| HTTP server (`hw27/chttp.c`) | epoll set, `events_count`, one `conn_data` for all connections | accept, read, parse, write, close | edge-triggered events; requests in pieces; clients that connect together or half-close | nobody gets another's reply; no connection leaks from the count; whoever is accepted last is answered |
| tetris (`hw35/tetris.c`) | board, falling block, frame counter | move, rotate, drop, fall, `put_block`, `delete_row`, `new_block` | several operations in one update; rows that move while they are scanned; a lookup below the board | blocks are put on free cells of the board; full rows go, the others sink; the next block comes |
| zipjpeg_test (`hw03/zipjpeg_test.c`) | file position | search of a signature, walk of ZIP headers | overlapping partial matches, names cut off | lists the names in the archive |
| telefig (`hw25/telefig.c`) | socket, receive buffer | address fallback, two receive loops | segments of any size, a full buffer, a silent server | prints the answer |
| gtk_tree (`hw15/gtk_tree.c`) | tree store, static iterator | recursive directory walk | a static in a recursion | each file under its directory (it need not be: run `tree_files`) |
| *recode* (`hw04/recode.c`) | – | one byte to UTF-8 | – | agrees with the code page |
| *c-prog list* (`hw09/c-prog.c`) | linked list of nine numbers | map, filter, free | – | filter is filter |
| *dbstat* (`hw32/dbstat.c`) | array of values | count query, select query | a writer between the two | array holds all rows read |
| *crc_mmap* (`hw21`), *weather* (`hw08`), *cube* (`hw33`) | – | one pass over a mapping; one HTTP request; OpenGL rendering | – | – |
| *curl, clib* (`hw12`, `hw13`) | – | third-party code | – | – |

Interactions: a port and the switch exchange Ethernet frames in UDP datagrams; the switch's two
threads share the MAC table; the alarm handler and the main thread share `refresh_age_flag`; the
port's two threads share `switch_addr`; `v_switch` and `vs_port` both log through the logging
library; the daemon's handlers share `finish_work` and the configuration strings with its loop.
The access log parser's threads share nothing until they are joined. All other programs stand alone.
`PROJECT.json` lists the hazards, each at its line, and the properties that cover it: some are properties
that hold, some are expectations the code fails (section 6). Seven have none, and say why: the models take these
steps as the code does, but nothing written of the program promises anything there (section 7); a torn
`switch_addr` comes to no more than a lost datagram; and one is dbstat's.

## 2. Modules

| module | models | |
|---|---|---|
| `LearningSwitch` | what a layer 2 switch promises, no code | abstract specification |
| `VSwitch` | `v_switch.c`, `main`, `refresh_age`, `process_mac_age`, `handle_alarm` | implements `LearningSwitch` |
| `SwitchCli` | `cli_task_func`, `cmd_show_mac_table` beside `VSwitch` (EXTENDS it) | composition of the two threads |
| `VSNet` | `vs_port.c` with its two threads, UDP, restarts, and `LearningSwitch` for the switch | composition |
| `Logger` | `hw16/logger.c` | |
| `Demon` | `hw20/demon.c`, its clients and its operator | |
| `HashTable` | `hw06/hashtable.c`, called as `wc.c` does | |
| `WordCounter` | `hw06/wc.c` on top of `HashTable` (EXTENDS it) | composition |
| `AccessLine` | `parse_string` of `hw22/aparser.c` | pure operators |
| `AParser` | the rest of `hw22/aparser.c`: main thread and parsing threads | EXTENDS `AccessLine` |
| `CHttp` | `hw27/chttp.c` and its clients | |
| `Tetris` | the game logic of `hw35/tetris.c` | |
| `Zipjpeg`, `Telefig`, `GtkTree` | `hw03/zipjpeg_test.c`, `hw25/telefig.c`, `hw15/gtk_tree.c` | |
| `Tools` | these three side by side, one of them running (`tool`) | composition by INSTANCE |
| `Programs` | the programs that stand alone side by side, one of them running (`program`): `Logger`, `WordCounter`, `AParser`, `Tetris`, `Tools` | composition by EXTENDS |
| `VSwitchProofs`, `VSNetProofs`, `LoggerProofs`, `DemonProofs`, `WordCounterProofs`, `AParserProofs`, `CHttpProofs`, `ToolsProofs` | theorems and proofs | `WordCounterProofs` includes the hash table, `ToolsProofs` includes Tetris |
| `MCVSwitch`, `MCSwitchCli`, `MCVSNet`, `MCDemon`, `MCCHttp`, `MCWordCounter`, `MCAParser`, `MCTools`, `MCPrograms` | constants for TLC | |

The modules that `Programs` extends have the program's name in what would else be called alike: `log_pc`,
`table_pc`, `parser_pc`, `tetris_pc`, `LoggerInit`, `TableNext` and so on; `next_cell` is the `i` of `hashtable_extend`.

Each module also holds a few operators marked "Mutant of …": an action with a plausible bug in
it, used by no specification. Put in place of the right action, each one makes a property fail,
which shows that the property depends on the code.

### VSwitch

`pc` is the place in the loop: `recv`, `learn`, `forward`, `age`, `clear`, `rearm`. `Recv` and
`RecvNothing` are the two outcomes of the non-blocking `recvfrom`; `LearnKnown`/`LearnNew` are the
branches at lines 144–160; `ForwardHere` is the discarded frame with its `continue` back to the
top; `ForwardKnown` and `Flood` make the `sendto` calls, recorded in `out`; `RefreshTable` is
`g_hash_table_foreach_remove` over `process_mac_age`, in one step because only the main thread
writes the table; `ClearFlag` and `Rearm` are two steps because the signal may come between them.
`HandleAlarm` is enabled in every place. The comparison of UDP port numbers without addresses
(line 166) is kept, so addresses are records of an `ip` and a `port`. For `LearningSwitch`, `SamePortNumber` are
the pairs of addresses it takes for one (`Alike`). That specification asks for a copy at every place that must get
one (`Due`) and none for the sender's own station or for stations a frame is not for (`Allowed`); whether a place
gets one copy, or one for each station there, it leaves open, so a switch that sends one to every known port except
the source implements it too. `heard` is a history
variable: who was heard, from where, how many refreshes ago, cut off at `TickBound` = `MaxAge` + 2.
Frames are a source, a destination and the socket address they come from; payloads and counters of
bytes are left out. `Traffic` says which stations may appear behind which address. A datagram
shorter than an Ethernet header is left out.

### SwitchCli

`MainStep` is any step of `VSwitch` with its effect on the walk: which stations came into the table or left it
(`moved`), and whether the key or the record in hand was freed (`freed`). The iterator reads a key and then
a record (`NextKey`, `NextRecord`), and the row is printed in three reads; the main thread may do anything in
between. A GLib iterator over a changed table is undefined, and the two threads race: once the table has moved the
model lets the iterator pair any key with any record that is or was there (`Upon`), and stop at any time. A read
through a freed pointer gives anything or ends the process (`Crash`). `seen` is a history: the entries the table held while the
row was made. The row number and the age column are left out.

### VSNet

`ReadTap`, `SendToSwitch` are the sending thread, `Receive`, `ReceiveStray`, `WriteTap` the
receiving one. `recvfrom` writes the sender's address to `switch_addr`, which the sending
thread uses. `sock` is unbound until the first datagram is sent, and after `RestartPort` the system
may give the socket another address of `Local`. The switch is `LearningSwitch`: `VSwitch` is
proved to implement it, so the composition is checked without the switch's inner steps.
`SwitchSend` drops any subset of the copies (`sendto` on a non-blocking socket, its result not
looked at). UDP is external: both directions are sets, so datagrams overtake one another;
`LoseToSwitch`, `LoseToPort` lose, `DuplicateToSwitch` and the second alternative of `Receive`
duplicate. `MaxInFlight` bounds the datagrams on their way to the switch.

### Logger

One `pc` per thread. The branches of `loginit` (`fopen` fails: unlock, then complain to stderr
without the mutex) and of `logprint` (level off: return before the mutex is taken) are kept; each
write to the file is a step. `last[f]` is a history: who wrote to `f` last. `MtxInit` frees the
mutex whoever holds it, which is what reinitialising it amounts to. `Quiet` = TRUE restricts
the callers: `loginit` runs alone.

### Demon

`pc` follows `main` from `Start` to `Unlink`. Signals are steps that may run anywhere:
`HandleTerm`, `HandleHup`, `Killed`. Three facts of the platform matter and are modelled. The
program is compiled with `-std=c11` and `_POSIX_C_SOURCE`, so glibc's `signal()` installs one-shot
System V handlers that do not restart interrupted calls; `accept` or `read` with nothing to return
is interrupted (`Resumes`), unless the signal was handled just before the call; and SIGPIPE kills a
process that sends to a client that has hung up. The two evaluations of `filename()` in the `sprintf` at line 144 are
`TakeName` and `TakeSize`, in either order, since C does not order them. `name.freed` says that SIGHUP freed
the string meanwhile, and the history `renamed` that it changed the socket's name since the start. Clients connect, send text and hang up at any moment; the operator edits the
file. A client that hangs up before it sends has `ReadEnd`; one may also do neither. The forks of `daemonize` are left out but for
the ignored SIGHUP.

### HashTable

A word and its count per cell. `Found` is `search_word`: the first cell of the probe sequence that
is empty or holds the word. `Store` and `NoCell` are the two outcomes in `hashtable_add`,
`CopyCell` is one turn of the loop in `hashtable_extend`. `occupied` counts additions, as the code
does, not cells. `hash` is a constant function to Nat, so the proofs hold for every hash function.
`taken` is a history, `MaxAdds` bounds the runs.

### WordCounter

One step of the reader per byte: `Keep` puts it in the buffer, `EndWord` is every other case of
`wc.c:37-46`: a space, a byte that finds the buffer full, or EOF; each ends the word, and the byte
is dropped. An addition runs to its end (`Step` of `HashTable`) before the next byte is read.
Characters are bytes, words are the non-empty sequences that fit in the buffer. What the words of a file
are is said without the reader: `StandsAt(w, p)` is that `w` stands at `p` between white space, `TimesIn(w)` how often.

### AccessLine and AParser

A line is a sequence of quotes, spaces and words; `strtok` skips delimiters in front of a token and
one behind it, and `Tokens` is the nine calls with their nine delimiters. `parse_string` keeps
what it found before the first failure, as the code does. In `AParser`, `Deal` numbers the files as the code
does (`(i + 1) % threads_num`), in any order the directory may have. `dirty` says in which lists the uninitialised head
holds garbage: such a list has garbage behind its last file (`EndTask`). `size_t` and `int`
are `SIZE` and `INT` values wide; `AsInt` is the pointer cast at line 404. `Insert` is one round of the
insertion into the top list, `Rank` takes the entries in any order. A file may fail to open.

### CHttp

`ready` is what epoll will report next, `events` what is left of what it reported. A socket is reported once for
all that happened to it since the last report, with EPOLLOUT in any case. `Dispatch` shows the
shared record: an event of any connection leads to `conn_data`, whoever it belongs to now. `conn_data.old` says
that the receive buffer still holds the end of a header from an earlier read, which `strstr` may
find. `ReadNothing` is `recv` returning 0: the loop at line 192 goes on for ever (`spin`). A request is
a whole, or a head and a tail; what is parsed from a part is `Garbled` or nothing. The reply
is the url it was made for; its text and status follow from the file. Left out: requests as long as
the buffer (the terminating 0 is written one byte beyond it, line 200), a `sendfile` that stops early,
and failing system calls that only print.

### Tetris

A block is its kind, rotation and place; `Digits` is the table in `made_block`. `Keyed` is the key handling in its order,
each move taken back by its own rule; `Tick` is one call of `sprites_update` up to `put_block`.
`delete_row` is `PassRow` and `ClearRow`, one step per row looked at; `i += 2` and the loop's `i--` make
the next row the one *below* the deleted one, and for the lowest row that is `BOX_H`, which is outside the
column: `map[k][BOX_H]` is `map[k + 1][0]`, so `PassBelow` looks at row 0 of the next
columns, and behind the last one at other memory, which may be anything. `new_block` either starts
the next block or, at the end of the game, puts the one that does not fit and scans again. The
frame counter runs modulo the two periods. Colours, score and speed are left out; no decision depends on them
but the length of a period.

### Zipjpeg, Telefig, GtkTree

`Zipjpeg`: `signature_search` goes over the bytes with the code's one counter (`Advance` is one turn of its loop);
headers have one byte for each field, and skipped bytes may be any. A file is an image, entries and an end of the archive
(`Inputs`), each possibly empty. `Clean` are those in which a signature is found where one belongs, with its first byte
not repeated, and none is where it misleads the program: no `PK` in the data of an entry, no `P` at its end, and no `PK` in
an image behind its first `FF D9`. All other bytes are allowed, `FF` and `P` among them. `Sought` is the signature searched next. `Telefig`: `Deliver` is TCP, with segments of any size at any time; a `recv`
that finds nothing has waited a second. `GtkTree`: `iter1` is the static iterator, `under` the
row a file was put under; the directory gives its entries in any order. `Inside` is being somewhere below a directory.

## 3. What the runs show

"States" are distinct states.

| run | instance | states | shows |
|---|---|---|---|
| `switch` | 3 stations, 2 addresses on different machines, all traffic, `MaxAge` = 1 | 145,038 | the table is exactly who was heard in the last `MaxAge` + 1 refreshes and where; no tick is lost; the loop implements `LearningSwitch`; a silent station is forgotten |
| `net` | 2 ports, 1 station each, one port changes its address on restart, a stranger, 2 datagrams in flight | 275,968 | no station gets its own frame back; a station that settles and speaks is in the end found only there |
| `demon` | 2 clients, SIGTERM and SIGHUP, three configurations with two names of the socket, hang-ups, silent clients | 100,806 | the socket file exists while the daemon listens, and goes when it exits unless it was renamed; if nobody keeps silent for ever, every text is answered or cut off, and SIGTERM works at the next client at the latest |
| `chttp` | 3 clients, one of which asks for "/", room for 2, whole and split requests, half-closes | 117,001 | replies match requests; the count is the number of open sockets; the client accepted last is answered |
| `programs` | five instances, one in each behaviour: | 164,210 | |
| – logger | 2 threads, 1 file, 2 levels, `Quiet` | 8,300 of them | messages, backtraces included, are whole; every call returns |
| – word counter | 6 words of 1 or 2 letters with the code's hash, buffer of 3, tables of 1 to 8 cells; all texts of up to 5 bytes, texts of 5 words | 13,100 | every word is where the search ends; counts are right; the table has the words of every text that fit (`FittingWordsAreCounted`); every addition returns |
| – log parser | 3 files of 2 to 4 lines, readable or not, 2 threads, `int` of 3 and `size_t` of 4 bits, lists of 2 | 8,700 | every line of every readable file is counted once, modulo the width of an `int`; shares that fit are exact; the lists show the heaviest entries |
| – tetris | board of 4 × 5, three kinds of blocks, all sets of keys, a fall every second tick | 124,500 | blocks are put on free cells; a scan leaves no full row and comes to what deleting all full rows at once would; the lookup below the board finds nothing; the next block comes |
| – tools | archives of up to 2 entries with data and images that look like signatures; answers longer than the buffer; all trees of 3 files and 2 directories | 9,600 | the search ends at signatures only, and runs past none whose first byte is not repeated; the names of clean archives are listed; a prompt answer is printed; every file hangs somewhere in its own directory |
| `switch_ports` | 2 stations, 2 addresses with the same port number, `MaxAge` = 0 | | expected to fail (section 6), as the next six |
| `cli` | 2 stations, 2 addresses, `MaxAge` = 0 | | |
| `wc_words`, `aparser_referer`, `chttp_lost`, `zip_signature`, `tree_files` | as word counter, log parser, `chttp`, tools | | |

The programs of `programs` share nothing; they are in one run because each question asked of them is small. The ones that do not run
stay where they begin.

Why these bounds are enough to meet the interesting cases:

- `switch`: with three stations a flood has a third party to reach and one to skip; two addresses
  let a station move; `MaxAge` = 1 gives a record every stage (fresh, aging, expired) and a
  history that goes one refresh beyond.
- `cli`: two stations are enough for one record to be printed while another is inserted or freed.
  `MaxAge` = 0 makes records expire soon.
- `net`: one port with two addresses can leave a stale entry and stale datagrams behind; two
  datagrams in flight can overtake one another; the other port receives what is misdirected.
- logger: a torn message needs two threads. Two levels, one with a backtrace.
- `demon`: one client in hand and one in the queue; the operator's configurations change the file's name, withdraw it,
  and rename the socket.
- word counter: from one cell the table grows three times and fills up completely, and words
  collide and wrap around; with a buffer of two letters every way to cut a long word
  occurs within five bytes.
- log parser: two threads with three files have unequal loads, and threads may end before others are created;
  the sums pass half an `int`, a whole one and a `size_t`.
- `chttp`: two clients are enough to take a record over from one another, the third is refused, or takes
  the record from one who has just taken it.
- tetris: four columns are one block wide or two squares, so rows fill soon, two and four at a time;
  five rows are the least that a block cannot reach from top to bottom.

Deadlock is checked in `switch`, `net` and `demon` (and `switch_ports`). The programs of `programs` end, chttp
waits for clients that need not come, and the process of `cli` may crash: their configurations turn the check off. Of the
logging library, which should never stop, `CallsReturn` says as much.

## 4. Fairness

- `VSwitch`: the main thread is scheduled (weak fairness of its step), and an armed alarm goes off.
  Nothing is assumed of the arriving frames: ports may send for ever or never, and `Recv` and
  `RecvNothing` are under one fairness condition. `SilentStationForgotten` has the premise that discarded frames end, because of the
  `continue` at line 169; without it the property is false.
- `VSNet`: the switch sends what it has accepted; a datagram does not stay under way for ever, it is
  delivered for the last time or lost. `EventuallyLocated` has as premises that the port is no
  longer restarted and that the switch hears the station from its socket again and again.
  Nothing is assumed of the ports.
- `Logger`: threads in the library are scheduled, and the mutex is not withheld for ever from one
  that waits (strong fairness of `MtxLock`, one for each thread). The C library does not promise the latter: it is an
  assumption on the scheduler, and `CallsReturn` is about paths that keep the mutex, not about luck
  in getting it.
- `Demon`: the daemon is scheduled, and nothing is assumed of clients, signals or edits. `read` has no timeout
  (`demon.c:138`), so a client that connects and keeps silent starves everybody behind it for ever.
  `EveryTextIsServed` and `TermEndsAtNextClient` therefore have the premise `NobodyKeepsSilent`: whoever is in hand sends or
  hangs up in the end, or a signal interrupts the `read`. Without it TLC finds the silent client. The second has also
  `ClientsKeepComing`, since the flag set between the loop's test and `accept` is seen when a client comes.
- `WordCounter`: an addition runs on. The reader may stop anywhere.
- `CHttp`: the server runs whenever it can. Clients need not do anything.
- `Tetris`: the timer ticks for ever and the handler of a tick runs on. Keys may be held down for ever or never.
- `AParser` and the three small programs: none; only safety is checked.
- `Programs`: the fairness of the program that runs. The steps of the others are never enabled, so theirs
  asks nothing; that of `Tetris` speaks of its own steps and is guarded by `program`, and so is `BlockComes`, which is
  `NextBlockComes` in the behaviours of that program.

## 5. What is proved

All proofs hold for every value of the constants under the modules' named assumptions
(`VSwitchAssumption`, `VSNetAssumption`, `LoggerAssumption`, `DemonAssumption`, `HashTableAssumption`,
`WordCounterAssumption`, `AParserAssumption`, `CHttpAssumption`, `TetrisAssumption`, `ToolsAssumption`,
`ZipjpegAssumption`), which TLC evaluates on every run. Every invariant and every action property of a passing run is
a theorem of its program's own specification; where one needs more than these assumptions, its statement has the premise and it is named below.

**VSwitchProofs.** `TypeCorrect`, `TableCorrect` (`TableIsRecentlyHeard`) and `TickCorrect`
(`TickNeverLost`). The inductive invariant `IInv` joins these with four facts about control:
a frame is in the buffer while it is processed (`OneFrame`); its source has just been heard
(`JustHeard`), without which learning would not meet the history; and at `clear` the flag is up,
at `rearm` down (`Serving`), without which arming the alarm could make two ticks of one. `TypeOK` alone is
inductive (`TypeStep`). `Refinement` shows that the loop implements `LearningSwitch`, for all addresses, with equal port
numbers or without: what the comparison of port numbers confuses is in the abstract specification's `Alike`, and
all other places that must get a frame get it. Its lemma `ForwardStep` says so of the three actions that deliver.

**VSNetProofs.** `TypeCorrect`, and `NoEchoAlways` for any number of ports, assuming
`OneStationEach`: ports share neither stations nor addresses and have one station each. (With two, a
frame of one may be flooded to the other: section 7.) `OriginsKnown` says that
every datagram under way, and every entry of the table, joins a station to an address of its own port, and
that a frame accepted is from where its station is remembered; so a copy, which goes to another
station, goes to another port.

**LoggerProofs.** `TypeCorrect` and `MessageWholeAlways`, for any number of threads, files and
levels, assuming `Quiet`. `IInv` adds that the holder of the mutex is exactly the thread between
`mtx_lock` and `mtx_unlock` (`HolderIsCritical`), and that `loginit` runs alone (`InitAlone`),
without which `mtx_init` would free a held mutex.

**DemonProofs.** `TypeCorrect`, and `SocketFileCorrect` for any clients, names, configurations, options and
signals. `SocketInv` says that while the daemon listens or stops, the file it bound is there, and that `socketname()`
still is that file's name unless a rereading has changed it (`renamed`), so `unlink` takes away what `bind` made.

**WordCounterProofs.** Of the hash table: `TypeCorrect`, `SearchCorrect` (`EveryWordIsFound`) and `CountsCorrect`
(`CountsAreRight`), for every hash function and initial size. `FoundUnique`, `NoDuplicates` and `FillReachable` say what the search returns and that
filling the cell it returns keeps every other word reachable; `IInv` adds `Copied`, which says that the
first `next_cell` cells of the old table, and nothing else, are in the new one with their counts: no
count can be lost in an extension, and there is always a free cell to copy to.

Of the reader: `UsesTable`, for every text the reader's behaviours are behaviours of
`HashTable`, because its buffer is empty or a word that fits (`BufferOK`); so `CounterCorrect` carries the
results above over to the word counter. `TextCorrect` (`FittingWordsAreCounted`) says which words, in terms of the text alone: each
word that stands between white space is in the table at least as often as it stands there, and exactly as often if
every word of the text fits the buffer. The argument has two halves. What the reader does with any text is
the invariant `TextInv`: the text is divided at `Done`, the place up to which words have been added; `taken` holds the
words up to there (`Ended`), the buffer the bytes behind it, and the length of the run of letters
before each of them, modulo `MAX_WORD_LENGTH`, is the place in the buffer. So at the end the count of a word is the
number of `Starts` whose letters are that word (`CountIsStarts`), where a long word has several. Then
`StandsStarts` says that what stands between white space begins at a start with just these letters, and
`StartsStand` that where all words fit nothing else does.

**AParserProofs.** `TypeCorrect`, `LinesCorrect` (`EveryLineCountedOnce`), `SharesCorrect` (`SharesThatFitAreExact`) and
`TopCorrect` (`TopIsHeaviest`), for any files and lines, any number of threads, widths of `int` and `size_t` and
lengths of the lists. The invariant `LInv` keeps a `Ledger`: each file is in one phase (to be dealt out, listed,
open, read, skipped) and belongs to one thread. A thread's tables are exactly, up to the width
of a `size_t`, the sums over the lines it has read of its own files (`Exact`), and the merged tables are the sums over the lines of
the threads joined so far, up to the width of an `int` (`Close`), or of a `size_t` where every share
fits. At `merge` all threads have ended (`Stages`), so each line of a readable file is in exactly one
share. Nothing is claimed once a thread has run into the garbage of an uninitialised list (`Alive`). Sums over finite
sets are those of the community modules (`SumFunctionOnSet`): `SumAdd` says that a sum grows by what a line adds, and
`SumUnion` that two disjoint sets of lines add up. For the lists, `InsertRanks` says
what one round of the insertion does, and `Ranking` that every entry taken out of the
table so far is in its list or weighs no more than all that are.

**CHttpProofs.** `TypeCorrect`, `CountCorrect` (`CountIsOpenSockets`) and `RepliesCorrect`
(`RepliesMatchRequests`), for any number of clients and any limit of events. The invariant says that a url in
`conn_data` is of the client whose socket is there, that this socket is open, and that a
client that sends its request whole has nothing of it half read.

**ToolsProofs**, tetris: `TypeCorrect`, `PutCorrect` (`PutTakesFreeCells`), `NoFullRowCorrect`
(`NoFullRowRemains`), `BelowCorrect` (`BelowIsNeverFull`) and `CollapseCorrect` (`ScanCollapses`), for every board of at least
four columns and five rows. `KeyedFits` says that no combination of keys takes a fitting block off its cells,
`PassedNotFull` that the rows a scan has passed are not full. For the lookup below the board, `BelowSafe`: a game goes on
only with a free cell in row 0 away from column 0, since a new block takes one there
(`NewTakesTop`); and a block that fills row 0 again cannot reach the lowest row, which must be full for the
lookup to happen (`TopBlockIsHigh`). `CollapseCorrect` is the refinement of one simultaneous deletion by the
scan: each `ClearRow` leaves what the board would collapse to as it was. The row a row ends in is
given by the number of full rows below it; deleting one row moves the full rows above it (`Drop`) and takes one from those
numbers (`ShiftCount`).

**ToolsProofs**, the small programs, each for any constants that satisfy the assumptions:

- `TreeCorrect` (`HangsInOwnDirectory`), for every tree and order of the listing. `TreeInv`: the
  static iterator points to the directory entered last, which lies in all directories still being listed, and
  which has no subdirectory listed yet, while every other one of them has. So a file listed goes somewhere into its own
  directory, and under that directory's row if no subdirectory of it came before.
- `AnswerCorrect` (`PromptAnswerIsShown`), for every length of the banner, the answer and the buffer and every segmentation.
  `FigInv`: unless a `recv` timed out early, what has been received, is in the socket and is still to come are together
  the answer.
- `SearchCorrect` (`SearchStopsAtSignature`), for every file and place to start from: the search ends at a signature or
  not at all, and does not run past one whose first byte is not repeated. The lemma `SearchFinds` says exactly what it finds,
  the first end of a signature with an odd run of its first byte in front: after `n` bytes nothing has been found and
  the counter is the parity of the run of first bytes that ends at `n`, or the first such end has been found.
- `ListingCorrect` (`ArchiveIsListed`), for every clean input. `Layout` says where in the file each entry begins (`Off`), and
  `ZipInv` that after `k` names the search stands between the name of entry `k` and the header of the next,
  with no `PK` between and no `P` just before it, so that header is what it finds.

The assumptions about bytes and inputs are types, and that `FF` is neither `D8` nor `D9`, and `P` neither `K` nor `D9`.

`signature_search`, the concatenation of the entries and the sums over files are recursive. The provers have no
induction over an arbitrary predicate, but each use here is over a bounded range of numbers or a finite set. There,
a smallest counterexample exists (`SmallestOf`, from the well-foundedness of the strict subset
ordering in the library), and the step from its predecessor contradicts it.

Only model-checked: liveness (`SilentStationForgotten`, `EventuallyLocated`,
`CallsReturn`, `EveryTextIsServed`, `TermEndsAtNextClient`, `AddReturns`, `LastAcceptedIsAnswered`,
`BlockComes`), since fairness and `ENABLED` are out of the prover's reach; and the seven
counterexamples of section 6, which are single behaviours.

## 6. Where the code departs from what is written of it

In each of these runs TLC finds a behaviour in which the program does not do what its documentation, a comment or
a task says; `PROJECT.json` quotes the line. Where a weaker promise holds, it is checked beside it.

| run | source | |
|---|---|---|
| `switch_ports` | `v_switch.c:166`, `:199` | a flooded frame comes back to the port it came from if another station is behind it, and a frame between ports with equal numbers on different machines is dropped; what holds: `ImplementsLearningSwitch` |
| `cli` | `v_switch.c:506` | `show mac_table` takes no lock: a row may be no entry the table ever had |
| `wc_words` | `wc.c:37` | a word longer than the buffer is counted as several, and a letter is lost at each cut; what holds: `FittingWordsAreCounted` |
| `aparser_referer` | `aparser.c:352` | `strtok_r` skips the two quotes around the space between referer and agent as one run, so the user agent is counted for the referer |
| `chttp_lost` | `chttp.c:130` | an accept overwrites the one `conn_data`: a client accepted before it and not answered yet never is; what holds: `LastAcceptedIsAnswered` |
| `zip_signature` | `zipjpeg_test.c:92` | a byte that ends a partial match is not tried as the first of another: `FF FF D9` does not end an image, `PPK` is no header; what holds: `SearchStopsAtSignature` |
| `tree_files` | `gtk_tree.c:52` | a file listed after a subdirectory is shown under the subdirectory; what holds: `HangsInOwnDirectory` |

## 7. Known limits of the promises above

Each of these was met while modelling; the properties say where they stop because of it.

- Only UDP port numbers are compared (`v_switch.c:166`): stations behind ports with equal numbers on different
  machines cannot reach one another. A flooded frame goes to every other record, so several copies may go to one port and
  one may go back to the source's port (`:199`).
- A station that keeps sending to its own port postpones aging for ever (`v_switch.c:169`), though line
  100 says it runs every second.
- A row of `show mac_table` may have the address of one port and the number of another, or freed
  memory (`v_switch.c:511`), if the main thread touches its record meanwhile; the process may also crash.
- A datagram from anybody makes the port send its frames there until the switch sends again
  (`vs_port.c:282`).
- `loginit` reinitialises the mutex on every call (`logger.c:26`): with `Quiet` = FALSE TLC tears a
  message.
- A client that connects and says nothing keeps the daemon from everybody else for ever: `read` has no timeout (`demon.c:138`).
- SIGHUP with a new socket name does not move the socket, and the exit then removes the file of the new name and leaves the old
  one (`demon.c:154`); the README of `hw20` lists this as to be done.
- A client that hangs up before its answer kills the daemon by SIGPIPE (`demon.c:146`), and the
  socket file stays; the next start fails at `bind`. SIGHUP interrupts `accept` and so ends the daemon (`:133`),
  though its README says it only rereads the parameters; between the two evaluations of `filename()` it makes
  the reply name one file and give the size of another (`:144`). SIGTERM between
  the loop's test and `accept` has no effect until a client comes (`:128`).
- `occupied` counts additions, not cells (`hashtable.c:98`): the table grows when words repeat, and after
  a growth it may fill beyond 3/4 (`:190`). `CountsAreRight` and `AddReturns` hold all the same.
- A word that does not fit the buffer is cut, and the letter at each cut is lost (`wc.c:37`).
- The list heads of `threads_info` are uninitialised (`aparser.c:115`): a thread may crash on garbage
  behind its last file. Sums merge through a pointer to `int` (`:404`). A line that cannot be
  parsed keeps the url found before the failure, though the comment at line 235 says it is left empty.
- A client of chttp that half-closes before its header is complete stops the server in `do_read`
  (`chttp.c:192`). A socket that was taken over from `conn_data` is never closed, so it
  counts for ever, and when all the room is taken by such sockets every client is refused (`:124`); "/" and a connection whose event comes late get no answer.
- A full row 0 is copied from itself for ever (`tetris.c:477`): `BlockComes` excepts it.
- In zipjpeg_test EXIT_FAILURE and END_OF_CENTRAL_DIRECTORY are both 1, so any header but a local one ends
  the listing. It takes signatures in the data of a file for headers: data with `PK` in it, or with a `P` at its end before the next
  header, and `PK` in an image behind its first `FF D9` (a thumbnail's, say) mislead it, and `ArchiveIsListed` is for inputs without (`Clean`).
- telefig takes a second of silence for the end of the answer, and with no data at all `len - 1` wraps around
  (`telefig.c:112`): `PromptAnswerIsShown` is for servers that do not pause.

Not modelled, in the modelled programs: option parsing, `daemonize`, TAP and ioctl set-up, GUI and sound, `printf`
output, allocation failures (which exit), datagrams shorter than an Ethernet header.

Programs not modelled: recode is one table lookup per byte, and a model of it would be its tables;
c-prog is a fixed program with one outcome; dbstat is two queries, and the writer that may come between them
is its whole hazard; crc_mmap is one pass with a vendored checksum; weather one
request and its printing; cube floating-point rendering. `hw12` (curl, 99% of the C code of
the repository), the patch of clib and the other vendored files (`parson.c`, `crc32.c`) are third-party code and not the
repository's own logic. So the models cover most lines of control of the repository's own programs, and
next to nothing of all lines there are.

## 8. What is left

- A fault model for chttp's `sendfile`, which stops early on a full socket and is not resumed.
- dbstat with a writer, if the program ever retries.
