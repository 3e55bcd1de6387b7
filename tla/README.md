# TLA+ specifications of the CGI server and the VPN daemon

The repository holds two programs that run on one device:

- an HTTP server (`src/src/`): a listener that forks a child per connection; the
  child answers GET requests with files and takes uploads by POST;
- a VPN daemon (`src/vpn.c`): a thread that executes one-byte commands from a Unix
  socket, threads that run an OpenVPN client, and threads that ping its server.
  `src/get.c` is the device's variant of the GET handler, whose CGI requests send
  those commands.

Paths in this directory's files start with `src/` for the repository's root, so that
`src/src/http_get.c` is `src/http_get.c` of the repository.

## 1. Inventory

| Component | Source | State | Operations |
|---|---|---|---|
| Listener | `http_server.c` 876-993 | `sockfd`, `client_sockfd`, descriptors, children | socket/bind/listen, accept, fork, `terminate` |
| HTTP session | `http_server.c` 307-391, 612-874, 973-989 | the place in the byte stream, `keep_alive`, `content_length`, `cookie`, `header_err_flag`, `acceptable_*` | `read_line`, `read_socket`, `read_headers`, `handle_client_connection`, the response writers |
| GET handler | `http_get.c` | the globals above | `http_get`: 404 / 400 / 501 / 403 / 200 |
| POST handler | `http_post.c` | `St_header_info`, `ilength`, the file | `read_post_headers`, `http_post_request`, `write_file` |
| Authorization | `http_server.c` 108-267 | the table of users | `token_decode`, `http_base64_decode`, `check_authorization` |
| Command server | `vpn.c` 671-826 | `recv_buf` (static), the connection | `recvcgicmd`, `msgprocess` |
| Tunnel threads | `vpn.c` 140-206, 828-839 | `stopenvpn_flag.benable`, `vpn_context.sig` | `openvpn_start`, `openvpn_stop`, `openvpn_restart_client` |
| Connection check | `vpn.c` 625-669 | `lost_ping_count` | `openvpn_check_connection_task` |
| Ping and route lookup | `vpn.c` 366-622 | a raw socket | `CheckSum`, `check_host_status`, `ping`, `get_server_ip_by_route` |
| Configuration files | `vpn.c` 47-132, 338-363 | files in `/home` and `/home/config`, the static tables of paths | `readFileList`, `savecfgfile`, `checkconfigfile` |
| Certificate update | `vpn.c` 208-253, 280-336 | none in the repository | `openvpn_update_openvpn_file`, `get_vpn_ip` and others that nothing calls |
| Device GET handler | `get.c` | the globals of the session | `http_get`, `dealwithcgi`, `sendcmdtoopenvpn` |
| Logging, assets | `error.h`, `Debug/`, spreadsheets | none that others read | - |

How they interact. The listener forks; a child inherits the descriptors and the
globals of `http_server.c`, and lives in one connection. Its loop resets the globals,
reads a request line, and calls the handler of the method, which reads headers and body
from the same stream. A command for the VPN travels over a Unix socket as one byte; the
command thread of the daemon serves one connection at a time. Tunnel threads, checker
threads and the command thread share `benable` and `vpn_context.sig` without a lock.

What is hard, component by component, with what makes it correct:

- *Session*: every way through a handler must leave the stream at the beginning of the
  next message, or end the connection; nothing of one request may reach the next; what
  a client has sent is answered; the child ends with its client.
- *Upload*: two ends of the body (a delimiter, a length) and an error in the middle.
- *Command thread*: a command belongs to its connection; every connection is served.
- *Tunnel and checker threads*: the flag says whether a tunnel runs; one tunnel at a
  time on the one context; a stop is not lost; a checker watches while the VPN is
  enabled, and restarts a tunnel whose server is dead.
- *Listener*: a connection has one child; descriptors and processes are finite.
- *Files*: uploads overwrite files in place while the daemon moves them, by tables that
  its threads share, in a loop that may stop in between; none may be lost.
- *Ping*: answers are alike, may be late and come to every socket; a socket opened every
  ten seconds must be closed on every way out.
- *Device handler*: only authorised commands reach the daemon, once and in order, and
  the one connection it serves at a time must not make everybody wait.
- *Algorithms*: credentials, checksum and header names at the edges of their encodings.

`PROJECT.json` lists each hazard at its line with the properties that cover it.

## 2. Modules

### HttpSession

One child and its client (`HttpSession.tla`).

| Variable | Code |
|---|---|
| `sent`, `lastLines`, `closed` | the client's side of the connection: the messages it has sent (the last one perhaps cut), whether it has closed |
| `cur`, `off` | the place in the stream of `client_sockfd`: `off` lines of message `cur` have been consumed |
| `pc` | where the child may block: in `handle_client_connection`, `read_headers`, `read_socket`, `read_post_headers` (first and second call), `write_file`, or between |
| `g` | `keep_alive`, `content_length`, `cookie`, `header_err_flag`, `acceptable_text`, `acceptable_charset` |
| `hinfo` | `St_header_info` of a POST: credentials, length, boundary, disposition; and `ibodyflag` |
| `want` | `size` in `read_socket`, `ilength` in `write_file` |
| `req`, `out` | history: the message whose first line opened the request; the responses |

The child is sequential, so that a step reaches from one possible wait on the socket to
the next; the client may act between any two. A step that answers (`Reply`) includes
the return through the handler to the top of the loop, which ends the child when
`keep_alive` is false. Names in the model are the code's where it has one.

Abstractions. The stream is made of lines, the unit `read_line` returns, and lengths
count lines. A message has a method, a URL class (a file, an empty file, none, or one
that is refused; `"directory"` stands for each of the 403 cases), headers and body
lines; a `Content-Length` header gives the true length. A header name is the sequence
of the words between hyphens, because `strncasecmp` compares as many characters as the
received name has: `Field` finds the first field of the if-chain the name is a prefix
of. Values are the few the code tells apart. Continuation lines, and body lines that
look like a request line, are left out. The status `"404url"` is the 404 for an unknown
URL, which the code sends depending on a variable it has not initialised
(`http_get.c:171`, `http_post.c:274`), and `StopAtMarker` is the `strstr` on a buffer it has
not filled: both may happen or not. A child that dies of a NULL pointer is `"crashed"`: the
date of If-Modified-Since, credentials without a space (`NoSpace`, in both handlers) or
without a colon, an empty file, an upload without a boundary or a name.

### HttpService

What a connection promises its client: the abstract specification of `HttpSession`.
The client sends messages (`Send`, perhaps cut) and goes away (`Disconnect`); the service
answers them in their order (`Answer`) or dies (`Die`). An answer is one the message calls
for (`Expected`), is not given before the lines it is about have arrived (`Needs`: an
upload to the last line, the headers otherwise, the first line for a POST to an unknown
URL), and ends the service when it closes (`Closes`: by its status, or for a GET that asks
for it; a POST that asks is not heard). The service dies only when its
client has gone, or of a message that kills (`Kills`): a GET of an empty file or with a
date that `strptime` can read, credentials without a space or a colon, an upload without a
boundary or a file name. Those operators are constants of `HttpService`; `HttpSession` defines them.

`HttpSession!ImplementsService` is its `Spec` under the mapping

| HttpService | HttpSession |
|---|---|
| `sent`, `lastLines`, `closed` | the same |
| `answers` | the statuses of `out` |
| `state` | `Life`: `"ended"` for `pc = "exited"`, `"dead"` for `"crashed"`, `"open"` otherwise |

so that the stream, the globals and the handlers do not show, and reading is a stutter.

### HttpServer

The listener and its children (`HttpServer.tla`).

| Variable | Code |
|---|---|
| `pc`, `client_sockfd` | the parent: in `accept`, between `accept` and `fork` (the reverse lookup of the client's host), or ended by `terminate(1)` |
| `queue` | the connections the kernel has established and the parent has not accepted |
| `fds` | the connections the parent has a descriptor of; it never closes one |
| `children` | the children in order of creation: connection, inherited descriptors, serving / spinning / ended; never removed, because nobody waits for them |
| `client` | whether a client has connected, and closed |

It abstracts `HttpSession`: a child that serves may end at any time (the client asks for
the end, a response closes, or the child dies: `pc \in {"exited", "crashed"}` there), and
once its client has closed it may loop (the counterexample of `session_close`). `accept` may
fail at any time, which ends the server (`AcceptFails`); with no descriptor left it must,
whether or not a client waits, as the kernel reserves the descriptor first. The listening
socket is inherited too: clients can connect to a server that has ended, as long as a child
lives.

### VpnControl

The daemon and the processes that send it commands (`VpnControl.tla`).

| Variable | Code |
|---|---|
| `benable` | `stopenvpn_flag.benable` |
| `sig` | `vpn_context.sig`: `"NULL"`, or the signal in its slot |
| `tunnels` | the threads in `openvpn_start`: `"created"`, `"running"` in `openvpn_client`, `"returned"`, `"done"` |
| `checkers` | the threads in `openvpn_check_connection_task`: where, and `lost_ping_count` |
| `pc`, `recv_buf`, `com` | `recvcgicmd`: where, its static buffer, the connection |
| `backlog`, `nconn` | the connections not accepted yet, and the number there have been |
| `nserial` | the calls of `vpnstartbyserialcmd` |
| `failed`, `overlooked` | history: whether a `pthread_create` has failed; the tunnels that a stop may miss |
| `link` | what `openvpn_get_connection_status`, `get_server_ip_by_route` and `ping` would find: no tunnel, a dead server, a server alive |

Each access to a shared variable is a step of its own where another thread may act in
between: `Start` sets the flag, `CreateTunnel` and `CreateChecker` follow; `Stop` clears it, 
`StopSignal` raises SIGHUP. Reads and writes of the flag are atomic (it is an int that
the code shares without a lock).

`openvpn_client` is a library the repository does not hold. The model takes of it what
`vpn.c` relies on, read kindly: it installs a signal slot without a signal when it
starts, handles SIGHUP by looking at `is_openvpn_enable()` and starting over or
returning, and may fail at any time (`GiveUp`). It does not look at the flag before its
first signal, as the serial start with its disabled `benable = ENABLE` (line 832) implies.
`checkconfigfile`, called before a restart, moves files and leaves the threads alone; but when
it cannot open `/home` it ends the process (`CannotOpenHome`, `vpn.c:58-62`), in a command
(`ExitInRestart`) or in a checker (`ExitInChecker`), whatever the other threads are at.

Two constants switch circumstances on: `ResourcesMayRunOut` (`accept`, `pthread_create` and
`opendir` may fail) and `SigPipeKills` (the write of the status to a client that has closed).
Nothing is assumed of the order of commands. `overlooked` collects the tunnels that, by
the code as it is, can be alive when the VPN is disabled and have no signal to see:

- one created while the VPN was disabled: by the serial start, which leaves the flag alone,
  or by a start whose flag the end of an earlier tunnel has cleared (`NewTunnel`);
- one that had not entered the library when it was stopped, so that there was no slot for
  the signal (`vpn.c:182`), or its entry replaced the slot (`StopSignal`);
- two that live at the same time on the one context (`NewTunnel`).

`DisabledGoesDown` and `StopTakesEffect` say that there is no fourth.

### CmdChannel

What the daemon promises to its clients: the abstract specification of `VpnControl`.
Connections wait in a queue (`waiting`), and the first one is served: `Receive` (its
byte, or the command before when there is none), then `Refuse`, or `Switch` and `Signal`
or `Started`, then `Finish`. `enabled` and `hangup` change as the command says, once;
besides, a tunnel may end, take its signal, or be signalled by the watchdog, and the daemon
may end at any moment (`Die`): between two commands, in a query or a restart, or by the
restart of a watchdog. Threads, the
static buffer as such, and the accepted connection apart from the backlog do not show.

`VpnControl!ImplementsChannel` is its `Spec` under the mapping

| CmdChannel | VpnControl |
|---|---|
| `waiting` | `Waiting`: the accepted connection, then the backlog |
| `phase` | `Phase`: `"idle"` in accept and read, `"received"` in `msgprocess` before its first effect, `"executing"` after the flag has changed, `"executed"` before `close`, `"gone"` when the command thread has ended |
| `command` | `recv_buf` |
| `enabled`, `hangup` | `benable`, `sig = "SIGHUP"` |

so that `Accept` is a stutter, and so are the steps of the checkers up to the signal.

### DeviceGet

`get.c`'s `http_get` in the children, composed with `CmdChannel` as the daemon.

| Variable | Code |
|---|---|
| `pc` | where each child may wait or be seen: before a request, in `http_get`, in `connect`, before the `write`, before `ok()`, or ended |
| `keep_alive` | the global of the child |
| `reqs`, `out`, `conns`, `done`, `unsent` | history: requests read, responses sent, connections made to the daemon, how many of them it has served, and the requests for which `opensocket` failed |
| `waiting`, `command`, `phase`, `enabled`, `hangup` | of the channel |

A request is a unit; taking it from the stream is `HttpSession`'s part. `connect` blocks
while the daemon serves a connection and `Backlog + 1` wait, as the kernel's queue holds
one more than `listen` says. `opensocket` may fail at any time (`ConnectFails`): `socket` for
lack of a descriptor, `connect` when nobody listens or for another reason; the client is told
200 all the same. A child may be killed between `connect` and `write` (`Vanish`), so that the
daemon reads the end of the stream and repeats the command before. `ok()` frees an array on
the stack, so that the child may abort after its response.

### HttpUpload and ConfigFiles

`HttpUpload` has the files: `home` maps names to inodes, `inodes` have blocks, and each
upload is a `child` with its own offset in the inode it has opened. A block is written
where the offset is, over what another child has put there, as `open` has no `O_TRUNC`;
a failing `write` is not looked at and its block is skipped. A block is a line as `read_line`
returns it: whether it was sent with LF, CR or both, it is stored with LF (`ReadLine`).

`ConfigFiles` extends it with `checkconfigfile`, run by the command thread and by a
checker: `OpenDir`, one `ReadDir` per entry that `readdir` returns (what is there from the
beginning is returned, what comes or goes meanwhile may be or not), `CloseDir`, and one
step per `mv`, which may fail. `img_path` and `aasave_path` are the static tables; an entry
of the latter is the buffer after `/home/config/`: `CopyName` puts a name over the
characters that are there, and since `memcpy` copies no NUL, the tail of a longer name
stays. The end of the process, killed between any two steps (`DaemonRestarts`) or by its own
`exit` when `opendir` fails (`OpenDirFails`), is followed by a new start: the tables are
empty, the batches of all threads have ended, and the files stay. Names are of files ending
in `.new`, without that ending, of which the table of ten has room for nine; they are
short enough for the 128 bytes of `szcmd` and the 256 of a table entry.

### PingProbe

The round of a checker that `VpnControl` has as an outcome: the look at `tun0` and its
route, a raw socket, the request, and what `select` and `recvfrom` get.

| Variable | Code |
|---|---|
| `pc`, `lost` | where each checker is in `openvpn_check_connection_task`, `ping` and `check_host_status`, and `lost_ping_count` |
| `arrived` | the first packet in the queue of its socket, the only one that is read |
| `leaked` | the descriptors left open by line 523 |
| `requests`, `answers`, `foreign` | packets on their way (requests and answers are alike), and how many of others there have been |
| `alive`, `tun` | the server; the interface and the rows of the routing table |

Every socket open when a packet arrives gets a copy, so that a checker takes the answer
to another one's request, or to its own earlier one, for its own.

### Responses, Base64, CheckSum, HeaderFields

Functions. `Responses` has the texts of the response writers in lines, with or without a
`Content-Length`, and the client's way to cut the stream into responses (RFC 7230);
`MCHttpSession` composes it with the session. `Base64` has `token_decode`,
`http_base64_decode`, `auth_user` and `check_authorization`, and the encoding of RFC 4648
as reference. `CheckSum` has `CheckSum()` with its two foldings, and the receiver's
end-around addition as reference. `HeaderFields` has the two if-chains of header names, with
`strncasecmp` over the length of the received name; `HttpSession` uses it.

### MC modules and proofs

`MCHttpSession`, `MCDeviceGet`, `MCConfigFiles` and `MCPingProbe` give values to the
constants of their modules, `MCAlgorithms` has the inputs of the functions, one to a
state. The theorems of section 4 are in `HttpSession_proofs`, `HttpServer_proofs`,
`VpnControl_proofs`, `PingProbe_proofs`, `DeviceGet_proofs`, `ConfigFiles_proofs` (with
those of `HttpUpload`) and `Algorithms_proofs` (`Base64`, `CheckSum`, and what `algorithms`
checks). `HeaderFields_proofs` has the lemmas that sessions and functions share: induction
and recursion over natural numbers, and which field each if-chain finds for a name.

## 3. Runs

| Run | Shows |
|---|---|
| `session` | With seventeen kinds of message (GETs with every header the handler obeys, uploads in curl's and in Chrome's format, missing, wrong and garbled credentials, credentials without a space in both methods, an upload without a boundary, a date that kills), any two of them, cut anywhere: the child stays on message boundaries (`AtMessageBoundary`), its responses answer the messages in order (`OneResponsePerRequest`) and by their own headers (`ResponseMeetsRequest`), the client finds each of them in the stream where it begins (`ResponsesDelimited`), the child ends with a response that closes and only then (`ExitIffClosing`), what arrives is answered (`Responds`), and the child implements `HttpService` (`ImplementsService`): an upload that was cut is never reported as stored, and a child that dies was sent a message that kills or has lost its client. |
| `session_any` | With messages that break the framing, crash the child, or upload to a file that cannot be opened: the cursor stays within the stream, `ExitIffClosing` holds all the same, and everything that arrives is consumed (`Drained`). |
| `server` | A child that lives has its connection and none that was accepted later (`OwnConnectionOnly`); an accepted connection has a child until the process table is full (`AcceptedIsServed`); nobody stays in the queue of a server that runs (`QueueMoves`). |
| `vpn_disabled` | In any order of three commands, with tunnels, `accept`, `pthread_create` and `opendir` failing: a disabled VPN has no tunnel without a SIGHUP to see, but for the `overlooked` ones (`DisabledGoesDown`), and a stop ends the tunnel that runs, with the same exceptions (`StopTakesEffect`). |
| `vpn_enabled` | In any order of two commands and a serial start, with `accept`, `pthread_create`, `opendir` and tunnels failing and SIGPIPE killing: the daemon implements `CmdChannel` (`ImplementsChannel`); an enabled VPN has a tunnel thread (`StillRunningIsTrue`) and a checker (`WatchedWhileEnabled`), until a thread could not be created; `DisabledGoesDown` holds with serial starts too; every connection is served in its turn (`CommandServed`); when the server of an enabled VPN stays dead, SIGHUP is raised and taken again and again (`WatchdogRestarts`). |
| `device` | Two children, which may be killed or get no socket, and a daemon that may die: what the daemon executes was asked for with good credentials (`CommandsAuthorised`), a command whose client was told 200 is handed over once and in order while the daemon is there, unless `opensocket` failed (`HandedOver`), every request is answered in its turn, device information twice (`ResponsesInOrder`), what the daemon waits to read is about to be written by a child that waits for nothing (`PendingIsWritten`), and nobody waits for ever (`Answered`). |
| `files` | Two uploads, two threads that move files, failing writes, moves and `opendir`, restarts: a completed upload is in its place in the file it was opened as (`UploadStored`), and a batch loses no file unless another shares its tables or one of its names begins with another (`NothingLost`). |
| `ping` | Two checkers that get each other's answers: only packets of others leave a socket open (`LeakIsForeign`), and every checker notices a server that stays dead, as long as there are descriptors (`DeadServerNoticed`). |
| `algorithms` | Decoding against encoding (`DecodesWhatWasEncoded`), the account check (`AuthorizedIffAccount`), the checksum against its receiver (`ServerAccepts`), header names (`FieldsFound`). |

Runs that find a violation; each quotes the comment or message it contradicts in
`PROJECT.json`, "findings":

| Run | Shows |
|---|---|
| `session_close` | The child of a client that has closed in its headers loops for ever in `read_headers` (`http_server.c:625-631`); the keep-alive loop (986) and `write_file` have loops of the same kind. |
| `vpn_stop` | A start, a stop before `openvpn_client` has set `vpn_context.sig`: the flag is cleared and nobody signalled (`vpn.c:182`); the tunnel comes up and runs on, and the next stop is refused (`vpn.c:716`). |
| `files_moved` | Each file is moved to the name of the one before it (`vpn.c:75`). |

Seen while modelling, in the model, and without a run of their own:

- after a method other than GET and POST the rest of the message is read as requests
  (`MethodNotAllowed`, `http_server.c:868`);
- the body of a GET may be left in the stream, depending on memory that `read` has not
  filled (`StopAtMarker`, `http_server.c:345`);
- `Accept` is taken for `Accept-Language` by a GET (`FieldsFound`, `http_server.c:710`);
- a `Connection: close` in the headers of a POST is not looked at (`PostHeaderGlobals`,
  `http_post.c:133-198`), so that `Closes` is of GETs only;
- credentials without a space end the child in the headers (`NoSpace`, `http_server.c:802`,
  `http_post.c:137`);
- a readable If-Modified-Since date ends the child (`GetHeaderCrash`, `http_server.c:702`);
- the parent and later children keep the descriptor of a child that has ended, so that
  its client does not see the end (`http_server.c:970`); a 401, which has no length, is
  then never complete for it (`ResponsesDelimited`);
- a connection without a byte repeats the last command (`Read`, `vpn.c:799`), as
  `CmdChannel!Receive` says;
- a restart of a disabled VPN says there is no need and raises SIGHUP (`Restart`,
  `vpn.c:732`); after a failed `pthread_create` the flag stays set (`CreateFails`,
  `vpn.c:690`); a checker that did not look while the flag was clear survives a stop
  (`vpn.c:638`);
- a daemon that cannot open `/home` before a restart ends, tunnels and all
  (`CannotOpenHome`, `vpn.c:58`);
- device information gets two responses (`DeviceInfo` and `Ok`, `get.c:222` and 297), which
  the client of a kept connection takes for those to two requests; and 200 is told whether
  or not the command could be sent (`ConnectFails`, `get.c:55-60` and 79-83);
- an uploaded file keeps the tail of a longer one before it (`OpenFile`); a CR in it, alone or
  before LF, is replaced or dropped (`ReadLine`, `http_server.c:319-331`);
- a name that is the beginning of another can be given the other's path, by the tail its buffer
  has kept: after a batch in which `xx.crt` had the place of `ca` now, `ca` is moved to `ca.crt`,
  over the file that an earlier move of the same batch has put there (`CopyName`, `vpn.c:75-76`);
- a sign outside the alphabet counts as -1 (`Digit`, `http_server.c:108`).

### Bounds

Two messages on a connection (`MaxMessages`), enough for what one request leaves to the
next. `vpn_disabled`: three commands (`MaxCommands`), a start, a stop and a start again being
the shortest way to overlapping threads, no serial start, and `Backlog = 0`, by which one
connection may wait besides the one served. `vpn_enabled`: two commands with one serial start
(`MaxSerial`) and `Backlog = 1` (the code has 5). `server`: four connections, three
descriptors and two places in the process table for the listener, so that the table fills
before the descriptors do, and the server ends with a client waiting.

`device`: three requests between two children (`MaxRequests`) and `Backlog = 0`, so that the
queue of the daemon fills with two children and `connect` does block. `files`: three names, two
of length 1 and one of length 2, of which none begins with another, and of which two are there
at the start; all three make a batch (`MinFiles = 3` in place of 5), so that it has two moves
with a destination and they can meet; a batch after another (`MaxBatches = 2`) finds the tails
that the first has left; one line in an upload (`MaxBlocks`). `ping`: two checkers and four descriptors
(`MaxFds`), so that the leaks of two packets of others (`MaxForeign`) use them up; two
packets in the network (`MaxFlying`), a request beyond them being lost, as it may be
anyway; three interfaces: down, with a usable route, and with a row that cannot be read.
`algorithms`: up to three bytes at the edges of signs and bytes, before and after another
group; credentials of up to five characters out of two letters, colon and NUL; texts of
up to five signs with padding and junk anywhere; messages of up to four words; every
name of a field.

`files` uses symmetry of the uploads and of the threads: it checks invariants only, and
neither set is treated otherwise than by its elements. Deadlock is not checked where a
child exits or commands, connections, uploads and batches are bounded, so that the system
may stop; `ping` and `algorithms` check it.

### Fairness

`HttpSession!FairSpec` has weak fairness of the child's steps: the system
schedules a runnable process. It forces neither the client, nor signals, nor the
outcomes of undefined behaviour. `HttpServer!FairSpec` has it of the parent's steps
only (`Scheduled`): `accept` is forced to fail only when no descriptor is free.
`VpnControl!FairSpec` has weak fairness of the command thread, of each tunnel thread and each checker, and of a CGI process that has
connected, which `sendcmdtoopenvpn` lets write or close without waiting. It forces no
connection, no failure and no change of the link; a tunnel that nobody stops runs on.
`DeviceGet!FairSpec` has it of the daemon's service and of each child's steps (`Scheduled`), but
not of requests, the daemon's death, a tunnel's end, or an `opensocket` that fails with the
daemon there: a `connect` that waits is not rescued by a failure. `PingProbe!Spec` has it of each checker
(`select` waits five seconds at most) and of the network as a whole: a packet does not stay
on its way for ever, but may be lost. `ConfigFiles` states safety only.

## 4. Proofs

`tlapm` checks every proof for all values of the constants that satisfy the named
assumptions of the modules: `SessionAssumption` (well-formed messages),
`ServerAssumption`, `VpnAssumption`, `PingAssumption` (finitely many checkers),
`UploadAssumption`, `ConfigAssumption` (nine names at most, what the tables have room
for), `DeviceAssumption` (finitely many children) and `AccountsAssumption` (names
without a colon, and no NUL in names or passwords, as in the table of
`http_server.c:70`). TLC evaluates each of them in a run. What a theorem assumes besides is in its
`ASSUME`, and there is a run whose constants satisfy it. Each component has
`TypeCorrect`, `Spec => []TypeOK`, first.

### HttpSession

For any set of messages, any number of them on a connection, and a client that cuts them
anywhere:

- `ExitsOnClosingResponse`: `[]ExitIffClosing`. `Serving` says which message a handler is for and
  how far its headers have been read, `Asked` that `keep_alive` is what the headers read so
  far say, whatever the body. It says of a GET that it is heard when it asks for the close,
  and nothing of the kind of a POST. Hypothesis `NoEmptyName`: a header without a name matches
  the first entry of the if-chain (`strncasecmp` over no characters), so that the statement is
  false with one.
- `FramingIsKept`: `[](AtMessageBoundary /\ OneResponsePerRequest)`. Neither is inductive:
  a handler far from the top of the loop must know where the stream stands and how many
  responses there are. `Framed` says so for each part of the handlers: in the headers of
  a request, the cursor is in its message; after them, at the beginning of the body, or of
  the next message if there is none; in an upload, at a line that stands in a fixed
  relation to `ilength` and the delimiters (`InUploadAt`); and the number of responses is
  that of the messages consumed, less the one being answered. Hypothesis `WellFramed`: a
  body is one the handlers can delimit, i.e. a GET has none, and a POST has none, or a length
  and the delimiters of an upload, or no good credentials, upon which the connection ends; and
  the file can be opened. Without it the statement is false: a GET's body may be left unread.
- `ResponsesMeetRequests`: `[]ResponseMeetsRequest`. `Said` adds what each global says of the
  headers read so far, which is where a value kept from the request before would show.
  Hypotheses `WellFramed`, `NoEmptyName`, and `NoDashedCredentials`: a header line that looks
  like a delimiter is taken for one, and its credentials are not seen.

- `ResponsesAreDelimited`: `[]ResponsesDelimited`, for any messages at all. `ClientFinds`, by
  induction over the responses, says that the client's reading of the whole text is, at the
  end of each response's text, at a beginning again with the responses so far, as long as
  none without a length comes before; `PageRead` and `OpenPageRead` follow it through one
  response, of any body, line by line. The invariant `NothingAfterUnsized` adds that a 401
  is the last response and its child has ended.

- `ChildImplementsService`: `Spec => ImplementsService`, under the same three hypotheses. A
  reply is mapped once (`ReplyMaps`): that it answers the next message, as called for, and
  ends the child as it should, is what the invariants above say after the step. That
  enough has arrived needs `Consumed` (no line is read that has not arrived) with the place
  of the cursor from `Framed`. That a crash has a cause in its message needs `Fit`: the
  credentials, the boundary and the file name that the handler has kept are those of the
  message, so that one is missing only if the message lacks it.

The messages of `session` satisfy all three hypotheses, those of `session_any` the last two.

### VpnControl

For any number of commands, tunnels and checkers:

- `EnabledHasThreads`: `[](StillRunningIsTrue /\ WatchedWhileEnabled)`. Together the two are
  inductive (`EnabledIsLive`): a thread that ends clears the flag or has seen it clear, and a
  start, which sets it, creates both threads before the command thread does anything
  else. The conclusion is that a start is never refused wrongly, until `pthread_create` fails.
- `DisabledVpnGoesDown`: `[]DisabledGoesDown`, in any order of commands and serial starts,
  whatever fails. `StopInv` makes it inductive: a tunnel that runs has a slot for signals
  (`SlotInUse`), one that is not overlooked lives alone (`Alone`), so that the one slot is its
  own, and none that is not overlooked is still to enter the library while the VPN is disabled
  (`CreatedEnabled`), where it would take the place of the signal.
- `DaemonImplementsChannel`: `Spec => ImplementsChannel`, in any order of
  commands. One lemma per action shows that it is a step of `CmdChannel` or leaves its
  variables alone. That needs the invariant `Placed`: the command thread has a connection
  exactly from `accept` to `close`, and where it stands in `msgprocess` tells which command
  it executes; without it a `CreateTunnel` could be any command's.

### HttpServer

- `ChildrenAndConnections`: `[](OwnConnectionOnly /\ AcceptedIsServed)`, for any number of
  clients, descriptors and processes. The invariant `IInv` adds what holds before a
  connection is accepted: it is in the queue once, no process has a descriptor of it, no
  child serves it; and one that has not been made is nowhere. Without it a child could have
  been forked with a descriptor of a connection that is accepted later.

### DeviceGet

For any number of children, any requests and any backlog, whether or not the daemon dies.
The properties relate connections to responses; what leads from one to the other is where a
child is between `connect` and `ok()`, and what its connection still brings. `DeviceInv` says
so in three parts: `AtHand`, the request each child is busy with; `CommandInv`, that a
connection is for a request with good credentials and brings its command or nothing yet,
that the command being executed came with one of them, and that a child's connections are in
the order of its requests, handed over before the 200; and `Answers`, that the last response is
to the request before the one at hand.

- `OnlyAuthorisedCommands`: `[]CommandsAuthorised`.
- `CommandsReachDaemon`: `[]HandedOver`. `Apart` keeps the requests for which `opensocket` has
  failed apart from those that have a connection.
- `ResponsesKeepOrder`: `[]ResponsesInOrder`.
- `NobodyWaitsInCircle`: `[]PendingIsWritten`, the part of `Answered` that is safety: the
  daemon's `read` and the calls of `connect` that its full queue holds up wait for a child that
  is about to write. `AreWritten` says the same of every connection made; that it stays so
  takes the order of a child's connections, as a write must be on its last one.
- `ChildrenUseChannel`: `Spec => Channel!Spec`. The children write as `CmdChannel` lets clients
  do; with `DaemonImplementsChannel`, both sides keep to the one description of the channel.

### HttpUpload and ConfigFiles

For any number of uploads, threads, blocks and restarts in any interleaving:

- `BatchLosesNothing`: `[]NothingLost`. A file is lost when one move goes to the path of
  another. `KeepInv` says why none does in a batch that is alone and has read no name that
  begins with another (`PrefixFree`): each path begins with the name that was copied into its
  buffer, whatever tail is left behind it (`PathsOfFound`), so that two equal paths would be
  of two names of which one begins with the other; the names read are different
  (`SourcesDistinct`); and what has been moved is at a path that no later move goes to
  (`BatchKeeps`). Without `PrefixFree` it is false: see section 3. It rests on the lemma that
  `home` and `config` give no inode two names, for which `FilesInv` carries the number of a
  batch's names (`BatchSize`).
- `UploadsAreStored`: `[]UploadStored`. `StoredInv`: each block in a file is one that a child
  of this file has written, in its place unless one of its writes has failed; a child
  without a failed write is where it has read to; and no upload that was complete before
  has a block in what it has written.

### PingProbe

- `LeaksAreForeign`: `[]LeakIsForeign`, for any number of checkers, descriptors and packets.
  The bound on `leaked` is not inductive, as a packet of another host costs its descriptor
  later than it arrives; `StrayPackets` adds the sockets at which one still waits. `TypeOK`
  includes that descriptors stay within their limit.

### Base64 and CheckSum

What the functions compute, for every input:

- `RequestsAreAccepted`: any message of up to 32768 words (the code's has 32) is accepted with
  the checksum that `CheckSum()` makes of it, wherever in it that is. It rests on
  `FoldAddsWords`: for every sum below 2^31, adding a word and folding is the same as
  folding and adding the word with end-around carry.
- `EncodedIsDecoded`: any bytes come back from their encoding, up to the size of the buffer,
  with an error exactly when it is too small; also when a carriage return follows. A group
  of one, two or three bytes comes back from its token (`GroupDecodes`), and k tokens write
  what k groups hold.
- `AuthorizedIffPresented`: for any text, and any accounts, authorized means that the decoded
  bytes present an account up to their first NUL.

`ServerAcceptsRequests`, `CredentialsSurvive` and `AccountsAreAuthorized` conclude the
invariants of `algorithms` from them, `FieldsAreFound` that of the header names from
`GetFieldNames` and `PostFieldNames`: for each name, the first field of the chain that begins
with it. The induction on the length of the input is
first-order: recursive functions exist (`Recursion`), and a property of 0 that goes on from
i - 1 to i holds up to n, since the numbers without it would have a least one (`LeastNumber`,
`UpTo`); the property is a set there, as the library's induction theorems take an operator,
which the provers cannot instantiate.

### Only model-checked

- Liveness under fairness (`Responds`, `Drained`, `QueueMoves`, `StopTakesEffect`,
  `CommandServed`, `WatchdogRestarts`, `Answered`, `DeadServerNoticed`), which is out of the
  prover's reach.

Every safety invariant that a run checks is a theorem.

## 5. Plan

1. `HttpSession`, `VpnControl`, `HttpServer`, with their first theorems. *Done.*
2. `CmdChannel`, implemented by `VpnControl`, and `HttpService`, implemented by
   `HttpSession`, checked and proved. *Done.*
3. `HttpUpload`, `ConfigFiles`, `PingProbe`, `DeviceGet`. *Done.*
4. The functions: `Base64`, `CheckSum`, `HeaderFields`, `Responses`. *Done.*
5. The safety invariants of every component as theorems. *Done.*

## 6. Not modelled

- Certificate update and the accessors for a configuration tool (`vpn.c` 208-253 and 280-336):
  `openvpn_update_openvpn_file`, `get_vpn_ip` and the rest are called by nothing in the
  repository, so that there is no behaviour to compose them with.
- `not_modified` (304) and `server_error`: no path reaches them. `analysis_request` is
  never called.
- Socket setup failures before the first accept: nothing runs yet.
- Continuation lines of headers, and body lines that look like a request line.
- More than nine configuration files: the tables have ten entries and the code does not
  look; names that do not end in `.new`, which `readFileList` passes over.
- Wording of responses beyond the lines that delimit them, logging, the timestamp.
- Memory safety of the string handling beyond the NULL pointers named above: the lengths of
  lines, of header values, and of the paths that `snprintf` puts into `szcmd[128]`.
- Timing: `sleep(10)`, `sleep(5)` and the `select` timeout are points where other threads
  may act, without a duration.
