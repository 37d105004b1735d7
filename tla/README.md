# Verification of Virtlyst

Virtlyst is a web interface for libvirt: a C++ application of the Cutelyst
framework (`src/src/*.cpp`, `src/src/lib/*.cpp`) that lists hosts, domains,
storage, networks, interfaces and secrets, changes them on request, draws usage
charts and proxies graphical consoles over websockets. The consoles themselves
run in the browser, in the JavaScript clients the repository brings along:
noVNC (`root/static/js/novnc`) and spice-html5 (`root/static/js/spice-html5`).
This directory models the behaviour of both sides in TLA+, checks the models
with TLC and proves the central results with TLAPS.

To check a model, `tlc -config registry.cfg MCConnectionRegistry` (the
table of runs below names module and configuration of each); to check the
proofs of a module, `tlapm ConnectionRegistryProofs.tla`.

## Inventory

| Part | Code | State | Operations | What is hard |
|---|---|---|---|---|
| Application and registry | `virtlyst.cpp`, `virtlyst.h`, `root.cpp` (Auto) | per worker thread `m_connections: id -> ServerConn`; the table `servers_compute` shared by the workers | `init`, `postFork`, `updateConnections`, `servers`, `connection`, `ServerConn::clone` | one registry per thread over one table; entries replaced while requests use them; a failed query empties the registry; id reuse |
| libvirt connection | `lib/connection.cpp` | `m_conn`, a reference-counted `virConnectPtr` | open, clone, close, `isAlive`; lookups and creation of domains, networks, interfaces, secrets, pools | manual reference counting; a broken link still counts as alive until used; nested event loops |
| Hosts page | `server.cpp` | rows of `servers_compute` | add, edit, delete | edits reach other workers only at their next request |
| Database set-up | `virtlyst.cpp` (`init`, `createDB`) | the SQLite file | create tables, first user, flavors | not transactional: a crash or a failed statement half way leaves a file that is never completed |
| Login and users | `root.cpp`, `users.cpp`, `sqluserstore.cpp` | table `users`, session | login, logout, create, edit, change password | uniqueness, rules applied on one path and not on another |
| Instances | `instances.cpp`, `lib/domain.cpp`, `lib/domainsnapshot.cpp` | domains of a host, their XML, cached status | start, shutdown, destroy, suspend, resume, save, delete, snapshots, ISO media, settings, console | several users at once; read-modify-write of the XML; multi-step delete with results ignored; cached status |
| Creating instances | `create.cpp`, `lib/connection.cpp` (`createDomain`) | volumes, domains, flavors | by flavor, custom, template, XML | volume first, domain second, no undo |
| Storage | `storages.cpp`, `lib/storagepool.cpp`, `lib/storagevol.cpp` | pools, volumes, cached volume lists | define/build/create pools, volumes, clone, delete | multi-step pool creation reported as success |
| Networks, interfaces, secrets | `networks.cpp`, `interfaces.cpp`, `secrets.cpp`, `lib/*.cpp` | libvirt objects | create, start, stop, delete | |
| Usage charts | `info.cpp`, `Connection::allCpusUsage`, `Domain::getStats` | history windows in cookies | sample over one second in a nested event loop | nested loops unwind last-in first-out; parallel polls share the cookies |
| Console proxy | `ws.cpp`, `console.cpp` | TCP socket, buffer, websocket, ssh process | connect, buffer, forward, close, tunnel | asynchronous connect; frames before the connect; tunnels of several sessions share local ports |
| VNC page: protocol | `novnc/rfb.js`, `websock.js`, `console-vnc.html` | `rfb_state`, receive and send queues, `FBU`, timers | handshake, messages, key and pointer events, connect, disconnect | bytes cut anywhere, so that each handler must resume where it was; timers that outlive a connection |
| VNC page: input | `novnc/input.js` | list of keys that are down, button mask | keydown, keypress, keyup, blur, mouse, shortcuts | one key is three events; focus is lost with keys down |
| VNC page: canvas | `novnc/display.js` | drawing queue, viewport and `cleanRect` | draw, scan, resize, scroll, ask for updates | images are decoded in the browser's own time |
| SPICE page: channels | `spiceconn.js`, `wire.js` | `state`, the reader's request and buffers, ack counter, timer | link, authenticate, read messages, ack, time out, stop | frames cut anywhere; a handler that throws |
| SPICE page: main channel | `main.js`, `resize.js`, `console-spice.html` | child connections, agent and its tokens and queue | channel list, agent messages, mouse mode, stop | tokens come with the agent and on their own; channels of one name |
| SPICE page: input | `inputs.js`, `cursor.js` | modifier states, pointer, motions to be acked | keys, mouse, modes | modifiers change without the page; motions are discarded |
| SPICE page: canvas | `display.js` | surfaces, image cache, images being decoded | create, draw, copy, stream, invalidate, destroy | JPEGs are drawn late, when surface or cache may have changed |
| SPICE page: sound | `playback.js`, `webm.js` | source buffer, queue, cluster and gap times | start, data, mode, `updateend` | the buffer takes one piece at a time and may refuse |
| Console layouts | `spicemsg.js`, `spicetype.js`, `spicedataview.js`, `lz.js`, `webm.js`, `png.js`, `simulatecursor.js`, `novnc/base64.js` | none | read and write messages, unpack pictures, make files | sizes and writing are separate code; writes past the end vanish |
| Pages | `overview.cpp`, `infrastructure.cpp`, `root/src/*.html` | none | render | |

### How the parts interact

A Cutelyst server has several worker threads, each with its own `Virtlyst`
object. A request runs on one worker from beginning to end. Before any page,
`Root::Auto` calls `updateConnections`, which reads the table of hosts and makes
the worker's registry agree with it. A page asks the registry for a host
(`Virtlyst::connection`, `servers`), gets a clone of the host's `Connection`
that belongs to the request, and calls libvirt through it. Workers share
nothing but the SQLite file and, of course, the hosts.

A worker handles one request at a time, with three exceptions that make most of
the difficulties:

* The charts wait a second in a nested `QEventLoop`. Other requests of the same
  worker are then served on top of it, and change the registry under it.
* A console keeps its `Context`, with its clone and its TCP socket, as long as
  the websocket is open, and goes on in callbacks.
* A console of a host behind ssh starts an `ssh` process and blocks the thread
  in `waitForReadyRead`.

Between workers, and between users of libvirt, everything interleaves at the
granularity of single libvirt calls and single SQL statements.

A console page opens a WebSocket to `Ws::index` (one per channel with SPICE)
and speaks the display protocol through it. In the page every event handler runs
to completion; what interleaves is the order of the events: WebSocket frames,
which cut the protocol's messages anywhere, timers, keys and mouse, the end of
image decoding and of sound buffering, and the page's own buttons.

### What makes each part correct

* **Registry**: no `virConnectPtr` is closed while a request can use it, none is
  leaked; a request sees exactly the hosts the table named when it arrived and
  is connected to those; a host that failed is reconnected; registries of
  different workers converge.
* **Console**: bytes arrive in order and once, apart from what the code is known
  to drop; the browser learns of the end; no ssh process is leaked; a session
  shows the display of its own host.
* **Accounts**: user names stay unique, accounts survive restarts, an
  undisturbed first start makes a complete database, a server can be restarted
  whatever happened.
* **Instances**: an edit takes back nothing but what was changed while it was
  made; a deletion leaves nothing but what libvirt refused or did not find, and
  what was changed meanwhile.
* **Provisioning**: a new domain has the disks that were asked for and shares
  none by accident; a new pool comes up.
* **Charts**: a history is aligned, covers what its unit says and recovers from
  disturbances.
* **Console pages**: bytes are taken for what the server sent however frames are
  cut, and nothing that has arrived is forgotten; what is sent keeps its order;
  no key stays down in the guest; the pointers of browser and guest agree; the
  canvas shows what was drawn last; sound comes in order; what is declared of a
  message is what is written, and all of a message is read.

## Plan and modules

Modelled in this order, the most consequential first:

| Module | Models | Abstract specification | Checked by | Proofs |
|---|---|---|---|---|
| `ConnectionRegistry` | registry, connections, hosts page, request handling | `HostLeases` | `registry`, `registry_liveness` | `ConnectionRegistryProofs` |
| `ConsoleStream` | one console session in the server, its bytes | `ConsolePipe` | `console` | `ConsoleProofs` |
| `ConsoleTunnel` | how sessions reach displays, ssh processes | | `console` | `ConsoleProofs` |
| `Accounts` | `init`, `createDB`, users, login | | `accounts`, `accounts_default` | `AccountsProofs` |
| `Instances` | one domain under several requests | | `instances` | `InstancesProofs` |
| `Provisioning` | creation of domains and pools | | `provisioning` | `ProvisioningProofs` |
| `UsageCharts` | charts and their cookies | | `usage_charts` | `UsageChartsProofs` |
| `RfbProtocol`, `RfbClient` | VNC page: message handlers; state machine, timers, sockets | | `vnc` | `ConsoleProofs` |
| `VncInput` | VNC page: keyboard and mouse | | `vnc` | `ConsoleProofs` |
| `RenderQueue` | VNC page: drawing queue | | `vnc` | `ConsoleProofs` |
| `Viewport` | VNC page: viewport and update requests | | `vnc` | `ConsoleProofs` |
| `SpiceChannel` | a SPICE channel: link, reader, acks, timer | | `spice` | `SpiceProofs` |
| `SpiceSession` | SPICE main channel, its children, the agent | | `spice`, `spice_resize` | `SpiceProofs` |
| `SpiceInputs` | SPICE keyboard, mouse and pointer modes | | `spice` | `SpiceProofs` |
| `SpiceDisplay` | SPICE surfaces, image cache, JPEGs | | `spice_display` | `SpiceProofs` |
| `SpicePlayback` | SPICE sound | | `spice` | `SpiceProofs` |
| `ConsoleWire` | layouts of messages and files, LZ, base64 | | `spice` | `SpiceProofs` |

The `MC` modules hold the values of constants that a `.cfg` cannot write, and
the symmetry sets. `ConsoleStream` and `ConsoleTunnel` meet at the TCP
connection, which the first starts from and the second ends in; they are
separate because neither needs the other's state, and `MCConsole` checks the one
and the other in one run. `ConnectionRegistry` already
composes the registry with the nested event loops of the charts and with the
long life of consoles (`EnterNestedLoop`, `KeepWebSocket`), so the other modules
take their connection for granted.

The parts of a console page are components that share no state but what one
assumes of another (a handler that throws ends a channel, the inputs channel is
told the mouse mode). `MCVnc` and `MCSpice` put them side by side in one
specification, in which a part moves only while the others are in their initial
state: what TLC explores is the sum of the parts and not their product, which
would show nothing more. `MCConsole` does the same; none of the fair actions of a
half is enabled in its initial state, so that the fairness of the half that rests
asks nothing of the other. SPICE's display has a run of its own, for its symmetry.

Names follow the code where TLA+ allows. A definition next to `X` that is named
`X_Something`, in the modules of the pages `X_X`, is `X` with a plausible fault;
no specification uses it. Replacing `X` by it makes TLC report a violation of
the property it is listed with in `PROJECT.json`: that is how each property is
known to depend on the code.

### ConnectionRegistry and HostLeases

The state is the table `db`, libvirt's side of each `virConnectPtr` (references,
host, whether the link is up), each worker's `ServerConn` fields (`servers`),
the `m_conn` of every `Connection` object (`mconn`), and the handlers on each
worker's stack. An *owner* of a `Connection` is a worker's registry, a request's
context, or a pending `deleteLater`. `Arrive`, `UpdateRow` (once per row),
`EraseServer` (once per vanished id) and `StartAction` are `Root::Auto`; the
pages then borrow clones (`GetConnection`, `ListServer`), use them
(`CallLibvirt`), wait in a nested loop (`EnterNestedLoop`, `TimerFires`,
`LeaveNestedLoop`) or hand over to a websocket, and end (`Respond`, `Finish`).
A step of the model is what a thread does between two points at which others
can notice. Environment: `HostDown`, `HostUp`, edits of the table, failing
queries; each is bounded (`MaxOutages`, `MaxEdits`, `MaxFailures`).

`HostLeases` says what is promised without registry, cache or counts: a request
reads the table once; a connection it is given leads to the host it read and
stays usable until given back. The refinement mapping reads a clone whose
pointer has no references left as `"revoked"`, which no abstract step produces.

### ConsoleStream and ConsolePipe

`sock` follows `QTcpSocket::state()`, with the extra value `failedAtOnce` for a
connect that fails before the lambdas are connected to `errorOccurred`. `buf` is
the `QBuffer` with contents and cursor, since what the code does before the
connection depends on them: `open` rewinds, `write` overwrites, `readAll` starts
at the cursor. (Qt versions in which opening an open `QBuffer` is refused would
not rewind; the model has the rewinding one.) Bytes are numbered, so that loss,
duplication and reordering can be told apart. Bytes sent before the connection
are largely lost by the code as it is; `DirectBytesInOrder` states what is still
right then. Towards the browser the module implements `ConsolePipe`.

### ConsoleTunnel

A session is opened for one of the displays in `Consoles`, pairs of host and
port number. `Open` allows every route for every display, since `url` and
`listen` address are configuration: directly, through the web server's loopback
address, or with ssh. `LocalPort` is the remote port's number, as in the code,
and it is *one* number space for all sessions of all workers: whoever binds it
first has it. `via` and `peer` record where a TCP connection really went.

### Accounts

`Execute` runs statement number `next` of `createDB`; before each the process
may be killed, and any may fail. Tables, flavors and users are the rows the file
has. Passwords and names are model values; `Short` are the passwords that
`Users::create` refuses. `edited` becomes true with the first edit of a user.

### Instances

One domain, whose persistent definition, live definition, managed save image,
snapshot and volumes are libvirt's state; a definition is a function from parts
to the last request that wrote the part, or `Absent` where there is no such element:
`createDomain` writes no description, and a domain may have no graphics or CD
drive (`Missing`). Every request holds the status and XML it has read
(`Domain::m_info`, `m_xml`) and makes one libvirt call per step, so that
all requests interleave; every call may be refused, which the handlers do not
look at. `Edited` is what the setters do to the cached document: an element that is
not there is not made (`setDataToSimpleNode`, `setConsoleType` and the like), so
that only the text of `change_xml` brings one in. The status or XML may not be
readable. `ListDisks` lists every disk, with an empty path where the source is no
file (`Files` are those that have one; the network disks that
`Connection::createDomain` writes have none), and `DeleteVolume` passes over a disk
for which no volume is found, and goes on after one that libvirt would not delete.

Three history variables say what the properties except. `refused` are the calls of
a deletion that libvirt refused and the volumes it did not delete; `quiet`: nobody
else has changed the domain since the deletion began; `moved` are the parts that
others changed since an edit began, or that were one thing in the running domain
and another in the persistent definition. `DeletionIsComplete` and `EditsCompose`
hold of *every* deletion and edit, however they overlap: they say what may be left
or lost and for which reason, and that there is no other. That a deletion goes on
with a paused domain, leaves network disks, or loses the disks of a domain it cannot
undefine, is what the code does, and stands in the property.

### Provisioning

Pools, volumes and domains by name; the four ways to create a domain, and the
creation of a pool of every type, one libvirt call per step, each of which libvirt
may refuse (`Refused`). The pool pages and the deletion of domains are the other
page that changes the host meanwhile.

### UsageCharts

The browser keeps one set of cookies (`jar`) per directory of the request path:
one for all hosts, one for all domains of a host. A request carries a copy,
waits its second on a stack of nested loops, and its answer overwrites the
browser's. A sample is the number of its request and the span of time between
its two readings. `overrun` and `streak` are history variables: the samples that
were disturbed while taken, and the latest run of samples nobody disturbed.
Time passes in ticks, and not while a loop could return: a thread is otherwise
assumed to be free, so that what the properties say about spans is about nesting
and not about load.

### RfbProtocol and RfbClient

`RfbProtocol` has no state: it is what the message handlers of `rfb.js` do to
the receive queue, as operators on a record. The server's bytes are a sequence
of units, each with the lengths its handler waits for one after the other
(`rQwait`); `avail` counts how many bytes of them have arrived. A handler that
finds too few returns, leaves what it remembers in `FBU`, and runs again from
there or from the start of the message, as the code does. `lost` notes when a
handler takes bytes for something they are not. A type of message that is read
where `rQ` has no byte is `undefined`, which `normal_msg` takes for an illegal one;
that happens when the timer of an update comes after a colour map without colours
whose header arrived in two pieces. The end of `RfbProtocol` says which messages
follow the protocol (`Complete`): which part may come after which, how long it is
at least, and that rectangles are not empty. `RfbClient` has the state machine
(`updateState`), the WebSocket's events, the timers (`timers`, those that belong
to a socket in `ending` and `asking`, and the number of chains of `checkEvents`),
the sending queue `sQ` with its flush, and the mouse events that are held back
(`mouse_arr`). `stale` and `late` are history variables: a
timer of an earlier connection was left over, a password was given out of turn.

### VncInput, RenderQueue, Viewport

`VncInput` relates `keyDownList` and the sent events to the keys and buttons that
are really down (`held`, `buttons`) and those the server believes down
(`pressed`, `mask`). `RenderQueue` has the queue, the animation frames that
are owed (`frames`), and the canvas, next to the canvas as it would be if every
rectangle were drawn when it came (`sentInOrder`). `Viewport` has the cells
that were drawn (`shown`) next to `cleanRect`, from which requests are made.

### SpiceChannel and SpiceSession

A channel's bytes arrive in frames of any size; `rd` is `wire.js`'s reader with
its request and saved header. Each run of bytes handed over is compared with the
piece the server sent (`garbled`). A handler may throw, which skips the requests
at the end of `process_inbound`. The ack window is counted on both sides; the
server takes an ack as one of its last SET_ACK's only after the `ACK_SYNC` that
answers that one (`Answered`: its generation), so that two of them may be on their
way at a time. The main channel's `timeout` is the only thing fairness is needed for.
`SpiceSession` takes a message in one step and follows the connections the main
channel makes (`live`, and `displaced` for one whose place another has taken),
and the agent's tokens and queue. The page's `agent_connected` is part of the
handler of an agent's arrival: with no message area (`MessageArea = FALSE`, as
in `console-spice.html`) it throws.

### SpiceInputs, SpiceDisplay, SpicePlayback

`SpiceInputs` has the page's belief (`states`, `mousex`) next to the guest's
truth (`guestMods`, `guestX`), with motions and acks in flight. The user has keys
on both sides of the keyboard, which the flags of an event and the key codes do not
tell apart: with both Shifts held, letting one go makes the page send that Shift is
down, because the flag says so, and then that it is up. It goes on believing the
first; such a modifier is `lost` until its next key or shortcut, and excepted from
`ModifiersTracked`. Only the mode "client" adds to a position what the page is
scrolled by (`scroll`); `counted` is what `mousex` leaves out of it. `CursorInit`
changes a field that no motion reads (`initX`), so that in the mode "server" the
pointers agree only if the guest's was at the corner at first. `missed` notes that
the guest was not told of all of the pointer's way: it was elsewhere at first, a
motion was discarded, or the page was scrolled between two of them.

`SpiceDisplay` follows one part of each surface, which every picture covers: which
canvas the surface has, whether it has alpha (`argb`), whether alpha would show
where a new picture comes (`paint`), and whether it shows what the server drew last
(`right`). A picture is an image and what has become of its alpha: its own, none
since `stripAlpha`, which changes the cached ImageData as well, the wrong one, from
the blue of a bitmap of format RGBA, or `"cut"`, the box of the canvas that a JPEG
without alpha is cached as. Where alpha counts, `putImageDataWithAlpha` blends
(`Blends`) instead of replacing. Image ids go under the key `getUint64` makes of
them, where `<< 32` is no shift and the halves are or'ed, so that ids share a key.
`serverCache` is the server's account of what it had cached, from the messages it
sent: whole, perhaps without alpha, or unknown. `doubt` are the canvases whose last
picture cannot be right by what is known from the messages: of a kind the client
says it does not draw or draws as if it were plain (`FIXME` in its log: formats and
types, brushes that are not solid, clips, masks, raster operations, parts of an
image), with alpha that would have to replace what is there, from the cache though
the client could not keep it or another image has its key, copied from a doubtful
surface, or followed by a JPEG that came too late. The next picture the client can
draw ends the doubt, and `LastPictureShows` says that without doubt the last
picture is there.

`SpicePlayback` compares the pieces of WebM that were made with those the source
buffer was given.

### ConsoleWire

A field is its width. Writing follows `build_msg`: a buffer of `buffer_size()`
bytes, one field after the other, and lengths that are declared on the way
(EBML elements, PNG chunks, link messages, icon directories). Reading follows
`from_dv`, with pointers into the message. `ReadAsSent` says of every message,
for all combinations of clips, brushes, masks and images, that every byte is read
once; of LZ pictures that the runs that were packed come out, for lengths and
distances around each limit of the encoding; of base64 that the bytes come back.
The packing side (`Packed`, `PackedPlane`) is the server's and external.
A VNC cursor's masks are declared as `ceil(w*h/8)` bytes and written as
`h * ceil(w/8)`; `WrittenAsDeclared` holds of sides for which the two agree
(`RightSize`), and the comment there says the bytes are ignored.

## Runs

| Run | Instance | What it shows |
|---|---|---|
| `registry` | 2 requests; 1 worker with 2 hosts, or 2 workers with 1 row id; 2 edits, outages or failed queries | exact reference counts; refinement of `HostLeases`, with handlers on top of one another and with an id given out again by another worker |
| `registry_liveness` | 2 requests, 1 row id; 1 worker with an edit, an outage and a failed query, or 2 workers and 2 edits | requests complete, hosts recover, the registries of both workers converge although one gives the other's id out again |
| `console` | frames up to 3 bytes, 6 typed, 3 produced; 2 sessions, 2 workers, 4 displays that clash | order and completeness of bytes, end of the stream, refinement of `ConsolePipe`; misrouting only through a clash, cut connections end, workers come back |
| `instances` | 2 requests at a time, 3 in all; 2 disks in files and 1 on the network; with or without description, or graphics and CD drive | what an edit may lose and what a deletion may leave |
| `accounts` | 3 names, 2 sessions, 2 failures | a server that is started again serves |
| `accounts_default` | the same | finds the first disagreement below |
| `provisioning` | 2 requests, 1 logical pool, 2 names, 1 change from outside | no accidental sharing, domains as asked, the pool comes up |
| `usage_charts` | 4 requests, 2 at a time, 1 host, 2 domains, 2 points | alignment, span and healing of histories |
| `vnc` | 8 servers, 2 connections, 9 kinds of updates and 5 other messages, every cut of their bytes; 3 keys, 2 buttons; a queue of 3; a viewport of 3 by 3 | the VNC page |
| `spice` | 4 messages per channel, 2 tokens, 6 modifier keys, 2 positions and scrolls, 2 sources, lengths around every limit | the SPICE page but for its display, and all layouts |
| `spice_display` | 2 surfaces and canvases, 2 images under one key, 1 of them translucent, 2 JPEGs on their way | the last picture shows, and the page listens to the primary surface |
| `spice_resize` | the page's session | finds the second disagreement below |

### Why the bounds are enough

* Two requests on one worker already give every relation a handler can have to
  another: on top, beneath, beside a websocket, after. Two workers and one id
  are enough for id reuse seen by a stale registry. `SmallSpec` is the two
  families one after the other, without the product of nesting and sharing.
  `LiveSpec` takes one row and, of two workers, two edits: the deletion, and the
  creation that gets the same id, or two changes of the host. It forbids no
  action under fairness all it could do: a handler can go on without an edit, a
  query can work.
  The number of handles is more than can be in use at a time, so allocation
  never limits a behaviour.
* Two disturbances at any moment, of at most two edits (which give an id out
  again), one outage and one failed query: the properties relate one change, or
  two in a row, to the requests around them. What is proved holds for any number.
* Frames of three bytes make a later early frame shorter, equal or longer than
  the one before; six bytes are two frames before the connection and some after.
* Two sessions are owner and guest of a tunnel. Displays clash with each other
  and with the web server's own.
* Three requests on a domain: two that overlap and one that comes after. Two
  disks in files, so that what befalls one is seen not to save the other.
* Two failures in `createDB` suffice for a start that fails, and the next that
  also does; more only repeat them.
* A window of two points is full after two requests and moves with the third;
  four requests leave two for a history to heal after a disturbance.

* The VNC servers are one of each path through `init_msg`; after it
  they are alike, so that one of them sends updates, one of each encoding, with two lines, tiles or subrectangles so that a rectangle can
  be resumed in the middle, the first in one update with another behind it. Two
  connections are enough for what one leaves to the next.
* A printable key, Shift, Control and a dead key make every order of down, press
  and up, and Shift that changes in between. A queue of three is an image, something behind it and
  something that comes when the image is complete.
* Four messages cross an ack window of two twice. Bodies of zero and two bytes
  with headers of two are every way a frame can end: in, at and between pieces.
* Two keys of Shift and of Control are all a modifier has; Alt and Meta have one
  each, Meta being the one the client does not send.
* Two canvases serve two surfaces, or a surface and a JPEG for one that is gone.
  Two JPEGs can come back in either order; `Apart` leaves to the proof what the
  cache would be while there is a stream or a second JPEG. The halves of the two
  image ids are 2 and 4 and 4 and 2, which or'ed are 6 both; one image has alpha.
  Surfaces and canvases are interchangeable.
* Lengths 6 to 9 and 261 to 265 and distances 255 to 258 and 8191 to 8193, 8448
  are the sides of each case of the LZ decoder; 126 and 127 those of EBML sizes.

`CHECK_DEADLOCK FALSE` stands only where everything may be over: sessions that
have ended, requests that are used up.

### Fairness

* `ConnectionRegistry`: the threads run, timers fire, posted deletions are
  carried out (Qt's event loop). For `HostsRecover` and `RegistriesConverge` the
  premise that requests keep coming is part of the property, not of fairness. No
  request, edit, outage, repair or closing of a websocket has to happen.
* `ConsoleStream` (`StreamFairness`): the socket's signals are delivered. Nothing
  is assumed of the browser, the network or the display server.
* `ConsoleTunnel`: `waitForStarted` and `waitForReadyRead` return, by timeout at
  the latest; the end of a cut connection is delivered.
* `Accounts`: somebody starts a stopped server again, and `createDB` runs on.
* `SpiceChannel`: the browser fires a timer that is due (`Settles`). Nothing is
  assumed of server and socket.

All are weak fairness: each action stays enabled until it is taken.

## Findings

`accounts_default`: `src/README.md:26-27` promises the account `admin` with
password `admin`. `createDB` makes it with the statement after `CREATE TABLE
users`, with no transaction around, and `init` calls `createDB` only if the file
does not exist. A first start that is killed or fails in between leaves a file
without the account, and no later start adds it. TLC's counterexample is the
shortest such start.

`spice_resize`: `main.js:43-45` describes `onagent` as called when an agent is
connected, "a good opportunity to request a resize", and the page's
`agent_connected` (`console-spice.html:124-128`) does that first of all. But the
page gives no `message_id`, so that `resize_helper` finds no element
(`resize.js:38`) and throws at `m.offsetHeight` (`resize.js:43`), before it asks.
The rest of `agent_connected`, which turns file transfer on, is never reached
either, and the channel's reader is left out of step (see `SpiceChannel`).

Other observations are modelled as the code has them and described under
`hazards` in `PROJECT.json`: early console frames overwrite each other
(`ws.cpp:89`), a paused domain is not destroyed before its disks are deleted
(`instances.cpp:137`), a COPYRECT or RRE header whose next bytes come in another
frame is read twice (`rfb.js:1129`), a second mouse button's release is dropped
(`input.js:561`). No document promises otherwise.

## Proofs

All theorems hold for every value of the constants under the assumptions named
in the component modules, which say that the sets of model values are finite or
disjoint as needed, the special values are outside them, and numbers are numbers.
Three say something of the program: the cookies of a device begin with `net-` or
`hdd-` (`DevicesAssumption`), the cells of a framebuffer are numbered without
gaps (`CellsAssumption`), and a VNC server sends whole messages of the protocol
(`ServerAssumption`). TLC evaluates them all.

* `ConnectionRegistryProofs`: `TypeCorrect`, `ReferencesExact`,
  `HandlersSeeTheirSnapshot`, `ClonesStayConnected`. `RefCountExact` is not
  inductive by itself: a step that releases a clone is right only if the clone
  is held, and which are held depends on where the handler is. The invariant
  `IInv` adds that a pointer is `Null` or a handle that libvirt knows
  (`ConnsOK`), that phases fit the stacks (`ControlOK`), that a worker executes
  at most one handler, the others waiting in loops (`OneExecutes`), and what a
  handler inside a loop of `updateConnections` or `servers` has and has not yet
  done (`LoopsOK`). The counts use the finite-set theorems on cardinality: an
  owner changes its pointer, and the set of holders gains or loses one element.
  The snapshot properties need `SInv` on top: ids already visited agree with the
  rows read, those still to be visited are in `todo`, and no other handler
  touches a worker's registry while one executes.
  `RegistryImplementsLeases` is the refinement of `HostLeases`. What a request is
  lent is defined there from pointers and phases; `LeasesAreLent` says it is the
  row it read of every host it holds a clone of, `LInv` adds that a handler that
  works has read its rows, and then every step is one of `HostLeases` or a stutter.
* `ConsoleProofs`, from the display server to the page.
  `ConsoleStream`: `TypeCorrect`, `OneFrame`, `BrowserTold`,
  `BytesInOrder`, and the refinement `StreamIsPipe`. `SizeInv` bounds the buffer
  by the longest frame, through what `open` and `write` do to contents and
  cursor. `OrderInv` adds that what was typed is what was sent early and then in
  order (`Gathered`). The refinement needs that the bytes still on the wire
  continue those that were delivered, until a reset drops them (`Flowing`); then
  every step is one of `ConsolePipe`'s or leaves its variables alone.
  `ConsoleTunnel`: `TunnelTypes`, `TunnelsAreNotLeaked`, `OnlyClashesMisroute`.
  `TunnelInv` adds that a session that has not dialled has no connection, one not
  opened has no worker, an ssh process belongs to a live session, and how each
  route determines where a connection can lead (`Routed`).
  `VncInput`: `KeysReleased` for any keyboard, with the shape of `keyDownList` as
  the strengthening (entries by key, at most one each but for dead keys), and
  `ButtonsKnown`.
  `RenderQueue`: `QueueIsScanned`, where the frames that are owed must be counted
  over `clear` as well, and `QueueKeepsTheOrder`, which is inductive with the types
  of the pictures; it rests on what drawing a queue means: `DrawSplit` (a beginning,
  then the rest), `DrawLast`, and `DrawSame` (decoding changes no picture).
  `Viewport`: `BlanksAreAskedFor`. `ViewInv` says that the clean part lies in the
  viewport and has been drawn, which no longer holds once it is connected again.
  `RfbClient`: `ClientKeeps`, and from it `ClientStaysInStep` and
  `NoMessageIsForgotten`; `ServerHearsInOrder`. None is inductive: `lost` is set only
  when the wrong bytes are taken. `ClientSafe` says, while nothing was lost, that
  `todo` is the rest of the server's script from some point on to where the server
  is (`Runs`), that the client stands at that point (`Stands`: its state fits the
  stage, and `FBU` the place in the message, `Matches`), and that no more bytes have
  arrived than are owed (`OnScript`); which timers and states go with which servers
  (`Asked`); and `NothingForgotten`. Each handler takes such a state to another one
  (`Parsed`, `Further`), whether it finds all it waits for or not; the loops over
  rectangles and tiles are folds, whose values exist by `FoldLemmas`, and each turn
  takes at least a byte or ends the loop, so that `framebufferUpdate` ends. In the
  cases `InStep` excepts `lost` is set, and nothing more is said of what is read.
  `HearInv` is about the other direction, unless a timer was left over
  or a password was late: what has been sent and queued has been said in order, and
  contains exactly what the state has behind it (`Knows`), so that nothing is said
  twice; numbers of inputs grow, and those held back come after those queued
  (`Tale`); and no timer that sends is pending once the client is closing. A flush
  that leaves out repeated requests keeps the order of the rest (`Thinned`).
* `FoldLemmas`: what `FoldLeft` computes. It is a recursive function on sets of
  indices. By induction on the length (`CountUp`, from the well-foundedness of finite
  sets), the function exists (`IterExists`), so do the values after each element
  (`TraceExists`), and the fold is the last of them (`FoldEnds`).
* `AccountsProofs`: `AccountsTypes`, `NamesStayUnique`, `NoAccountIsLost`,
  `DatabaseComplete`. `IInv` adds that the ids in use are a prefix
  (`Contiguous`), that a file that does not exist yet holds neither tables nor
  users (`Untouched`), and that, as long as nothing failed, the statements before
  `next` have all been done (`Creating`, `Complete`, `Served`, `Begun`).
  `NoAccountIsLost` is an action property.
* `InstancesProofs`: `InstancesTypes`, `DeletionsLeaveTheRefused`,
  `EditsLoseOnlyWhatMoved`. What a request has read says nothing about the domain
  once another has changed it. `DInv` says of each request what remains: the volumes
  a deletion has yet to come to or could not delete are all there are
  (`VolumesLeft`); once it is past the destruction the domain is off, but for the
  named reasons (`StoppedBefore`); and the XML an edit holds differs from the
  persistent definition only in parts that moved (`XmlFresh`). A step of one request
  changes the histories of the others accordingly (`Noted`) and nothing else they
  have (`Alone`).
* `ProvisioningProofs`: `ProvisioningTypes`, `DisksAreNotShared`,
  `DomainsAreAsAsked`, `PoolsComeUp`. `SharingInv`: a domain's disks, and the images
  a request has gathered, are its own or were picked as existing ones. `QInv` says
  how far an undisturbed creation is: the images still to be looked up and those
  found make up those asked for, and the pool is defined, started and marked as its
  phase says.
* `UsageChartsProofs`: `ChartsTypes`, `ValuesMatchTheirTimes`, `RatesAreOfOneSecond`,
  `HistoriesHeal`. Cookies travel, so that every invariant is stated of the jar, of
  the cookies each request carries and of the windows each answer sets: they have
  the same numbers as their times (`TimesInv`); a rate is of one second, and a
  sample inside its loop is still in time unless it was overrun (`RatesInv`); and the
  windows end in the latest requests that were taken alone (`HealInv`).
* `SpiceProofs`: `TokensAreUsed` and `StopEndsTheRest` of the main channel;
  `ModifiersAreTracked`, `PointersAgree` and `MotionsAreAcked` of the inputs,
  for keys on both sides, a screen, scroll offsets and bunches of any size.
  `KeyInv` adds that the modifiers that are lost are ones the page believes in
  (`LostAreTrue`), `PointerInv` that `mousex`, from which the next difference is
  taken, is the pointer less what it leaves out (`SamePlace`);
  `SoundInOrder` and `QueueKeepsMoving` of the sound; `NumbersComeBack` of the
  connection ids, by arithmetic on bytes; `PicturesAreTheLast` and
  `EventsArePrimarys` of the display, for any surfaces, images and numbers of JPEGs.
  `DisplayInv` adds that no two surfaces have one canvas, nor one that a JPEG is
  decoded for elsewhere (`CanvasesApart`), and that what the server may count on is
  in the cache under its key, with its alpha or perhaps without (`CacheAgrees`).
  `LastPictureShows` says nothing of a canvas while a JPEG is on its way; `Firm` does:
  what is not in doubt shows the last picture, or that is a JPEG on its way which
  will be drawn as it was sent (`Good`). The bitwise or of the ids is a parameter,
  `OrBits`: the proof holds for any way of making one number of two.
  `ChannelKeeps` is about `SpiceChannel`, for frames, bodies, headers and windows
  of any size. None of `InStep`, `NothingWaits` and `AcksKeepUp` is inductive:
  `garbled` becomes true only when a piece is taken that is not the one expected.
  `ChannelInv` says, while no handler threw, that the next piece owed is the one
  the state expects and has `needed` bytes, and that every later piece can follow
  the one before (`Aligned`); that what has arrived is one block, no longer than
  what is owed (`OneBlock`), and shorter than `needed` between events (`NoneWaits`);
  and that the server's count is what the client has not counted yet plus the
  messages on their way or, while a SET_ACK is, the messages from the last one on
  (`Counted`). One call of `process_inbound` keeps this (`RightKept`). `inbound`
  calls it as often as the block allows: the values after each call exist
  (`FoldLemmas`), each call makes the block shorter or ends the loop, so that after
  as many calls as there are bytes nothing complete is left. `Total` and `Pending`
  are sums, whose beginnings and ends need lemmas of their own.
  `LayoutsAreFilled` is about the layouts of `ConsoleWire`. `WrittenAsDeclared`
  speaks of the place reached; its invariant `WriteInv` speaks of the fields that
  are left: they lead from that place, with the ends that are open, to the end of
  the buffer with none open (`Leads`), so that writing a field only moves along.
  A layout begins that way because its fields are `Balanced`: they take their size
  from wherever they are written and close what they open. Putting balanced fields
  after or inside one another adds their sizes, rows of the same fields multiply
  (`WidthsRow`, and `WidthsRows` for the recursive function of `FlattenSeq`), and
  each layout is taken apart along those lines: link messages with any
  capabilities, agent messages and WebM blocks with any data, PNG files of any width
  and height, cursors of any side that is a `RightSize`.

Properties that only a theorem states (`TypeOK`, `TunnelTypeOK`,
`RegistryIsSnapshot`, `ClonesKeepTheirHost`, `BufferHoldsOneFrame`,
`NoTunnelLeaks`, `UsernamesUnique`, `AccountsSurvive`,
`CompleteUnlessInterrupted`, `ButtonsMatch`, `StopClosesAll`, `MotionsFlow`,
`QueueMoves`, `NumbersSurvive`) are in no run: what is proved for every instance
need not be checked on one.

Only model-checked: the liveness properties (`ServesAgain`, `RequestsComplete`,
`HostsRecover`, `RegistriesConverge`, `EndedStreamCloses`, `CutConnectionsEnd`,
`WorkersComeBack`, `Settles`), because fairness and `ENABLED` are outside what the
prover handles; and `ReadAsSent`, which says what folds over messages, packed
pictures and digits compute, each of a list that TLC goes through.

## Not modelled

* Networks, interfaces and secrets: single libvirt calls on single objects that
  keep no state in Virtlyst.
* The values in the charts, formatting, layout, translations, pixels.
* noVNC's Flash fall-back (`web-socket-js`), viewport dragging, view-only and
  test mode and user interface (`ui.js`), which `console-vnc.html` does not turn on;
  `des.js` and `jsunzip.js`: a cipher and a decompressor of a vendor.
* SPICE's file transfer (`filexfer.js`, the end of `main.js`): the page would add
  its drop handlers after the call that throws (`spice_resize`), so that no state
  of it is ever reached. The QUIC decoder and the ticket's encryption
  (`quic.js`, `ticket.js`, `thirdparty`): pure functions of bytes, opaque here.
* The widgets of the lists (jQuery plug-ins, Chart.js, Bootstrap).
* `SqlUserStore::addUser`, which nothing calls; hashing and sessions, which are
  Cutelyst's.
* The table of flavors after creation, the autostart flag of domains, and the
  list of volumes a `StoragePool` caches for display.
* Leaks of handles other than connections (`storagevol.cpp:169` and the like).

## Left in the plan

1. A proof over folds, with `FoldLemmas`: `ReadAsSent` for messages of any length,
   as `LayoutsAreFilled` is for what is written.
2. The fields of the settings forms and the disk letters (`connection.cpp:467`),
   `prettyKibiBytes` as a pure function with its width.
3. `HostObjects`: networks, interfaces and secrets, with the objects' handles.
