# A TLA+ model of railmux

railmux (`src/src/railmux`) is a terminal program that lists coding agents and
shows them in tmux.  This directory models the parts of it that are hard to
test, because what goes wrong there needs a crash between two tmux commands,
two instances on one tmux server, a scan that overlaps a deletion, a network
write that stops halfway, or a window that is resized while an agent exits.  The
modules are checked by TLC on small instances, and their main safety properties are
proved by TLAPS for every instance.

Paths below are relative to the repository's `src/railmux` unless they begin
with `docs/` or `tests/`; `README.md` and `CHANGELOG.md` are the repository's own.

## 1. Inventory

| component | state it keeps | operations | talks to |
|---|---|---|---|
| swap display transport: `display_transport.py`, `ui/workspace.py` | per slot the transaction that shows an agent; marker pairs in window options; the keeper session | attach, return_home, preview, reset, kill, close, reap, recovery at launch | tmux server, app, launcher |
| background index: `background_index.py`, `codex_index.py` | published snapshot, tombstones, request and completion serials, cache of parsed files | refresh, fence, pinned read, tombstone, invalidate, scan, close | the file system, the UI thread |
| shared key bindings: `tmux_binding_manager.py` | server-wide lease file, lock, root-table bindings, controller option of each window | open, join, repair, close | tmux server, other instances |
| orphan markers: `orphan_marker.py`, parts of `ui/app.py` | a marker option on each launched session: phase, owner | stamp, claim, resolve, discover | other instances, provider files |
| fast display, stream: `fast_display_*.py` | server: last delivered frame, pending packet, control queue; client: screen model, sequence | frames, patches, resize, keyframe request | ssh channel, tmux |
| fast display, attach: the same files, `cli.py`, `tmux_health.py` | the remote package, the attach lock, the sentinels, each client's attempt and retries | install, hello, ensure, attach, takeover, classify an exit, reconnect | tmux, pip, the user |
| fast display, local history: the same files | the routes (where agent panes are), the frozen views, a cache, requests under way | prefetch, scroll, deep request, answer, resize, input | the helper |
| workspace layout: `ui/workspace.py`, layout code of `ui/app.py` | two slots, Target, layout, presentation and page, the adaptive single view, the saved profile | F8, resize, open, preview, kill, focus, refresh | display transport, tmux |
| root wheel and scrolling: `mouse_manager.py`, `scroll_*.py`, `selection_isolation.py` | wheel lease, helper processes, reference counts | open, close, scroll | tmux server |
| restart state: `restart_state.py`, `atomic_file.py`, parts of `ui/app.py` | one file per outer pane with slots and bindings, a portable file, a handoff | load, inherit, clean up, restore, save, publish | next instance |
| exit and teardown: `ui/app.py` | the pending exit, the managers still open | soft exit, hard exit, teardown | all of the above |
| tmux health: `tmux_health.py`, `launcher.py` | sentinel files, the watchdog's observations | observe, write and consume a sentinel | launcher, remote |
| tmux commands: `tmux_ctl.py`, `tmux_server.py`, `legacy_sessions.py` | none of its own | every tmux command | tmux |
| discovery and lists: `discovery.py`, `session_*.py`, `transcript.py`, ... | parsed sessions | list, filter | provider files |
| user interface: `ui/` | widgets | keys | all of the above |
| settings, renames, favorites | small JSON files | load, save | |
| command line, diagnostics, update | none | | |

Behaviours that are hard, with the lines where they bite, are the `hazards` of
`PROJECT.json`.  In short:

* **Crash and recovery.**  A displayed agent's pane is physically inside
  railmux's own window.  If the process dies there, only two window options and
  a placeholder pane say where the agent belongs.
* **Many actors on one server.**  Instances share the tmux server, its global
  key bindings and its options; users attach, kill and reload at any moment.
* **Partial failure.**  Every tmux command may fail, and a swap that succeeded
  may be followed by a verification that does not.
* **Two threads.**  The index's worker publishes while the UI thread deletes,
  reads a pinned view, or waits for a fence.
* **A stream that may stop in the middle of a packet**, with a diff base that
  both ends must agree on.
* **Answers that are overtaken.**  Captured text comes back after the layout it
  was captured for has gone; a helper's exit code arrives with, or without, its
  connection, and only a sentinel tells a quit from a crash.
* **Handlers over a world that moved.**  A resize, an exit and a refresh come in any
  order, and every handler of the layout makes several tmux calls that may fail.

What makes each component correct:

* transport: no live agent is ever killed by railmux unless the user asked for
  that agent; an agent away from home is found by the next launch;
* index: what was deleted stays deleted, a fence is answered by a scan begun
  after it, a removed file disappears;
* bindings: the user's bindings are neither lost nor resurrected, a wrapper is
  always removable, an instance that was told its keys work keeps them;
* fast display: a client shows what the server believes it shows; a takeover leaves
  one display; a quit is not answered by starting Railmux again; a lost display
  comes back or its client ends; a pane that the reader holds still does not move
  and is painted where its pane is;
* restart state: no window takes or removes the workspace of another that lives, and
  a saved workspace goes only when it is on display;
* workspace layout: only F8 changes the layout that the user chose, and a window that
  grows again shows what it showed before;
* orphan markers: one instance adopts a launch, and never a live owner's.

## 2. Modules

| module | models | composed of |
|---|---|---|
| `TmuxServer` | the panes, windows, sessions and options of tmux that the transport uses, as one record and one operator per primitive of `tmux_ctl.py` | |
| `DisplayTransport` | the transport, the launcher's recovery and the users, acting on one tmux server | extends `TmuxServer` |
| `BackgroundIndex` | the index's worker thread, the UI thread and the file system | |
| `SharedBindings` | the lease protocol of several processes on one server's key bindings | |
| `ScreenStream` | the helper's loop, the connection and the client's screen model | |
| `LaunchMarkers` | windows that launch, adopt, bind and resume agents on one tmux server | |
| `RemoteDisplay` | ssh clients, their helpers, one tmux server with its managed session, the sentinels | |
| `PaneView` | abstract: what a reader who scrolls back may rely on | |
| `LocalHistory` | the client's local history and the helper's captures | implements `PaneView` (`INSTANCE ... WITH`) |
| `RestartState` | the saved files and the life of the processes that write and read them | |
| `WorkspaceLayout` | the two agent panes: every handler that moves them | |
| `MC*` | values for the constants, and symmetry | extend the module of their name |
| `*_proofs` | theorems | extend the module of their name and `TLAPS`; `Controller_proofs` is about two modules of the controller process, `BackgroundIndex` and `WorkspaceLayout` |

Every definition that models code is listed with its lines in `PROJECT.json`,
under `map`.  Constants that only bound a model begin with `Max`; a definition
that begins with `Mut` is a deliberately wrong form of the one it is named for, used
to show that a property can fail.

The components meet at their contracts.  `WorkspaceLayout` calls the transport, which
`DisplayTransport` models in steps; `RestartState` starts from what a discovery
represents, which `LaunchMarkers` and `BackgroundIndex` model; `RemoteDisplay` ends
with an accepted helper, and `ScreenStream` and `LocalHistory` begin there.  One module
of all of them would be beyond TLC.

### DisplayTransport and TmuxServer

A slot of `slots` is an `AgentSlot`; `app` is the one operation that the
process is in (`at` is the tmux command it issues next, the rest are the locals
of `attach` and `return_home`); `rec` holds the same for each launcher that
runs `recover_interrupted_swaps`; `tm` is the server.  A step is one tmux
command or one bundle of consecutive queries, so that between any two of them
an agent may exit, a user may attach, kill a session or launch again, and a
process may be killed.  `WriteHome`, `WriteDisplay`, `Swap` and `Clear` are the
commands with their outcomes; an action says what follows success and failure.
`Request` is what the user asks the app for, `Refresh` what it does on a tick,
`Environment` everything else.

Left out: agents on a legacy tmux server (which are displayed by an attach,
never moved), `create_primary` and `create_secondary`, the layout that the app
reconciles after the transport returns, pids, a user who kills the keeper by
hand, and the configuration check that turns swaps off.  A next instance starts
in the model only when the previous process is gone.

### BackgroundIndex

`q` and `pub` are the fields of `BackgroundCodexIndex` that its condition
guards, `scan` the worker's locals, `entries` the scanner's cache, `ui` the
caller's.  What the code does under the lock is one action, a walk is one step
per file.  `scan.had`, `pub.had`, `pub.skipped` and `ui.need` are history
variables for the properties.

Left out: the rate limit and the force flag, which only delay a scan; the
negative cache; warnings; the parsing of a rollout.  Every file is an
interactive session that can be listed, read or fail on its own; a removed file
does not come back; nothing is called after `close`.

### SharedBindings

`file` is the state file, `key` what each key of the root table is bound to,
`opt` the controller option of each window, `lock` the holder of the flock, and
`proc` each process's place in `open` or `close` with the payload it holds in
memory.  Every save and every bind-key is a step that may fail; `lost` collects
the keys whose restoring command failed, which the code does not notice.
`want` is what the user configured last.

The queries may fail too.  `_read_key_binding` answers None for an unbound key and for a
`list-keys` that failed, so `Prepare`, `Upgrade`, `Decide` and `FailClosed` choose a set `S` of
keys that could not be read and see them as unbound (`Read`): as a backup, as the
original of a key under repair, as a key without wrapper.  `misread` collects the bound
keys that were taken for unbound in this way, until the user binds them again.
`Hooks` are optional entries whose failed query the code does tell from an absent one, like
the selection hook.  All queries of one step together count as one failure.

Left out: the text of the wrappers, the cleanup of selection markers, undecodable
files.  The state file's versions 1 to 4 are one old version without optional
keys.

### ScreenStream

`srv` is the locals of `_serve_attached` and `at` the place in its loop: read
and handle messages, take output of the tmux client, write, decide what to send.
`cli` is the client's `ScreenModel` with `current_size` and `awaiting_keyframe`;
`up` and `down` are the two directions of the connection.  A packet carries its
base and its whole frame beside the rows that changed, for the properties only:
the actions use the changed rows, the size and the sequence number.  `WriteSome`
is a write that takes nothing or a part of the packet.  The time of the next
frame is a choice (`Schedule` or `Pass`).

Left out: forwarded input, heartbeats and the exit classification
(`RemoteDisplay`), and what a history answer contains (`LocalHistory`).  The cursor and
the terminal modes count as one of the rows.

### RemoteDisplay

`cli` is each run of `railmux ssh`: the place in its set-up or its attempt loop, its
phase (first, an install, a retry, a takeover with consent, an automatic reconnection)
and whether its deadline has passed.  `helper` is the process at the other end of each
ssh connection, from its hello over the attach to the exit code that its client reads;
`cut` is a connection that is gone while the helper still runs.  `tm` is the managed
session with Railmux in it and how it is quitting, `attached` the tmux clients,
`lock` the attach lock, `soft` and `clean` the two sentinels, `pkg` the remote
package, `local` the launcher of a local terminal.

A helper goes `Install`, `Hello`, `Ensure` or `Starting`, then `FirstSweep`, `Lock`,
`SecondSweep`, `Validate`, `Attach`, `Accept`, and ends by `Discover`, `SoftCheck`,
`Classify`, `InputEnds` or `Watchdog`.  A client reads (`ReadHello`, `Accepted`, `Busy`,
`Refused`), asks its user (`AnswerLocal`, `AnswerInstall`, `AnswerVenv`,
`AnswerTakeover`), and, when the display is lost, decides from the code and retries
(`Lost`, `Retry`, `Deadline`).

Left out: more than one managed session; a sentinel that expires while a helper reads
it; how a version is compared (versions are numbers) and which package index answers.
The slot of a helper that has ended is used again.

### LocalHistory and PaneView

`srv` is the remote side: the layout, the text of each pane, the last input that was
handled.  `cli` is `LocalHistoryView` with the variables of `run` that guide it: the
routes, the frozen views with their offset and limit, the cache, the deep requests
under way, which input the routes may not predate.  `up` and `down` are the messages;
`held` is where the user's button went down.  A capture is the last lines of a pane
with the number of the first, so that a trimmed history and a rewritten line can be
told apart.

`PaneView` is what a reader may rely on, without any of that: a pane shows live output
or it stands still, and then shows its rows, which are texts.  The wheel alone moves it.
Anything else puts it back to live or leaves the reader his place (`Kept`): the rows
stay as they are, or of its *landmarks* -- the rows that say something and say it once
-- at least half stay where they are, two or more (`Staying`).  That is what
`_aligned_offset` promises when a new capture replaces the text under a frozen view: an
offset for which most of the rows that can be told apart agree.  A row by itself may
change.  `StandsStill` is `PaneView!Spec` under the mapping of the frozen views.

The client's cache is a function from panes to captures; which one it gives up when it
holds `CacheLimit` is a choice in the model (`Caches`), where the code takes the oldest.

Left out: columns, wrapping and colours; the bounded queue of answers
(`ScreenStream`); a layout with more than eight agent panes.

### RestartState

`pane` is each outer pane, `app` the process in it: its `phase` goes through the start
(`ReadPortable`, `ReadLocal`, `Sweep` with `SweepOne`, `Discover`), the running program
and the quit (`SavePortable`, `SaveLocal`, `Publish`, `Core`, `Outer`), and `pending` is
the state that still has to be restored, `source` the pane whose file it came from.
`file`, `portable` and `handoff` are the files.  `IndexPublishes` and `Settle` are the
end of an index recovery, `Restore` the tick that restores, `Unlink` the removal of the
file when all of it is on display.  Any write or unlink may fail, a process may be
killed at any step, a pane closed, a week may pass.

`recovery` is `_codex_recovery_pending` with the outcome, `gen` says whether the index has a
generation and whether the recovery has looked at the newest, `prov` holds the
provisional agents.  A discovery before the first generation leaves the recovery pending if a
Codex agent lives.  The recovery looks at each generation once and ends (`Settle`), or keeps
its provisional agents and waits for the next (`StaysPending`: files that could not be read,
or a live agent without metadata), or cannot list the sessions and asks again on the next
tick (`ProbeFails`).  A restoration waits (`Waits`) for content of Codex that is not
represented, until there is a generation and the recovery has ended, and for the agent of
the target slot, of whatever kind, until the recovery has ended.

Left out: a second tmux server, the sidebar's view, the focus and proportions, files that
do not parse (they count as absent), the limit of 64 files.  A discovery is reduced to
the agents that it represents, closing the displays to its outcome.

### WorkspaceLayout

`ws` is the workspace record: layout, presentation and page, Target, the two slots
(pane, agent, preview and what is under it), the agent that F8 hid, the adaptive view
with the content of both slots, the saved profile, the focus and tmux's active pane,
the Running registry and the agents that live.  `size` is the window's, whether or not
a poll has seen it.

The controller is one thread, so a handler is one action.  It makes many tmux calls
and each may fail; so a handler is written as an operator from the record to the *set*
of records that it may leave, and composed with `Then` and `Either` as the code
composes calls and their results.  `Fail` is a call that fails, at most `MaxFaults`
times in a behaviour.  Actions: `Resize`, `AgentExits`, `PaneDies` and `FocusMoves` are
the world; `Rotate` (F8), `OnRunningSelect`, `OnSessionPreview`, `KillSession`,
`WindowResized` and `Refresh` the program, the last with or without the size poll.
A display (`Display`) may fail with the old content in place, with an empty pane, or with the
new agent left on display, as the transport does when a swap is neither verified nor undone; a
preview may fail because its project or transcript is not found (`ReplaceSlotContent`); a
refresh that reads a live session as gone may leave a swapped pane to its recovery
(`ReconcileDisplaySlots`).

Left out: the split proportions, F9, the help workspace, the sidebar's rows, agents on
a legacy server, the steps of a display (the transport is taken at its contract), and a
`kill_pane` that fails on the nested pane of a dead agent (ui/app.py:3218), which would leave
a pane of the window in no slot.

### LaunchMarkers

`mark` is the marker option of each agent's tmux session, `ses` the session, `lock`
the claim lock of `claim_owner`.  `proc` is the process of each outer pane: its label
and the locals of the call it is in (`entry` is the registry entry that `_launch`
prepares; `snap`, `live` and `todo` are the markers that `_discover_orphans` listed,
the panes it found alive and the markers it has still to look at; `goal` is the
conversation that `_launch_resume` wants).  `reg` is the registry `_running` for
launched agents, `own` the conversations in it that a resumed session writes.
`writes` and `files` say which conversation an agent writes and which exist.
`old` and `proc[p].sure` are history for the properties: what existed at a launch, and
whether anything disturbed a discovery.  A process dies with its pane, but a pane may
outlive its process and host the next one.

A new agent takes four steps that may fail or be the last: `Hold` (an inert session),
`MarkHolder`, `StartAgent`, `Register` (the marker becomes unresolved).  A discovery is
`Examine` for each marker, with `Compare` and `Store` under the lock for a marker
whose owner is gone.  `Prune` begins a refresh, `Resolve` binds one placeholder, in a
refresh or in a resumption.  `Write` is a tmux write with its readback: both
succeed, or the command fails, or only the readback fails.

Left out: the legacy tmux server and the migration of old sessions, undecodable
markers, modification times, platforms without `/proc`, and the display of the agent,
which `DisplayTransport` models.  All agents run in one directory.  The saved states of all
panes count as one from which a starting process reads a launch context or does not.

## 3. Runs

Deadlock is checked in `layout`, where a refresh is always possible.  The other runs
allow termination (`CHECK_DEADLOCK FALSE`): processes close, agents exit, users quit and
the bounds run out.

| run | question | bounds |
|---|---|---|
| `swap_one_agent` | Is an agent that is away from home always marked, never destroyed, and does a stranded one come home? | one agent, one slot, two instances, two transactions, one failed command, one direct act of a user |
| `swap_two_slots` | Is the keeper there as long as one of two slots needs it? | two agents, two transactions, no failed command |
| `index_scans` | Deletions, fences, eviction, loss of the directory and close while scans run; is every request answered? | two files, three requests |
| `bindings_lease` | Is no wrapper orphaned, no configuration of the user captured or overwritten, no served process cut off? | two processes, two tokens, three keys, two reloads, one failed command, write or round of queries |
| `stream` | Does the client show exactly frames of the helper, and in the end the last one? | two rows, two texts, two sizes, two outputs, two resizes, two history requests, one lost connection |
| `launch_claims` | Has every agent one keeper at most, is nothing left that no window may adopt, is a conversation not resumed beside its writer? | one Codex agent, three windows, one conversation, one failed command |
| `remote_display` | Does a takeover leave one display, is a soft quit final for all, does a client that lost its display get it back or end? | two clients, two helpers at a time, two sessions and two servers, five remote packages, an old helper that holds the lock or a local terminal, and one lost connection, crash, freeze or the like |
| `history` | Are frozen panes painted in their place and still, with one request under way? | two panes, two places, three layouts, up to two wheels and two presses and one of each other event, three in all |
| `restart` | Does a window load, restore and remove only what is its own, and does a restoration end unless metadata never come? | two managed panes in turn and a direct one, each started twice at most, one quit, and two events |
| `layout` | Does only F8 change the layout, does a window that grows show what it showed, does it settle? | two agents, three sizes (compact; room for one pane; for two), a profile or none, five events, one failed tmux call |
| `stream_frozen` | *refuted:* does a client that waits for a keyframe get one? | two outputs, two resizes, two packets under way |
| `restart_pending` | *refuted:* is the saved workspace kept until it was restored? | as `restart` |

Why these bounds are enough to be of interest: two transactions are needed for a
second display in the window of a first, a second instance for a recovery that
meets markers of its predecessor; one failure reaches every error path, and
with a kill at any step, which is not bounded, a second error.  Two requests may
wait while a scan serves a third.  Two owners are enough for every handover of
the lease within two windows, and two tokens for a lease that replaces another.
Three windows are an owner that goes and two that race for its agent.  Two
resizes go there and back, two outputs make a patch whose base is an update
that was dropped.  Two clients are the one whose display is taken and the one that
takes it, and two helpers an old one that still holds the lock and its successor;
two sessions are a quit and what a launcher starts after it.  Three events of a
history are a wheel, what changes under it, and an input; the text of a pane is
longer than its prefetch, so that a deep answer moves the start.  Two starts of
each of three panes are a save, an inheritance and a cleanup by a third.  Five
events of a layout are two agents opened, F8, a window that shrinks, and one more
thing before it grows; safety was also checked with six, and with seven under
symmetry.  Where a second failure would matter too, the state space is beyond a few
minutes; the theorems of section 5 have no bounds.

### Refuted

Two statements of the repository are refuted by a listed run (the quotations are in
`PROJECT.json`, under `findings`):

* **`stream_frozen`** (`KeyframeArrives`): a forced keyframe that is replaced before it
  is written becomes a patch, and the client asks no second time.
* **`restart_pending`** (`KeptUntilRestored`): the quit dialog saves at once, also while
  the restoration still waits for the index: the file then holds an empty display
  (ui/app.py:4255; CHANGELOG.md:750, docs/ARCHITECTURE.md:236).

More limits are kept as configurations for whoever changes the code (run
`tlc -config X.cfg MC...`); TLC refutes the property that each names:

* `swap_overlap` (`NeverDestroyed`): recovery takes no lock and decides from a listing
  made at its start.  The listed swap runs assume `Overlap = FALSE`: one launcher at a
  time, and no process or outer session ends while it recovers.
* `swap_failed_query` (`NeverDestroyed`): `pane_identity` answers a failed query like a
  dead pane, and recovery kills what it takes for dead.  The listed runs assume
  `IdentityFaults = FALSE`.
* `index_wiped` (`PublishedExisted`): a missing sessions directory is a complete scan,
  but the cache keeps its entries.  `index_scans` checks `WalkEvicts`, which speaks of
  the generations that a walk publishes.
* `bindings_one_window` (`ControllerServed`): a process that closes while the lock is busy
  takes the controller option of its window with it, and F8 and F9 no longer reach
  another process there (tests/test_tmux_binding_manager.py:360 has it handed back when
  the lock is free).  `bindings_lease` gives each process its own window, so neither the
  hand-over within a shared window nor this close is exercised by `ControllerServed` there.
* `bindings_racing` (`NewestAuthority`): a configuration reloaded between capture and
  bind-key is replaced by the captured one (docs/ARCHITECTURE.md:606).
  `bindings_lease` assumes that no reload falls inside a transaction.
* `bindings_lease` with `NothingMisread`: one failed `list-keys` passes a bound key off as unbound
  (tmux_ctl.py:1555-1570, 1790-1797, 1905-1918), so it is wrapped over an empty
  backup, does nothing outside Railmux, and is unbound at the end
  (docs/ARCHITECTURE.md:602-605 has the captured command replayed and restored).
  `NewestAuthority` excepts these keys, which are named in `misread`, and no others.
* `bindings_same_pane` (`RefusedForOthers`): a killed process stays an owner while its pane
  lives on, so its successor there may be refused its own lease
  (docs/ARCHITECTURE.md:607).
* `launch_guess` (`RightBinding`): a Claude agent is bound to the only new conversation in
  its directory, which another program may have begun (ui/app.py:7319-7323).
* `launch_second_writer` (`OneWriter`): a window neither adopts nor asks about an agent of
  another window that lives, so its conversation looks stopped there and a click starts
  a second writer.  `SecondWriterFenced` in `launch_claims` states what the fence does
  give: agents of this window and of windows that are gone are covered, unless a command
  failed, another process was claiming or a pane closed meanwhile.
* `remote_hard_quit` (`HardIsFinal`): the first helper that classifies a hard quit removes
  its sentinel, and a second client reconnects and starts Railmux again
  (tmux_health.py `consume_clean_exit`; README.md:495-496).  A soft quit is final for all.
* `history_drag` (`NoDrag`): on the status row a drag that began over an agent is forwarded
  (docs/ARCHITECTURE.md:633-635); `ClickOnly` in `history_more` is the rest of it.  With
  `NoWheel` in its place, TLC shows a wheel forwarded from a pane while the routes are
  unknown (docs/ARCHITECTURE.md:638).
* `restart_fresh` (`OnlyOldRemoved`): the cleanup looks at a file's age before it asks for
  its owner, who may save and end in between: a fresh file goes
  (restart_state.py:614-650, tests/test_restart_state.py:437).  With `QueryFails = TRUE` in
  `restart.cfg`, `LiveFilesKept` fails as well: a failed query reads as a dead owner,
  although the docstring retains those who cannot be disproved.
* `restart` with `AlwaysSettles`: the recovery stays pending while a live Codex agent has no
  metadata (ui/app.py:7095-7108), and a saved Codex preview then makes
  `_restore_pending_right_pane` return on every tick (ui/app.py:1455-1457).  Nothing
  ensures that the metadata come, or a newer generation: `PendingSettles` therefore
  says that a state that was loaded is restored, or its process ends, or the recovery has
  looked at the newest generation and still misses metadata of a live agent (`Starved`).
* `layout_race` (`OnlyF8Chooses`): an agent exits and the window shrinks before the next
  refresh; the size poll enters the single view over the dead pane, closes Pane 2, fails
  to rebuild either, and the dual layout is lost (docs/ARCHITECTURE.md:516).
  `OnlyF8ChoosesWhenLive` asks that both panes are there when the handler runs.
* `layout_preview` (`LiveStaysLive`): `_attach_agent_slot` does not clear the preview flag, so
  an agent moved into a pane that had a transcript open comes back as a transcript
  (README.md:199-201, tests/test_layout_profile.py:493).  `ReturnsWhole` therefore
  speaks of a single view that is no preview, and in which no failed rollback left
  a Pane 2: with two failing calls and ten events TLC finds a preview opened there whose
  flag stays on the agent that the restore puts in its place.

Each of these may be explored with other constants.  With two racing closes
`bindings_lease` also refutes `LastRestores` (docs/ARCHITECTURE.md:604-605): both may leave
the wrappers in place, and the next process undoes them.  With `FenceComplete`,
`index_scans` shows that a file that cannot be read is skipped and the fence still
answers TRUE (background_index.py:126-131); `FenceSound` is stated with the exception.

### More that holds

`launch_more` (`ExactBinding`, `NoSteal`, `Forward`), `remote_more` (`Consented`,
`NoDowngrade`, `Released`; ten packages), `history_more` (`RoutesAfterInput`, `ClickOnly`), `restart_more`
(`ShowsKnown`, `NewerKept`, `SoftSpares`; three events, with symmetry) and `layout_more`
(`ShownOnce`, `SingleIsSingle`, `F8KeepsHidden`) pass.  So do `ClosedIsFrozen` in
`index_scans`, `RegisteredHasLease` in `bindings_lease` and `OneOwner` in `swap_two_slots`
when they are named there.  Some of these are theorems (section 5).

### Limits without a property

A recovery that fails halfway through rebuilding a missing home session
(display_transport.py:876-895) leaves a transaction that later launches do not
resolve; `StrandedReturns` therefore speaks of a placeholder that is still at
home.  `queue_control_packet` (fast_display_server.py:1186-1190) drops an
update of which nothing is written without setting `screen_changed`: unless there
is more output, the client misses it.  `LastScreenArrives` is therefore stated for
histories without such a request.
In `LaunchMarkers`, an agent whose window's pane lives on after a crash is kept from every
other window until a process starts in that pane; a marker that was written but not
read back differs from the one in memory, and the agent cannot be killed from the window
until the next write; and an entry of a dead session, which the next refresh would drop, lets a
resumption take that session's name without looking for another writer.
In `LocalHistory`, a pane that stands still may show another text in some of its rows: when an
agent rewrites its screen shifted, `_aligned_offset` takes the offset that most of the
landmarks vote for (docs/ARCHITECTURE.md:92 speaks of one exact match of the anchor).
In `RemoteDisplay`, the record of a soft quit is one file (`record_soft_exit`,
tmux_health.py:148-170): when a launcher starts the session again and that one is quit
before a helper of the first has looked (fast_display_server.py:436), the helper finds the
record of another session, reports an error, and its client reconnects
(docs/ARCHITECTURE.md:57-60 has every helper find the quit for itself).
`SoftIsFinal` is therefore stated for the session that was started last.
In `RestartState`, a handoff whose write fails leaves an older one in place, and a
portable wish for the right pane is dropped when another window saves.
In `WorkspaceLayout`, a rollback does not look at what closing Pane 2 returned, so one
failing call leaves a pane in a single layout (`SingleIsSingle` is stated for histories
without failures); a hidden agent that dies, or is opened in the visible pane, while the
window is narrow keeps the dual workspace from coming back until F8
(docs/ARCHITECTURE.md:517-520); and F8 that finds Pane 2 gone leaves it the Target of a
single layout until the next focus change.

`FenceSound` excepts the files that a scan skipped.  `InPlace` says where a
frozen pane is painted, and not that its routes are newer than the user's input: that is
`RoutesAfterInput`, in `history_more`.  `OwnOrInherited` is stated for one live managed pane at
a time, as the command line starts them, so a managed pane that lives again beside another
is not exercised.

## 4. Fairness

* `DisplayTransport!FairSpec`: each launcher's steps are weakly fair.  A launcher
  that runs goes on, and the user who finds no railmux launches it again; nothing
  is assumed of the process, the agents or the user's other acts.
* `BackgroundIndex!IndexFairSpec`: the worker is weakly fair: it is a thread, and a
  walk ends.
* `LaunchMarkers`, `SharedBindings` and `LocalHistory` state safety only and assume no
  fairness.
* `RemoteDisplay!FairSpec`: the steps of a helper and of a client, the client's deadline,
  Railmux in its session and the end of a helper of an older version are weakly fair:
  each is a process with timeouts on what it waits for.  Nobody has to answer a prompt,
  to quit, to cut or to crash.
* `RestartState!FairSpec`: in each window the handler in progress goes on, the ticks that
  retry a recovery and restore come, and the index gets to a first generation
  (`Answered` of `BackgroundIndex`).  That a newer generation comes, or brings what a
  recovery misses, is not assumed; a listing of the sessions fails only so often.
* `WorkspaceLayout!FairSpec`: a refresh with a size poll is weakly fair: the tick alarm
  sets itself again.
* `ScreenStream!FairSpec`: the helper's loop and the client's read are weakly
  fair.  `SF(Schedule)`: the frame interval passes, however often the loop turns
  without it.  `SF(WriteAll)`: a connection that is not lost takes the rest of a
  packet in the end, however often it takes nothing or a part; one that takes
  nothing for ever is a lost connection, which the client's heartbeat finds.

## 5. Proofs

`tlapm M_proofs.tla` checks each of the eight proof modules.  The theorems speak
of `Spec`, for every value of the constants that satisfies the named assumptions
(TLC evaluates those in every run), and so without the bounds of section 3.

| module | theorem | what it says |
|---|---|---|
| `DisplayTransport_proofs` | `TypeCorrect`, `DestructionIsSafe` | typing; no pane that the transport is about to kill or respawn hosts an agent (`NoDestructiveTarget`) |
| | `AlwaysMarked`, `AlwaysKept`, `OwnedOnce`, `NoneDestroyed` | `AwayIsMarked`, `AwayIsKept`, `OneOwner`, `NeverDestroyed`, when launchers do not overlap and identity queries do not fail (`~Overlap`, `~IdentityFaults`) |
| `Controller_proofs` | `IndexTypes`, `DeletedStaysDeleted`, `FenceHolds`, `RemovedAreEvicted` | of the index: typing; `NeverReappears`; `FenceSound`; `WalkEvicts` |
| | `WorkspaceTypes`, `ShownInOneSlot`, `OnlyF8Commits`, `ReturnsAll` | of the layout: typing; `ShownOnce`; `OnlyF8ChoosesWhenLive`; `ReturnsWhole` |
| `ScreenStream_proofs` | `TypeCorrect`, `ShowsFrames`, `FramingHolds` | typing; `Faithful`; `PartFinishes` |
| `LaunchMarkers_proofs` | `TypeCorrect`, `KeptByOne`, `NothingStolen` | typing; one keeper per agent (`OneKeeper`); a marker changes hands only when its owner is gone (`NoSteal`) |
| | `BoundExactly`, `NeverBack` | `ExactBinding`; `Forward` |
| | `NothingLeftBehind`, `WriterFenced` | `NothingLeft`; `SecondWriterFenced` |
| `SharedBindings_proofs` | `LeaseTypes`, `NoneOrphaned`, `OwnersKeepLease` | typing; `NoOrphan`; `RegisteredHasLease` |
| | `UserWins` | `NewestAuthority`, when no reload falls inside a transaction (`~RacingReload`); commands, writes and queries may fail, and a key that a failed query passed off as unbound may end unbound |
| | `ControllerStays` | `ControllerServed`, when each process has a window of its own (`OwnWindows`) |
| `RestartState_proofs` | `RestartTypes`, `OwnFile`, `ShownIsKnown`, `NewerStays` | typing; `OwnOrInherited`; `ShowsKnown`; `NewerKept` |
| | `FilesServeTheirTurn`, `LiveOwnersKeepFiles` | `NothingForgotten` and `LiveFilesKept`, when no query fails (`~QueryFails`) |
| `LocalHistory_proofs` | `HistoryTypes`, `FrozenInPlace`, `AskedOnce` | typing; `InPlace`; `OneAsked` |
| | `ReaderKeepsPlace` | the client implements `PaneView` (`StandsStill`) |
| `RemoteDisplay_proofs` | `RemoteTypes`, `TakesAlone` | typing, with who holds the lock and who may be attached; `TakeoverAlone` |
| | `SoftQuitFinal`, `AskedFirst` | `SoftIsFinal`; `Consented` |
| | `NeverDowngrades` | `NoDowngrade`, when every package newer than the client's can say hello |

The hypotheses are those of the runs.  A configuration of section 3 shows what is false
without them: `swap_overlap` and `swap_failed_query` (`NeverDestroyed`),
`bindings_racing`, `bindings_one_window`, and `restart` with `QueryFails = TRUE`.

**Transport.**  `NoDestructiveTarget` compares the pane a slot remembers with what
that pane hosts, and is not inductive: whether a remembered pane hosts an agent
depends on which transaction the operation in progress holds.  The invariant

    IInv == TypeOK /\ SlotsInv /\ AppInv /\ RecInv

adds what a slot holds when no operation works on it (`SlotsInv`), what the locals
of the operation in progress hold at each of its labels (`AppInv`: where there is a
transaction in hand, and where the slot is already out of any), and the same for
each launcher (`RecInv`).  The proof goes over the server's primitives once (each
maps a well-typed server to a well-typed server), then over the actions.  It
holds with overlapping launches and failed queries: these let *recovery* destroy
an agent, and not the transport's own commands.

The other four rest on

    Safe == IInv /\ Away /\ Current(tm) /\ Turns

A transaction is known from up to four records: a marker in the agent's home window, a marker in
the display window, the `swap_state` of a slot or of the operation under way, and
what a launcher has read of it.  A killed process, a failed write or a closed window leaves any
of them stale, so none can be trusted by itself.  The conjuncts of `Away` are
`Core`, `AppOK` and `RecOK`.  `Core` relates all records: those of one transaction name the same
agent, instance and slot (`Agree`); whatever is on display is found by the marker of that
window (`ShownMarked`) and, while the process lives, is held by its slot (`ShownHeld`); two
transactions never have the same living agent (`One`, `OneDead`), so that a stale
marker is of a pane that is gone; and no transaction has a slot's own pane for its agent
(`SlotsOK`).  `AppOK` says where the two panes of the transaction are at each label of an
operation, and `RecOK` what a launcher may conclude from rows that others have
changed since: a live process is one it leaves alone.  `Current` (all panes of a home
are in the newest window of that session) is what makes an agent that is ended at home end
with its session only; `Turns` tells a quit from an attach.  Each command of the server is dealt
with once, in a lemma about `Core`; each action then adds what it does to the operation's
own records.  With a failed query or a second launcher,
what `RecOK` says of a launcher's rows is not so.

**Index.**  `TombstoneInv` says that a deleted session that anything still lists -- the
cache, the published generation, a pinned view -- is covered by a tombstone there;
`NeverReappears` alone does not say so of the cache, from which the next generation
is made.  `SerialInv` orders the request, the scan and the completion;
`FenceInv` follows a file that a fence needs through the walk that serves it, to
the published generation.  `NeedInv` keeps the files asked for in existence.
`RemovedAreEvicted` rests on `WalkInv`: what a walk has listed was there while it ran.

**Stream.**  `KnownInv` says that no two frames that are anywhere -- at the helper, in
the connection, at the client -- share a sequence number, and that none is newer
than the last one sent.  So the base that a patch names by its number is the very
frame it was made from, which is what `Faithful` rests on; the other parts say that every update
under way is a keyframe or a patch that turns its base into its frame, and what the
helper holds at each place of its loop.

**Markers.**  `OneKeeper` speaks of registries, which nobody compares; what keeps them
apart is the marker.  `OwnerInv` says of each process, at each place, how its registry, its
listing and the claim it works on stand to the markers: who has a live agent in its registry
is the owner in its marker; the owner that a claimant found absent is gone, for pane ids are
not used again; and while it holds the claim lock the marker is still the one it
compared, so that its write replaces nobody.  `BindInv` follows the conversation that a
Codex agent has open through every copy of its marker.  `SureInv` says what a discovery
that nothing disturbed has covered so far: whatever it listed and has not looked at is
on its list, and what it has looked at is in the registry, bound already, or of a process
that lives.

**Bindings.**  Whoever is killed in the middle of a change leaves the file, the key tables and
the options as they are, so half of `LeaseInv` speaks of these alone and holds between any two
commands: a wrapper belongs to the lease in the file and replays what the file would
restore (`FileOK`, `NoOrphan`), and a registered process is an owner of an active lease
(`RegisteredOK`).  The other half is what the one process that holds the lock knows at
each place (`HolderOK`): the lease in its hands covers the wrappers, has the
token and the backups of the file, its keys are bound or still to be bound; and while
keys are bound or restored nobody is registered, since an active lease with an owner that
lives is joined or refused, never rebuilt.  `UserWins` adds `Current`: a key that is about to
be bound has a backup that is what the user configured last, or the empty one of a
misread key (`Authorized`).  `ControllerStays` adds `Controls`: the
option of a window names the process registered in it.

**Restart state.**  `ProcessOK` says of a process what it knows at each phase: what lived at a
discovery that succeeded is represented, provisional agents are among those represented, what
is pending is what was loaded, a file that is to be removed is on display.  `FilesOK` says what this has to do with the files, which
others change meanwhile: a source that is not the own pane is a dead one, and
neither it nor a file that may be written is of a newer schema.  With it goes `PanesOK`: one
managed pane lives at a time.  The action properties are read off the steps that remove or
write a file.

**Local history.**  Every message, keypress and redraw goes through the same operators of the
client, in an order that nobody controls, so the invariant is one predicate on the client's
record that each operator preserves (`ClientOK`): each frozen view stands on its route and
inside its capture, each capture waited for belongs to a frozen pane, at most one to a
pane.  Messages under way carry routes of an epoch that is not ahead of the client's.  The
refinement then needs, beside the invariant, that a step which is not the wheel is *calm*
(it leaves the offset of every view, aligns it, or drops the view) and that a turn of the wheel
concerns one pane only.

**Remote display.**  `HelperOK` says what a helper has at each place: between taking and
releasing it, the lock of the session it validated; while it is attached, that it is the
managed session there is; and when it has swept a second time for a takeover, that
no other helper is attached.  Nobody can attach in between, since attaching needs
the lock (`LocksOK`); a session that ends takes its clients with it
(`ServerOK`).  `ClientOK` ties each client to the helper it started.
`SoftIsFinal` follows a helper from the moment its session is quit to the code it
reports.  `QuitInvariant` says, for a helper whose display has ended, which server and
session it served, and, as long as that session is the newest, that the record on disk is of
it until the helper has looked, and that the helper then reports the quit.
`ConsentInvariant` says of a client at each place whether it has asked,
and of a helper whether the client that started it had.  `VersionInvariant` says what the
version that a client was told has to do with the package that is installed, and which
packages it still means to replace.

**Workspace layout.**  A handler is a set of records, so the proof has one lemma for each
operator: from a well-typed record it leads to well-typed records only, and says how they
stand to the one it began with.  These relations are few: what a change of one slot
may touch (`Worked`), what stays when only the focus moves (`Kept`), what a whole
handler may do (`Later`), and what it does when no call failed and no profile was applied
(`Calm`, with `Stays` and `Steady` for the layout).  `ShownOnce` goes with the types,
since every attach asks `CanDisplay` first and every other operator empties a slot or
moves nothing.  `OnlyF8Commits` is read off `Steady`: an operator that changes the layout,
other than F8, does so after a call that failed, or moves it behind or out of the single
view, where `Logical` does not see it.
`ReturnsAll` needs one more invariant, `Lively`: a pane that lives names no dead agent.
Without it a pane that the restore leaves alone could name a dead agent, and the refresh
of the same handler would take it for lost and rebuild what had just been given
back.  Every operator keeps `Lively` (`Sound`, `Fit`); an agent's exit kills its pane with
it, and a kill empties the slot first.  The rest follows one handler: what comes
before the restore leaves the view and the visible pane (`Paves`), the restore gives both
panes back, alive, or leaves the view saved (`RestoreBack`), and what comes after,
the refresh with nothing lost included, changes no slot (`Keeps`).

**Assumptions worth knowing.**  `SequenceAssumption` says that fewer frames are sent
than there are sequence numbers; the code's are of 32 bits.  `NeverDowngrades` needs that
a package newer than the client's says hello: one that does not is installed over, since the
client cannot learn its version.  In `RemoteDisplay`,
`ClientAssumption` says that the clients that display at the start have helpers of
their own.  In `LocalHistory`, `LineAssumption` orders the limits as `fast_display_client.py`
does (a screen, a prefetch, a first request, all that is kept), and `TextAssumption` says
that a pane has a screen of text at least.  In `RestartState`, `FirstsAssumption` says that
a pane not made yet has no file.  The others say that `None`, records and the names of panes are
distinct values (no agent's session is called `display`), that sets are subsets of those they should be, and that bounds are in `Nat`.

**Only model-checked.**  Of the index, `ClosedIsFrozen`; of the layout,
`SingleIsSingle` and `F8KeepsHidden`; what `history_more` checks, and `SoftSpares` of
`restart_more`.
The liveness properties (`StrandedReturns`, `Answered`, `LastScreenArrives`, `Settles`,
`PendingSettles`, `Released`) stay with TLC, since the prover does not reason about
fairness; so does what a fold computes, which is an induction over data.

## 6. What is not modelled

* **Another instance of a protocol that is**: the wheel lease of `mouse_manager.py` is the
  lease of `SharedBindings` without optional keys and controller option.
* **Candidates for a model** (section 7): the reference-counted scroll helper and
  selection isolation, and the migration of sessions from a legacy tmux server.
* **Little state that outlives a call**: discovery and the session lists, which
  parse provider files and filter in memory; the widgets and dialogs; settings, renames
  and favorites; the command line's arguments, diagnostics and update.
* **Outside the program**: the web site, the benchmarks, the development tools.

Of the modelled components, section 2 names what was left out of each.

## 7. Plan

In the order of what could go wrong unnoticed:

1. Abstract specifications of the index (*a list with deletions*) and of the stream (*one
   screen*), each with the refinement that the detailed module satisfies.
2. The scroll helper and selection isolation, with their reference counts.
3. The migration of sessions from a legacy tmux server.
