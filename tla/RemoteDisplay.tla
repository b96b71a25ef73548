---------------------------- MODULE RemoteDisplay ----------------------------
(***************************************************************************)
(* How railmux ssh gets a view of the managed tmux session, loses it and    *)
(* gets it back: the local clients (fast_display_client.py), the helper     *)
(* that each ssh process runs on the remote host (fast_display_server.py),  *)
(* the tmux server with its managed session, Railmux in it and its two      *)
(* ways to quit (ui/app.py), the sentinels and the watchdogs                *)
(* (tmux_health.py), and the launcher of a local terminal (cli.py).         *)
(*                                                                         *)
(* A step is a tmux command, a message, a prompt answered, a write of a     *)
(* sentinel, or a timeout.  Connections are cut, Railmux and the server     *)
(* crash or freeze between any two of them.                                 *)
(*                                                                         *)
(* Simplifications: there is one managed session; a list of clients and     *)
(* the detach of each is one step, which may fail; a message is lost with   *)
(* its connection or read before; tmux's own failures count as a crash;     *)
(* ScreenStream models the screens that an attached helper sends.           *)
(***************************************************************************)
EXTENDS Naturals, Functions

CONSTANTS
    Clients,        \* runs of railmux ssh
    Reconnects,     \* those with --reconnect
    Shown,          \* those that have their display when we begin to look
    Helpers,        \* slots for the helpers of the ssh processes
    None,
    Local,          \* the version of the clients' package
    Protocol,       \* and its protocol
    Packages,       \* what may be installed remotely at first
    Firsts,         \* what is at the server at first, beside the session:
                    \* other sessions or not; nobody, a local terminal or an
                    \* old helper that holds the lock
    MaxSessions,    \* bound on the managed sessions of a server
    MaxServers,     \* bound on the servers started
    MaxEvents       \* bound on the connections lost, crashes, freezes and
                    \* failed kills, exits, local launches and installations

Versions == 0 .. Local + 1
Protocols == 0 .. Protocol + 1
Package == [hello : BOOLEAN, ver : Versions, proto : Protocols,
            ready : BOOLEAN, tmux : BOOLEAN]

ASSUME VersionAssumption == Local \in Nat \ {0} /\ Protocol \in Nat \ {0}
ASSUME PackageAssumption == Packages \subseteq Package
ASSUME FirstAssumption ==
    Firsts \subseteq [others : BOOLEAN, who : SUBSET {"legacy", "local"}]
ASSUME ClientAssumption ==
    /\ Reconnects \subseteq Clients /\ Shown \subseteq Clients
    /\ \E f \in [Shown -> Helpers] : IsInjective(f)
ASSUME NoneAssumption ==
    /\ None \notin Helpers \cup Clients \cup Package
    /\ Helpers \cap {"legacy", "local"} = {}
ASSUME BoundAssumption == MaxSessions \in Nat \ {0} /\ MaxServers \in Nat \ {0}

VARIABLES
    pkg,        \* the package installed on the remote host
    tm,         \* the tmux server, its managed session and Railmux in it
    attached,   \* the tmux clients of the session
    lock,       \* who holds the attach lock of each session number
    soft,       \* the sentinel of a soft quit
    clean,      \* the sentinel of a hard quit
    helper,     \* the helper in each slot
    cli,        \* the local clients
    local,      \* the launcher of a local terminal
    spent       \* how many of the bounded events have happened

vars == <<pkg, tm, attached, lock, soft, clean, helper, cli, local, spent>>
remote == <<tm, attached, lock, soft, clean, local>>

Sids == 1 .. MaxSessions
Terminal == {"DETACHED", "SOFT", "HARD"}
Codes == Terminal \cup {"none", "MISSING", "ERROR", "ZERO", "LINK"}
Holders == Helpers \cup {"legacy"}
Sentinel == [srv : 1 .. MaxServers, sid : Sids]
Spend == spent < MaxEvents /\ spent' = spent + 1

Free == [own |-> None, rep |-> FALSE, at |-> "free", cut |-> FALSE,
         want |-> 0, said |-> "none", pkg |-> None, srv |-> 0, sid |-> 0,
         code |-> "none", ended |-> "none"]

\* The slot of a client that is shown at first.
Given == CHOOSE f \in [Shown -> Helpers] : IsInjective(f)
Serving(c) == [Free EXCEPT !.own = c, !.at = "serve", !.srv = 1, !.sid = 1]

Init ==
    /\ pkg \in Packages
    /\ \E first \in Firsts :
         /\ tm = [up |-> TRUE, srv |-> 1, sid |-> 1, born |-> 1, ctl |-> TRUE,
                  others |-> first.others, quit |-> "no", frozen |-> FALSE]
         /\ attached = {Given[c] : c \in Shown} \cup first.who
         /\ lock = [s \in Sids |-> IF s = 1 /\ "legacy" \in first.who
                                   THEN "legacy" ELSE None]
         /\ local = IF "local" \in first.who
                    THEN [at |-> "on", srv |-> 1, sid |-> 1]
                    ELSE [at |-> "off", srv |-> 0, sid |-> 0]
    /\ soft = None /\ clean = None
    /\ helper = [h \in Helpers |->
         IF \E c \in Shown : Given[c] = h
         THEN Serving(CHOOSE c \in Shown : Given[c] = h) ELSE Free]
    /\ cli = [c \in Clients |->
         IF c \in Shown
         THEN [at |-> "live", h |-> Given[c], phase |-> "first", want |-> 0,
               painted |-> TRUE, late |-> FALSE]
         ELSE [at |-> "idle", h |-> None, phase |-> "first", want |-> 0,
               painted |-> FALSE, late |-> FALSE]]
    /\ spent = 0

-----------------------------------------------------------------------------
(* tmux as the helpers see it.                                              *)

Answers == tm.up /\ ~tm.frozen
Exists(s) == Answers /\ tm.sid = s
\* _live_controller: the stored pane is alive and in the session.
Managed(s) == Exists(s) /\ tm.ctl

\* A new managed session, on a server of its own when none runs.
NewSession ==
    IF tm.up
    THEN [tm EXCEPT !.sid = tm.born + 1, !.born = @ + 1, !.ctl = FALSE,
                    !.quit = "no"]
    ELSE [up |-> TRUE, srv |-> tm.srv + 1, sid |-> 1, born |-> 1,
          ctl |-> FALSE, others |-> FALSE, quit |-> "no", frozen |-> FALSE]
MayStart ==
    /\ tm.sid = 0 /\ ~tm.frozen
    /\ IF tm.up THEN tm.born < MaxSessions ELSE tm.srv < MaxServers

Here == [srv |-> tm.srv, sid |-> tm.sid]
Of(H) == [srv |-> H.srv, sid |-> H.sid]

-----------------------------------------------------------------------------
(* The slots of the helpers.                                                *)

Slot(hs) == {h \in Helpers : hs[h].at = "free"}
Fresh(c, r, at) == [Free EXCEPT !.own = c, !.rep = r, !.at = at,
                                !.want = cli[c].want]

\* A helper exits: the code stays until its client has reaped the ssh process.
Ended(h, code) ==
    IF cli[helper[h].own].h # h THEN Free
    ELSE [helper[h] EXCEPT !.at = "ended", !.code = code]
End(h, code) == helper' = [helper EXCEPT ![h] = Ended(h, code)]

\* The client ends its ssh process: a helper that runs is on its own.
Without(h) ==
    IF h = None THEN helper
    ELSE [helper EXCEPT ![h] = IF @.at = "ended" THEN Free
                               ELSE [@ EXCEPT !.cut = TRUE, !.said = "none",
                                              !.pkg = None]]

\* Mutant: the lock is kept.
MutUnlocked(h) == lock

Unlocked(h) == [s \in Sids |-> IF lock[s] = h THEN None ELSE lock[s]]

-----------------------------------------------------------------------------
(* The helper, from its hello to the attach (main, serve).                  *)

\* pip in the user's environment or in the private one, then the helper.
Install(h) ==
    LET v == helper[h].want IN
    /\ helper[h].at = "install"
    /\ \/ /\ pkg' = [pkg EXCEPT !.hello = TRUE, !.ver = v, !.ready = TRUE,
                        !.proto = IF v = Local THEN Protocol ELSE @]
          /\ helper' = [helper EXCEPT ![h].at = "hello", ![h].want = 0]
       \/ /\ End(h, "ERROR")
          /\ UNCHANGED pkg
    /\ UNCHANGED <<remote, cli, spent>>

\* The hello comes before anything of tmux is looked at; then the arguments
\* are parsed and the dependency is demanded.
Hello(h) ==
    LET H == helper[h] IN
    /\ H.at = "hello"
    /\ LET fit == pkg.proto = Protocol /\ pkg.ready
           told == [H EXCEPT !.said = "hello", !.pkg = pkg]
       IN helper' = [helper EXCEPT ![h] =
            IF ~pkg.hello
            THEN Ended(h, IF pkg.ver = 0 THEN "MISSING" ELSE "ERROR")
            ELSE IF H.cut THEN Ended(h, "ERROR")
            ELSE IF fit THEN [told EXCEPT !.at = "start"]
            ELSE [told EXCEPT !.at = "ended", !.code = "ERROR"]]
    /\ UNCHANGED <<pkg, remote, cli, spent>>

\* The client went away, or the user thinks for longer than the handshake.
NoStart(h) ==
    /\ helper[h].at = "start"
    /\ helper[h].cut \/ cli[helper[h].own].at \in {"askLocal", "askInstall"}
    /\ End(h, "ERROR")
    /\ UNCHANGED <<pkg, remote, cli, spent>>

\* _ensure_railmux_session: the session is there, or is started.
Ensure(h) ==
    /\ helper[h].at = "go" /\ ~helper[h].rep
    /\ \/ /\ Answers /\ tm.sid # 0
          /\ helper' = [helper EXCEPT ![h].sid = tm.sid, ![h].at = "lock"]
          /\ UNCHANGED tm
       \/ /\ MayStart
          /\ tm' = NewSession
          /\ helper' = [helper EXCEPT ![h].at = "starting"]
       \/ /\ ~Answers \/ tm.sid = 0
          /\ End(h, "ERROR")
          /\ UNCHANGED tm
    /\ UNCHANGED <<pkg, attached, lock, soft, clean, cli, local, spent>>

\* It waits until Railmux answers in it, but not for ever.
Starting(h) ==
    /\ helper[h].at = "starting"
    /\ \/ /\ tm.sid # 0 /\ Managed(tm.sid)
          /\ helper' = [helper EXCEPT ![h].sid = tm.sid, ![h].at = "lock"]
       \/ ~Managed(tm.sid) /\ End(h, "ERROR")
    /\ UNCHANGED <<pkg, remote, cli, spent>>

\* _detach_session_clients.
Swept(h) == {}

\* A replacement validates and detaches before it waits for the lock.
FirstSweep(h) ==
    /\ helper[h].at = "go" /\ helper[h].rep
    /\ \/ /\ Managed(tm.sid) /\ tm.sid # 0
          /\ attached' = Swept(h)
          /\ helper' = [helper EXCEPT ![h].sid = tm.sid, ![h].at = "lock"]
       \/ /\ ~Managed(tm.sid) \/ attached # {}
          /\ End(h, "ERROR")
          /\ UNCHANGED attached
    /\ UNCHANGED <<pkg, tm, lock, soft, clean, cli, local, spent>>

\* The lock of the session's number, or BUSY when it is not free in time.
Lock(h) ==
    LET s == helper[h].sid IN
    /\ helper[h].at = "lock"
    /\ IF lock[s] = None
       THEN /\ lock' = [lock EXCEPT ![s] = h]
            /\ helper' = [helper EXCEPT ![h].at = "held"]
       ELSE /\ helper' = [helper EXCEPT ![h] =
                            [Ended(h, "ERROR") EXCEPT !.said =
                               IF helper[h].cut THEN "none" ELSE "busy"]]
            /\ UNCHANGED lock
    /\ UNCHANGED <<pkg, tm, attached, soft, clean, cli, local, spent>>

\* An error between the lock and the status: the private client is stopped
\* and the lock released.
Abort(h) ==
    /\ attached' = attached \ {h}
    /\ lock' = Unlocked(h)
    /\ End(h, "ERROR")

\* Mutant: a replacement detaches only before it waits for the lock.
MutSecondSweep(h) == attached

SecondSweep(h) == IF helper[h].rep THEN Swept(h) ELSE attached

\* Under the lock: the session is still the same, and a replacement detaches
\* whoever came in between.
Validate(h) ==
    /\ helper[h].at = "held"
    /\ \/ /\ Managed(helper[h].sid)
          /\ attached' = SecondSweep(h)
          /\ helper' = [helper EXCEPT ![h].at = "swept"]
          /\ UNCHANGED lock
       \/ ~Managed(helper[h].sid) /\ Abort(h)
       \/ helper[h].rep /\ attached # {} /\ Abort(h)
    /\ UNCHANGED <<pkg, tm, soft, clean, cli, local, spent>>

\* The private tmux client, after the sizes are set.
Attach(h) ==
    /\ helper[h].at = "swept"
    /\ IF Exists(helper[h].sid)
       THEN /\ attached' = attached \cup {h}
            /\ helper' = [helper EXCEPT ![h].at = "attached"]
            /\ UNCHANGED lock
       ELSE Abort(h)
    /\ UNCHANGED <<pkg, tm, soft, clean, cli, local, spent>>

\* The client is listed: the status is written and the lock released.
Accept(h) ==
    /\ helper[h].at = "attached"
    /\ \/ /\ h \in attached
          /\ helper' = [helper EXCEPT ![h].at = "accepted", ![h].said =
                          IF helper[h].cut THEN "none" ELSE "accepted"]
          /\ lock' = Unlocked(h)
          /\ UNCHANGED attached
       \/ (h \notin attached \/ helper[h].cut) /\ Abort(h)
    /\ UNCHANGED <<pkg, tm, soft, clean, cli, local, spent>>

\* The first thing the display does is to remember the server.
Discover(h) ==
    /\ helper[h].at = "accepted"
    /\ IF Answers
       THEN /\ helper' = [helper EXCEPT ![h].at = "serve", ![h].srv = tm.srv,
                                         ![h].rep = FALSE]
            /\ UNCHANGED attached
       ELSE /\ attached' = attached \ {h}
            /\ End(h, "ERROR")
    /\ UNCHANGED <<pkg, tm, lock, soft, clean, cli, local, spent>>

-----------------------------------------------------------------------------
(* The display (_serve_attached) and how it ends.                           *)

\* Mutant: the first helper to read the intent removes it.
MutSoftCheck(h) ==
    LET H == helper[h] IN
    /\ H.at = "serve" /\ h \notin attached
    /\ IF soft = Of(H) THEN End(h, "SOFT") /\ soft' = None
       ELSE /\ helper' = [helper EXCEPT ![h].at = "classify"]
            /\ UNCHANGED soft
    /\ UNCHANGED <<pkg, tm, attached, lock, clean, local, cli, spent>>

\* The private client is gone; was a soft quit intended?
SoftCheck(h) ==
    LET H == helper[h] IN
    /\ H.at = "serve" /\ h \notin attached
    /\ IF soft = Of(H) THEN End(h, "SOFT")
       ELSE helper' = [helper EXCEPT ![h].at = "classify"]
    /\ UNCHANGED <<pkg, remote, cli, spent>>

\* _classify_observed_exit after that: the session's number is looked up on
\* whatever server runs now; without it, the sentinel of a hard quit is read
\* and removed, whichever session it names.
Classify(h) ==
    LET H == helper[h] IN
    /\ H.at = "classify"
    /\ IF Exists(H.sid)
       THEN /\ End(h, IF tm.ctl THEN "DETACHED" ELSE "SOFT")
            /\ UNCHANGED clean
       ELSE /\ End(h, IF clean = Of(H) THEN "HARD" ELSE "ERROR")
            /\ clean' = None
    /\ UNCHANGED <<pkg, tm, attached, lock, soft, cli, local, spent>>

\* Mutant: the helper waits for an end of file that never comes.
MutLeaseOver(h) == FALSE

\* The connection ends the input, or no frame has come for the lease.
LeaseOver(h) == helper[h].cut
InputEnds(h) ==
    /\ helper[h].at = "serve" /\ LeaseOver(h)
    /\ attached' = attached \ {h}
    /\ End(h, "ZERO")
    /\ UNCHANGED <<pkg, tm, lock, soft, clean, cli, local, spent>>

\* A probe that does not find the session that was attached; the helper
\* ends after three in a row.
Unhealthy(H) == ~Exists(H.sid) \/ tm.srv # H.srv
Watchdog(h) ==
    /\ helper[h].at = "serve" /\ h \in attached /\ Unhealthy(helper[h])
    /\ attached' = attached \ {h}
    /\ End(h, "ERROR")
    /\ UNCHANGED <<pkg, tm, lock, soft, clean, cli, local, spent>>

HelperStep(h) ==
    \/ Install(h) \/ Hello(h) \/ NoStart(h) \/ Ensure(h) \/ Starting(h)
    \/ FirstSweep(h) \/ Lock(h) \/ Validate(h) \/ Attach(h) \/ Accept(h)
    \/ Discover(h) \/ SoftCheck(h) \/ Classify(h) \/ InputEnds(h)
    \/ Watchdog(h)

-----------------------------------------------------------------------------
(* The client until its display is accepted (prepare_remote_process,        *)
(* _finish_remote_attach).  Each of these steps ends the ssh process it had *)
(* (Without), starts one (Launch), asks the user, or gives up (Stop).       *)

Is(c, at) == cli[c].at = at
Mine(c) == helper[cli[c].h]
Said(c, m) == cli[c].h # None /\ Mine(c).said = m /\ ~Mine(c).cut
\* The end of the stream, without an answer before it.
Closed(c) ==
    Mine(c).cut \/ (Mine(c).at = "ended" /\ Mine(c).said = "none")
Update(c, r) == cli' = [cli EXCEPT ![c] = r]

Stop(c) ==
    /\ helper' = Without(cli[c].h)
    /\ Update(c, [at |-> "done", h |-> None, phase |-> "first", want |-> 0,
                  painted |-> FALSE, late |-> FALSE])

Launch(c, at, phase, r, first) ==
    LET hs == Without(cli[c].h)
        h == CHOOSE x \in Slot(hs) : TRUE
    IN /\ Slot(hs) # {}
       /\ helper' = [hs EXCEPT ![h] = Fresh(c, r, first)]
       /\ Update(c, [cli[c] EXCEPT !.at = at, !.phase = phase, !.h = h])

Await(c, at) ==
    /\ Update(c, [cli[c] EXCEPT !.at = at])
    /\ helper' = [helper EXCEPT ![cli[c].h].said = "none"]

\* _send_start, unless the helper has exited by now.
SendStart(c) ==
    IF Mine(c).at = "start" /\ ~Mine(c).cut
    THEN /\ helper' = [helper EXCEPT ![cli[c].h].at = "go",
                         ![cli[c].h].said = "none", ![cli[c].h].pkg = None]
         /\ Update(c, [cli[c] EXCEPT !.at = "status", !.want = 0])
    ELSE Stop(c)

Connect(c) ==
    /\ Is(c, "idle")
    /\ Launch(c, "probe", "first", FALSE, "hello")
    /\ UNCHANGED <<pkg, remote, spent>>

\* What a hello calls for, once an upgrade of this side is out of the way.
Verdict(p) ==
    CASE p.proto > Protocol -> "stop"
      [] p.proto < Protocol -> "install"
      [] p.proto = Protocol /\ ~p.tmux -> "stop"
      [] p.proto = Protocol /\ p.tmux /\ ~p.ready -> "install"
      [] OTHER -> IF p.ver < Local THEN "optional" ELSE "attach"

\* Mutant: always the version of this side.
MutWanted(p) == Local

\* The version that an installation puts there.
Wanted(p) == IF p.ver > Local THEN p.ver ELSE Local

\* What a helper must say that is to be attached without more questions.
Fit(p) == p.proto = Protocol /\ p.ready /\ p.tmux

Follow(c, p) ==
    CASE Verdict(p) = "stop" -> Stop(c)
      [] Verdict(p) = "attach" -> SendStart(c)
      [] OTHER -> /\ Update(c, [cli[c] EXCEPT !.at = "askInstall",
                                              !.want = Wanted(p)])
                  /\ helper' = [helper EXCEPT ![cli[c].h].said = "none"]

ReadHello(c) ==
    LET p == Mine(c).pkg IN
    /\ Is(c, "probe") /\ Said(c, "hello")
    /\ CASE cli[c].phase = "first" ->
              IF p.ver > Local THEN Await(c, "askLocal") ELSE Follow(c, p)
         [] OTHER ->
              IF p.ver = cli[c].want /\ Fit(p) THEN SendStart(c) ELSE Stop(c)
    /\ UNCHANGED <<pkg, remote, spent>>

\* No hello: the command is missing or speaks another language; a lost
\* connection is 255 and ends the first probe.
NoHello(c) ==
    /\ Is(c, "probe") /\ Closed(c)
    /\ CASE cli[c].phase = "first" ->
              IF Mine(c).cut THEN Stop(c)
              ELSE /\ Update(c, [cli[c] EXCEPT !.at = "askInstall", !.h = None,
                                               !.want = Local])
                   /\ helper' = Without(cli[c].h)
         [] cli[c].phase = "user" ->
              /\ Update(c, [cli[c] EXCEPT !.at = "askVenv", !.h = None])
              /\ helper' = Without(cli[c].h)
         [] OTHER -> Stop(c)
    /\ UNCHANGED <<pkg, remote, spent>>

\* The hello does not come in time; an installation may go on without us.
HelloTimeout(c) ==
    /\ Is(c, "probe") /\ Mine(c).at = "install"
    /\ IF cli[c].phase = "user"
       THEN /\ Update(c, [cli[c] EXCEPT !.at = "askVenv", !.h = None])
            /\ helper' = Without(cli[c].h)
       ELSE Stop(c)
    /\ UNCHANGED <<pkg, remote, spent>>

\* Upgrade this side?  Then the program starts again.
AnswerLocal(c) ==
    /\ Is(c, "askLocal")
    /\ Stop(c) \/ Follow(c, Mine(c).pkg)
    /\ UNCHANGED <<pkg, remote, spent>>

Optional(c) == cli[c].h # None /\ Mine(c).pkg # None
               /\ Verdict(Mine(c).pkg) = "optional"

\* Install there, in the user's environment?
AnswerInstall(c) ==
    /\ Is(c, "askInstall")
    /\ \/ /\ Launch(c, "probe", "user", FALSE, "install")
          /\ Spend
       \/ /\ IF Optional(c) THEN SendStart(c) ELSE Stop(c)
          /\ UNCHANGED spent
    /\ UNCHANGED <<pkg, remote>>

\* And if that fails, in an environment of its own?
AnswerVenv(c) ==
    /\ Is(c, "askVenv")
    /\ \/ /\ Launch(c, "probe", "venv", FALSE, "install")
          /\ Spend
       \/ Stop(c) /\ UNCHANGED spent
    /\ UNCHANGED <<pkg, remote>>

Setup(c) ==
    \/ Connect(c) \/ ReadHello(c) \/ NoHello(c) \/ HelloTimeout(c)
    \/ AnswerLocal(c) \/ AnswerInstall(c) \/ AnswerVenv(c)

-----------------------------------------------------------------------------
(* The attach: one fresh attempt after BUSY, then only with consent.        *)

Backoff(c) ==
    /\ helper' = Without(cli[c].h)
    /\ Update(c, [cli[c] EXCEPT !.at = "backoff", !.h = None])

\* A failed attempt ends the client, unless it reconnects by itself.
Fails(c) == IF cli[c].phase = "auto" THEN Backoff(c) ELSE Stop(c)

\* A helper of an attempt after the first: its hello is checked again.
Rehello(c) ==
    LET p == Mine(c).pkg IN
    /\ Is(c, "hello")
    /\ \/ Said(c, "hello") /\ Fit(p) /\ SendStart(c)
       \/ /\ Closed(c) \/ (Said(c, "hello") /\ ~Fit(p))
          /\ Fails(c)
    /\ UNCHANGED <<pkg, remote, spent>>

Accepted(c) ==
    /\ Is(c, "status") /\ Said(c, "accepted")
    /\ Update(c, [cli[c] EXCEPT !.at = "live", !.late = FALSE,
                                !.phase = "first"])
    /\ helper' = [helper EXCEPT ![cli[c].h].said = "none"]
    /\ UNCHANGED <<pkg, remote, spent>>

\* Mutant: the second attempt takes over already.
MutReplaces(c, phase) == phase \in {"retry", "replace"}

\* Whether an attempt may end the views of others.
Replaces(c, phase) == phase = "replace"
Again(c, phase) == Launch(c, "hello", phase, Replaces(c, phase), "hello")

Busy(c) ==
    /\ Is(c, "status") /\ Said(c, "busy")
    /\ CASE cli[c].phase = "retry" ->
              /\ helper' = Without(cli[c].h)
              /\ Update(c, [cli[c] EXCEPT !.at = "askTakeover", !.h = None])
         [] cli[c].phase \in {"auto", "replace"} -> Fails(c)
         [] OTHER -> Again(c, "retry")
    /\ UNCHANGED <<pkg, remote, spent>>

\* The helper failed, the connection is lost, or no status comes in time.
Refused(c) ==
    /\ Is(c, "status") /\ ~Said(c, "busy") /\ ~Said(c, "accepted")
    /\ Closed(c) \/ Mine(c).at \in {"starting", "lock"} \/ tm.frozen
    /\ Fails(c)
    /\ UNCHANGED <<pkg, remote, spent>>

AnswerTakeover(c) ==
    /\ Is(c, "askTakeover")
    /\ Again(c, "replace") \/ Stop(c)
    /\ UNCHANGED <<pkg, remote, spent>>

-----------------------------------------------------------------------------
(* The established display (run) and automatic reconnection.                *)

Paint(c) ==
    /\ Is(c, "live") /\ ~cli[c].painted
    /\ Mine(c).at = "serve" /\ ~Mine(c).cut
    /\ Update(c, [cli[c] EXCEPT !.painted = TRUE])
    /\ UNCHANGED <<pkg, remote, helper, spent>>

\* Ctrl-] ends the client and its ssh process, also while it reconnects.
Escape(c) ==
    /\ Is(c, "live") \/ (cli[c].phase = "auto" /\ ~Is(c, "done"))
    /\ Stop(c)
    /\ UNCHANGED <<pkg, remote, spent>>

\* should_automatically_reconnect.
Eligible(c, code) == c \in Reconnects /\ cli[c].painted /\ code \notin Terminal

\* The status of the ssh process once it is reaped.
Status(H) == IF H.cut THEN "LINK" ELSE H.code

Lost(c) ==
    /\ Is(c, "live") /\ Closed(c)
    /\ IF Eligible(c, Status(Mine(c)))
       THEN /\ helper' = Without(cli[c].h)
            /\ Update(c, [cli[c] EXCEPT !.at = "backoff", !.phase = "auto",
                                        !.h = None])
       ELSE Stop(c)
    /\ UNCHANGED <<pkg, remote, spent>>

\* The window for reconnection ends.
Deadline(c) ==
    /\ cli[c].phase = "auto" /\ cli[c].at \in {"backoff", "hello", "status"}
    /\ ~cli[c].late
    /\ Update(c, [cli[c] EXCEPT !.late = TRUE])
    /\ UNCHANGED <<pkg, remote, helper, spent>>

\* Mutant: no window.
MutGivesUp(c) == FALSE

\* _automatic_reconnect: after each failure it waits, then tries again.
GivesUp(c) == cli[c].late
Retry(c) ==
    /\ Is(c, "backoff")
    /\ IF GivesUp(c) THEN Stop(c) ELSE Again(c, "auto")
    /\ UNCHANGED <<pkg, remote, spent>>

Attempt(c) == Rehello(c) \/ Accepted(c) \/ Busy(c) \/ Refused(c)
Reconnect(c) == Lost(c) \/ Retry(c)
ClientStep(c) == Attempt(c) \/ Reconnect(c)
ClientMove(c) == AnswerTakeover(c) \/ Paint(c) \/ Escape(c)

-----------------------------------------------------------------------------
(* Railmux in the managed session, and the server (_commit_exit,            *)
(* _teardown_tmux).                                                         *)

\* The session ends and its clients exit; with its last session the server.
SessionEnds(reason) ==
    /\ tm' = [tm EXCEPT !.up = tm.others, !.sid = 0, !.ctl = FALSE,
                        !.quit = "no"]
    /\ attached' = {}
    /\ helper' = [h \in Helpers |->
         IF h \in attached /\ helper[h].at = "serve"
         THEN [helper[h] EXCEPT !.ended = reason] ELSE helper[h]]
    /\ local' = IF "local" \in attached THEN [local EXCEPT !.at = "lost"]
                ELSE local

Ready ==
    /\ tm.sid # 0 /\ Answers /\ ~tm.ctl /\ tm.quit = "no"
    /\ tm' = [tm EXCEPT !.ctl = TRUE]
    /\ UNCHANGED <<pkg, attached, lock, soft, clean, helper, cli, local,
                   spent>>

\* A soft quit publishes its intent, which may fail, before it tears down.
SoftQuit ==
    /\ Answers /\ tm.ctl /\ tm.quit = "no" /\ Spend
    /\ \/ soft' = Here /\ tm' = [tm EXCEPT !.quit = "soft"]
       \/ UNCHANGED soft /\ tm' = [tm EXCEPT !.quit = "unrecorded"]
    /\ UNCHANGED <<pkg, attached, lock, clean, helper, cli, local>>

\* A hard quit ends the agents, unless a displayed one cannot be returned:
\* then it goes on as a soft quit without a recorded intent.
HardQuit ==
    /\ Answers /\ tm.ctl /\ tm.quit = "no" /\ Spend
    /\ \/ \E o \in {FALSE, tm.others} :
            tm' = [tm EXCEPT !.quit = "hard", !.ctl = FALSE, !.others = o]
       \/ tm' = [tm EXCEPT !.quit = "unrecorded"]
    /\ UNCHANGED <<pkg, attached, lock, soft, clean, helper, cli, local>>

\* The managers are closed: the session is no longer a managed one.
Teardown ==
    /\ Answers /\ tm.ctl /\ tm.quit \in {"soft", "unrecorded"}
    /\ tm' = [tm EXCEPT !.ctl = FALSE]
    /\ UNCHANGED <<pkg, attached, lock, soft, clean, helper, cli, local,
                   spent>>

\* Railmux exits; a display pane it could not return keeps the session.
Exit ==
    /\ Answers /\ ~tm.ctl /\ tm.quit \in {"soft", "unrecorded"}
    /\ \/ SessionEnds(IF tm.quit = "soft" THEN "soft" ELSE "none")
       \/ /\ tm.quit = "unrecorded"
          /\ tm' = [tm EXCEPT !.quit = "left"]
          /\ UNCHANGED <<attached, helper, local>>
    /\ UNCHANGED <<pkg, lock, soft, clean, cli, spent>>

\* The sentinel of the hard quit, if it can be written, then the kill.
HardIntent ==
    /\ Answers /\ tm.quit = "hard"
    /\ tm' = [tm EXCEPT !.quit = "kill"]
    /\ clean' \in {Here, clean}
    /\ UNCHANGED <<pkg, attached, lock, soft, helper, cli, local, spent>>

HardKill ==
    /\ Answers /\ tm.quit = "kill"
    /\ \/ /\ SessionEnds(IF clean = Here THEN "hard" ELSE "none")
          /\ UNCHANGED <<clean, spent>>
       \/ /\ Spend
          /\ tm' = [tm EXCEPT !.quit = "unrecorded"]
          /\ clean' = None
          /\ UNCHANGED <<attached, helper, local>>
    /\ UNCHANGED <<pkg, lock, soft, cli>>

Crash ==
    /\ tm.up /\ tm.sid # 0 /\ Spend
    /\ \/ SessionEnds("none")
       \/ /\ tm' = [tm EXCEPT !.up = FALSE, !.sid = 0, !.ctl = FALSE,
                              !.others = FALSE, !.quit = "no",
                              !.frozen = FALSE]
          /\ attached' = {}
          /\ local' = IF "local" \in attached THEN [local EXCEPT !.at = "lost"]
                      ELSE local
          /\ UNCHANGED helper
       \/ /\ ~tm.frozen /\ tm' = [tm EXCEPT !.frozen = TRUE]
          /\ UNCHANGED <<attached, helper, local>>
    /\ UNCHANGED <<pkg, lock, soft, clean, cli>>

\* A sentinel is good for 30 seconds; a helper whose client exits looks at
\* once.
Pending(s) ==
    \E h \in Helpers : /\ helper[h].at \in {"serve", "classify"}
                       /\ Of(helper[h]) = s
Expire ==
    /\ \/ /\ soft \notin {None, Here} /\ ~Pending(soft)
          /\ soft' = None /\ UNCHANGED clean
       \/ /\ clean \notin {None, Here} /\ ~Pending(clean)
          /\ clean' = None /\ UNCHANGED soft
    /\ UNCHANGED <<pkg, tm, attached, lock, helper, cli, local, spent>>

App == Ready \/ Teardown \/ Exit \/ HardIntent \/ HardKill

-----------------------------------------------------------------------------
(* Others at the session: a terminal on the host with its launcher, a       *)
(* helper of an old version, which holds the lock for as long as it lives,  *)
(* and users who detach.                                                    *)

\* new-session -A attaches or starts; it takes no lock.
LocalLaunch ==
    /\ local.at = "off" /\ ~tm.frozen /\ Spend
    /\ tm.sid # 0 \/ MayStart
    /\ tm' = IF tm.sid # 0 THEN tm ELSE NewSession
    /\ attached' = attached \cup {"local"}
    /\ local' = [at |-> "on", srv |-> tm'.srv, sid |-> tm'.sid]
    /\ UNCHANGED <<pkg, lock, soft, clean, helper, cli>>

\* tmux's client exits: an error together with a changed server makes the
\* launcher read, and remove, the sentinel.
LocalEnd ==
    /\ local.at = "lost" \/ (local.at = "on" /\ "local" \notin attached)
    /\ \/ /\ local.at = "lost" /\ (~Answers \/ tm.srv # local.srv)
          /\ clean' = None
       \/ UNCHANGED clean
    /\ local' = [at |-> "off", srv |-> 0, sid |-> 0]
    /\ UNCHANGED <<pkg, tm, attached, lock, soft, helper, cli, spent>>

\* Its watchdog stops the client of a server that no longer answers.
LocalWatchdog ==
    /\ local.at = "on" /\ "local" \in attached /\ tm.frozen
    /\ attached' = attached \ {"local"}
    /\ UNCHANGED <<pkg, tm, lock, soft, clean, helper, cli, local, spent>>

UserDetaches ==
    /\ Answers
    /\ \E v \in attached :
         /\ v \in Helpers => helper[v].at = "serve"
         /\ attached' = attached \ {v}
    /\ UNCHANGED <<pkg, tm, lock, soft, clean, helper, cli, local, spent>>

LegacyEnds ==
    /\ "legacy" \notin attached /\ \E s \in Sids : lock[s] = "legacy"
    /\ lock' = [s \in Sids |-> IF lock[s] = "legacy" THEN None ELSE lock[s]]
    /\ UNCHANGED <<pkg, tm, attached, soft, clean, helper, cli, local, spent>>

Cut(h) ==
    /\ helper[h].at # "free" /\ ~helper[h].cut /\ Spend
    /\ helper' = [helper EXCEPT ![h].cut = TRUE, ![h].said = "none"]
    /\ UNCHANGED <<pkg, remote, cli>>

Next ==
    \/ \E h \in Helpers : HelperStep(h) \/ Cut(h)
    \/ \E c \in Clients :
         Setup(c) \/ ClientStep(c) \/ ClientMove(c) \/ Deadline(c)
    \/ App \/ SoftQuit \/ HardQuit \/ Crash \/ Expire
    \/ LocalLaunch \/ LocalEnd \/ LocalWatchdog \/ UserDetaches \/ LegacyEnds

Spec == Init /\ [][Next]_vars

\* The helpers and clients go on by themselves, bounded by their timeouts;
\* nobody has to answer, quit, cut or crash.
FairSpec ==
    /\ Spec
    /\ \A h \in Helpers : WF_vars(HelperStep(h))
    /\ \A c \in Clients : WF_vars(ClientStep(c)) /\ WF_vars(Deadline(c))
    /\ WF_vars(App) /\ WF_vars(LegacyEnds)

-----------------------------------------------------------------------------
TypeOK ==
    /\ pkg \in Package
    /\ tm \in [up : BOOLEAN, srv : 1 .. MaxServers, sid : 0 .. MaxSessions,
               born : Sids, ctl : BOOLEAN, others : BOOLEAN,
               quit : {"no", "soft", "unrecorded", "left", "hard", "kill"},
               frozen : BOOLEAN]
    /\ attached \subseteq Holders \cup {"local"}
    /\ lock \in [Sids -> Holders \cup {None}]
    /\ soft \in Sentinel \cup {None} /\ clean \in Sentinel \cup {None}
    /\ helper \in [Helpers ->
         [own : Clients \cup {None}, rep : BOOLEAN, cut : BOOLEAN,
          at : {"free", "install", "hello", "start", "go", "starting", "lock",
                "held", "swept", "attached", "accepted", "serve", "classify",
                "ended"},
          want : Versions, said : {"none", "hello", "accepted", "busy"},
          pkg : Package \cup {None}, srv : 0 .. MaxServers,
          sid : 0 .. MaxSessions, code : Codes,
          ended : {"none", "soft", "hard"}]]
    /\ cli \in [Clients ->
         [at : {"idle", "probe", "askLocal", "askInstall", "askVenv", "hello",
                "status", "askTakeover", "live", "backoff", "done"},
          h : Helpers \cup {None},
          phase : {"first", "user", "venv", "retry", "replace", "auto"},
          want : Versions, painted : BOOLEAN, late : BOOLEAN]]
    /\ local \in [at : {"off", "on", "lost"}, srv : 0 .. MaxServers,
                  sid : 0 .. MaxSessions]
    \* A helper that is attached, or holds the lock, is at a place for it.
    /\ \A h \in attached \cap Helpers :
         helper[h].at \in {"attached", "accepted", "serve"}
    /\ \A h \in Helpers : (\E s \in Sids : lock[s] = h)
         <=> helper[h].at \in {"held", "swept", "attached"}

\* A takeover that its user agreed to leaves no other remote display at the
\* session when it is accepted, whoever attached between its two sweeps.
TakeoverAlone ==
    [][\A h \in Helpers :
         /\ helper[h].rep /\ helper[h].at = "attached"
         /\ helper'[h].at = "accepted"
         => attached' \cap Holders = {h}]_vars

\* Only a user's consent ends the views of others: while the session goes
\* on, a step of a helper removes no client but its own, unless that
\* helper's user was asked (_finish_remote_attach).
Consented ==
    [][\A h \in Helpers :
         /\ HelperStep(h) /\ ~(attached \subseteq attached' \cup {h})
         => cli[helper[h].own].phase = "replace" \/ helper[h].cut]_vars

\* A soft quit is final for every client whose view it closed: however many
\* there are, none of them starts Railmux again (soft_exit_intended).  The
\* record of a later soft quit replaces the first, so this is said of the
\* session that was started last.
SoftIsFinal ==
    [][\A c \in Clients :
         /\ Is(c, "live") /\ ~Is(c, "live")' /\ Closed(c) /\ ~Mine(c).cut
         /\ Mine(c).ended = "soft"
         /\ Mine(c).srv = tm.srv /\ Mine(c).sid = tm.born
         => Is(c, "done")']_vars

\* The same of a hard quit (README.md, Automatic reconnect).
HardIsFinal ==
    [][\A c \in Clients :
         /\ Is(c, "live") /\ ~Is(c, "live")' /\ Closed(c) /\ ~Mine(c).cut
         /\ Mine(c).ended = "hard"
         => Is(c, "done")']_vars

\* Setting up the remote side never lowers the version that is there, also
\* when the client repairs a newer one (prepare_remote_process).
NoDowngrade == [][pkg'.ver >= pkg.ver]_vars

\* A helper whose connection is gone lets go of the session (the lease).
Released ==
    \A h \in Helpers :
      (helper[h].cut /\ h \in attached) ~> (h \notin attached)

\* A client that lost its display gets it back or ends, in bounded time.
Settles ==
    \A c \in Clients : Is(c, "backoff") ~> Is(c, "live") \/ Is(c, "done")
=============================================================================
