-------------------------- MODULE BackgroundIndex --------------------------
(***************************************************************************)
(* The background Codex index: the worker thread of                        *)
(* src/railmux/background_index.py, the scanner of codex_index.py that it   *)
(* owns, and the UI thread that requests scans, reads the published         *)
(* generation and deletes sessions.                                        *)
(*                                                                         *)
(* A scan is a walk over the rollout files, one file listed or read per     *)
(* step, outside the lock; files are created and removed while it runs.     *)
(* Steps that the code performs under the condition's lock are atomic.      *)
(*                                                                         *)
(* Simplifications: the rate limit only delays a scan and is left out, so   *)
(* is the force flag, which shortens that delay; every file is an           *)
(* interactive session, whose id names it, and is listed at a time of its   *)
(* own (the sessions tree has a directory per day); a removed file does not *)
(* come back; close is the last call of the UI thread (it is made by the    *)
(* app's teardown); the warnings shown to the user are left out.            *)
(***************************************************************************)
EXTENDS Naturals, FiniteSets

CONSTANTS
    Files,       \* rollout files, by session id
    MaxSerial,   \* bound on the scan requests made
    Transient,   \* reading a file that exists may fail
    Wipes        \* the whole sessions directory may be removed

ASSUME MaxSerialAssumption == MaxSerial \in Nat \ {0}

VARIABLES
    disk,     \* file -> not created yet, there, or removed
    home,     \* the sessions directory exists
    entries,  \* CodexIndex._entries: the sessions the scanner has cached
    scan,     \* the worker: label, request it serves, progress of its walk
    q,        \* request state: serial, requested, invalidate, closed
    pub,      \* published state: generation, sessions, tombstones, ...
    ui,       \* the UI thread: label, serial waited for, its pinned view
    reported  \* sessions the user was told are deleted

indexVars == <<disk, home, entries, scan, q, pub, ui, reported>>

There == {f \in Files : disk[f] = "there"}

NoScan == [at |-> "idle", serial |-> 0, unlisted |-> {}, unread |-> {},
           paths |-> {}, skipped |-> {}, incomplete |-> FALSE, had |-> {}]
NoPin == [pinned |-> FALSE, sessions |-> {}, tombstones |-> {}]

\* The app requests a first scan as soon as the index exists.
IndexInit ==
    /\ disk \in [Files -> {"unborn", "there"}]
    /\ home = (There # {})
    /\ entries = {}
    /\ scan = NoScan
    /\ q = [serial |-> 1, requested |-> TRUE, invalidate |-> FALSE,
            closed |-> FALSE]
    /\ pub = [generation |-> 0, sessions |-> {}, tombstones |-> {},
              completed |-> 0, initial_failure |-> FALSE, skipped |-> {}]
    /\ ui = [at |-> "run", wait |-> 0, need |-> {}, file |-> {},
             view |-> NoPin]
    /\ reported = {}

-----------------------------------------------------------------------------
(* The UI thread *)

Request(inval) ==
    [q EXCEPT !.serial = @ + 1, !.requested = TRUE,
              !.invalidate = @ \/ inval]

RefreshIndex ==
    /\ ui.at = "run" /\ ~q.closed /\ q.serial < MaxSerial
    /\ q' = Request(FALSE)
    /\ UNCHANGED <<disk, home, entries, scan, pub, ui, reported>>

\* refresh_and_wait
RefreshAndWait ==
    /\ ui.at = "run" /\ ~q.closed /\ q.serial < MaxSerial
    /\ q' = Request(FALSE)
    /\ ui' = [ui EXCEPT !.at = "wait", !.wait = q'.serial, !.need = There]
    /\ UNCHANGED <<disk, home, entries, scan, pub, reported>>

Fenced == pub.completed >= ui.wait

WaitReturns ==
    /\ ui.at = "wait" /\ Fenced
    /\ ui' = [ui EXCEPT !.at = "run", !.wait = 0, !.need = {}]
    /\ UNCHANGED <<disk, home, entries, scan, q, pub, reported>>

WaitTimesOut ==
    /\ ui.at = "wait" /\ ~Fenced
    /\ ui' = [ui EXCEPT !.at = "run", !.wait = 0, !.need = {}]
    /\ UNCHANGED <<disk, home, entries, scan, q, pub, reported>>

BeginRead ==
    /\ ui.at = "run" /\ ~ui.view.pinned
    /\ ui' = [ui EXCEPT !.view = [pinned |-> TRUE, sessions |-> pub.sessions,
                                  tombstones |-> pub.tombstones]]
    /\ UNCHANGED <<disk, home, entries, scan, q, pub, reported>>

EndRead ==
    /\ ui.view.pinned
    /\ ui' = [ui EXCEPT !.view = NoPin]
    /\ UNCHANGED <<disk, home, entries, scan, q, pub, reported>>

\* What a query shows.
Visible == IF ui.view.pinned THEN ui.view.sessions \ ui.view.tombstones
           ELSE pub.sessions \ pub.tombstones

\* _cleanup_codex_session: the rollout is removed first ...
DeleteFile(f) ==
    /\ ui.at = "run" /\ ~q.closed /\ ~ui.view.pinned /\ f \in There
    /\ disk' = [disk EXCEPT ![f] = "removed"]
    /\ ui' = [ui EXCEPT !.at = "delete", !.file = {f}]
    /\ UNCHANGED <<home, entries, scan, q, pub, reported>>

\* ... then the index is invalidated, with the session's tombstone.
Invalidate ==
    /\ ui.at = "delete" /\ q.serial < MaxSerial
    /\ pub' = [pub EXCEPT !.tombstones = @ \cup ui.file]
    /\ q' = Request(TRUE)
    /\ reported' = reported \cup ui.file
    /\ ui' = [ui EXCEPT !.at = "run", !.file = {}]
    /\ UNCHANGED <<disk, home, entries, scan>>

\* invalidate() after a rename or from the refresh key
InvalidateAll ==
    /\ ui.at = "run" /\ ~q.closed /\ q.serial < MaxSerial
    /\ q' = Request(TRUE)
    /\ UNCHANGED <<disk, home, entries, scan, pub, ui, reported>>

Close ==
    /\ ui.at = "run" /\ ~q.closed
    /\ q' = [q EXCEPT !.closed = TRUE, !.requested = FALSE]
    /\ UNCHANGED <<disk, home, entries, scan, pub, ui, reported>>

-----------------------------------------------------------------------------
(* The worker *)

\* The start of a scan.  A missing sessions directory is a complete scan.
Take ==
    /\ scan.at = "idle" /\ q.requested /\ ~q.closed
    /\ q' = [q EXCEPT !.requested = FALSE, !.invalidate = FALSE]
    /\ entries' = IF q.invalidate THEN {} ELSE entries
    /\ scan' = [NoScan EXCEPT !.at = IF home THEN "walk" ELSE "publish",
                  !.serial = q.serial, !.unlisted = Files, !.had = There]
    /\ UNCHANGED <<disk, home, pub, ui, reported>>

\* A file is listed, or its directory cannot be: os.walk's onerror.
List(f) ==
    /\ scan.at = "walk" /\ f \in scan.unlisted
    /\ \/ LET found == {f} \cap There
          IN  scan' = [scan EXCEPT !.unlisted = @ \ {f},
                         !.unread = @ \cup found, !.paths = @ \cup found]
       \/ /\ Transient
          /\ scan' = [scan EXCEPT !.unlisted = @ \ {f}, !.incomplete = TRUE]
    /\ UNCHANGED <<disk, home, entries, q, pub, ui, reported>>

\* stat and parse: on a transient error the cache keeps what it has.
Read(f) ==
    /\ scan.at = "walk" /\ f \in scan.unread
    /\ \/ /\ f \in There
          /\ entries' = entries \cup {f}
          /\ scan' = [scan EXCEPT !.unread = @ \ {f}]
       \/ /\ f \notin There \/ Transient
          /\ scan' = [scan EXCEPT !.unread = @ \ {f},
                                  !.skipped = @ \cup {f}]
          /\ UNCHANGED entries
    /\ UNCHANGED <<disk, home, q, pub, ui, reported>>

\* Mutant: what was not listed is not evicted.
MutEvict == entries
\* Only a complete walk evicts what it did not list.
Evict == IF scan.incomplete THEN entries ELSE entries \cap scan.paths

EndWalk ==
    /\ scan.at = "walk" /\ scan.unlisted = {} /\ scan.unread = {}
    /\ entries' = Evict
    /\ scan' = [scan EXCEPT !.at = "publish"]
    /\ UNCHANGED <<disk, home, q, pub, ui, reported>>

Usable == ~scan.incomplete /\ ~(scan.skipped # {} /\ entries = {})

\* Mutant: off by one, the generation answers the next request as well.
MutNextCompleted == scan.serial + 1
\* Mutant: the generation answers every request made so far.
MutCompleted == q.serial
Completed == IF pub.completed >= scan.serial THEN pub.completed
             ELSE scan.serial

\* Mutant: a published scan has seen every deletion.
MutTombstones == {}
Tombstones == pub.tombstones \cap entries

\* Mutant: the end of the scan clears the request flag.
MutDone == /\ scan' = [scan EXCEPT !.at = "idle"]
           /\ q' = [q EXCEPT !.requested = FALSE]
Done == scan' = [scan EXCEPT !.at = "idle"] /\ UNCHANGED q

\* Mutant: a scan that comes back after close still publishes.
MutAbandoned == FALSE
ClosedMeanwhile == q.closed

Publish ==
    /\ scan.at = "publish"
    /\ IF ClosedMeanwhile
       THEN scan' = [scan EXCEPT !.at = "exited"] /\ UNCHANGED <<pub, q>>
       ELSE /\ Done
            /\ pub' = IF ~Usable
                      THEN [pub EXCEPT !.initial_failure =
                              @ \/ pub.generation = 0]
                      ELSE [generation |-> pub.generation + 1,
                            sessions |-> entries,
                            tombstones |-> Tombstones,
                            completed |-> Completed,
                            initial_failure |-> FALSE,
                            skipped |-> scan.skipped]
    /\ UNCHANGED <<disk, home, entries, ui, reported>>

WorkerExits ==
    /\ scan.at = "idle" /\ q.closed
    /\ scan' = [scan EXCEPT !.at = "exited"]
    /\ UNCHANGED <<disk, home, entries, q, pub, ui, reported>>

Worker == Take \/ EndWalk \/ Publish \/ WorkerExits
          \/ \E f \in Files : List(f) \/ Read(f)

-----------------------------------------------------------------------------
(* Other processes: agents create rollouts, users remove them *)

Create(f) ==
    /\ disk[f] = "unborn"
    /\ disk' = [disk EXCEPT ![f] = "there"]
    /\ home' = TRUE
    /\ scan' = [scan EXCEPT !.had = @ \cup {f}]
    /\ UNCHANGED <<entries, q, pub, ui, reported>>

Remove(f) ==
    /\ f \in There
    /\ disk' = [disk EXCEPT ![f] = "removed"]
    /\ UNCHANGED <<home, entries, scan, q, pub, ui, reported>>

Wipe ==
    /\ Wipes /\ home
    /\ disk' = [f \in Files |-> IF f \in There THEN "removed" ELSE disk[f]]
    /\ home' = FALSE
    /\ UNCHANGED <<entries, scan, q, pub, ui, reported>>

IndexNext ==
    \/ RefreshIndex \/ RefreshAndWait \/ WaitReturns \/ WaitTimesOut
    \/ BeginRead \/ EndRead \/ Invalidate \/ InvalidateAll \/ Close
    \/ Worker
    \/ Wipe
    \/ \E f \in Files : DeleteFile(f) \/ Create(f) \/ Remove(f)

IndexSpec == IndexInit /\ [][IndexNext]_indexVars

\* The worker thread is scheduled; a walk comes to an end.
IndexFairSpec == IndexSpec /\ WF_indexVars(Worker)

-----------------------------------------------------------------------------
(* Properties *)

ScanType ==
    [at : {"idle", "walk", "publish", "exited"}, serial : 0..MaxSerial,
     unlisted : SUBSET Files, unread : SUBSET Files, paths : SUBSET Files,
     skipped : SUBSET Files, incomplete : BOOLEAN, had : SUBSET Files]
ViewType == [pinned : BOOLEAN, sessions : SUBSET Files,
             tombstones : SUBSET Files]

RequestType == [serial : 1..MaxSerial, requested : BOOLEAN,
                invalidate : BOOLEAN, closed : BOOLEAN]
PubType == [generation : Nat, sessions : SUBSET Files,
            tombstones : SUBSET Files, completed : 0..MaxSerial,
            initial_failure : BOOLEAN, skipped : SUBSET Files]
UiType == [at : {"run", "wait", "delete"}, wait : 0..MaxSerial,
           need : SUBSET Files, file : SUBSET Files, view : ViewType]

IndexTypeOK ==
    /\ disk \in [Files -> {"unborn", "there", "removed"}]
    /\ home \in BOOLEAN /\ entries \in SUBSET Files
    /\ scan \in ScanType /\ q \in RequestType /\ pub \in PubType
    /\ ui \in UiType /\ reported \in SUBSET Files

\* A session the user was told is deleted is never shown again, whichever scan
\* was in flight when it was deleted and whatever that scan publishes.
NeverReappears == reported \cap Visible = {}

\* Every session of a published generation existed while its scan ran: a
\* removed rollout does not outlive the next complete walk.
PublishedExisted ==
    [][pub'.generation # pub.generation
         => pub'.sessions \subseteq scan.had]_indexVars

\* A walk evicts what it did not find: the generation that it publishes holds
\* only sessions that existed while it ran.
WalkEvicts ==
    [][pub'.generation # pub.generation /\ scan.unlisted = {}
         => pub'.sessions \subseteq scan.had]_indexVars

\* refresh_and_wait returns TRUE only for a scan that began after the request:
\* every session that existed then, and still does, was read by it, or failed
\* to be and is counted in its report.
FenceSound ==
    [][WaitReturns =>
         ui.need \cap There \subseteq pub.sessions \cup pub.skipped]_indexVars

\* The same without the exception: the fence before a launch lists every
\* session that already existed.
FenceComplete ==
    [][WaitReturns => ui.need \cap There \subseteq pub.sessions]_indexVars

\* A scan still running when the index is closed changes nothing that is read.
ClosedIsFrozen ==
    [][q.closed => UNCHANGED <<pub.generation, pub.sessions>>]_indexVars

\* Every request is followed by a scan that began after it, unless the index
\* is closed: requests made during a scan are not lost.
Answered ==
    \A n \in 1..MaxSerial :
        q.serial >= n ~> q.closed \/ (scan.serial >= n /\ scan.at = "idle")

=============================================================================
