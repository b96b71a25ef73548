---------------------------- MODULE ScreenStream ----------------------------
(***************************************************************************)
(* The screen that railmux ssh shows: the display helper's loop on the      *)
(* remote side (fast_display_server.py, _serve_attached), the frames that   *)
(* cross the connection (fast_display_protocol.py) and the client's screen  *)
(* model (fast_display_client.py, ScreenModel and run).                     *)
(*                                                                         *)
(* One turn of the helper's loop handles the messages that have come in,    *)
(* takes output of the private tmux client, writes what the connection      *)
(* takes, and decides what to send next.  Client, user and connection act   *)
(* between any two of these.                                                *)
(*                                                                         *)
(* Simplifications: the cursor and the terminal modes count as a row; a     *)
(* screen keeps its rows when it is resized, until tmux repaints it;        *)
(* forwarded input and heartbeats change nothing here; the two requests for *)
(* history are one, whose answer is a packet without contents.              *)
(***************************************************************************)
EXTENDS Naturals, Sequences

CONSTANTS
    Rows,
    Texts,          \* what a row may show
    Blank,          \* a text: what a new screen shows
    Sizes,          \* the sizes of the user's terminal
    FirstSize,      \* its size when the client starts
    None,
    SeqMod,         \* sequence numbers wrap at SeqMod, 2^32 in the code
    ControlLimit,   \* history answers that may be queued, 4 in the code
    MaxFrames,      \* bound on the updates of a connection
    MaxDown,        \* bound on the packets under way to the client
    MaxOutputs,     \* bound on the times the screen changes
    MaxResizes,     \* bound on the user's resizes
    MaxRequests,    \* bound on the requests for history
    MaxLosses       \* bound on lost connections

ASSUME BlankAssumption == Blank \in Texts
ASSUME SizeAssumption == FirstSize \in Sizes /\ None \notin Sizes
ASSUME FrameAssumption ==
    None \notin [seq : Nat, size : Sizes, rows : [Rows -> Texts]]
ASSUME SequenceAssumption ==
    SeqMod \in Nat /\ MaxFrames \in Nat /\ MaxFrames < SeqMod
ASSUME ControlAssumption == ControlLimit \in Nat

VARIABLES
    srv,    \* the helper: its screen, diff base, packet being sent, queue
    cli,    \* the client: terminal size, screen model, whether it awaits
    up,     \* messages to the helper
    down,   \* packets to the client
    spent   \* how often each bounded event has happened

vars == <<srv, cli, up, down, spent>>

Screen == [Rows -> Texts]
Events == {"output", "resize", "request", "loss"}
Spend(e, limit) == spent[e] < limit /\ spent' = [spent EXCEPT ![e] = @ + 1]

\* A helper that has just attached.
Attached(z) ==
    [at |-> "read", size |-> z, rows |-> [r \in Rows |-> Blank],
     changed |-> TRUE, force |-> TRUE, delivered |-> None,
     pending |-> None, part |-> FALSE, control |-> 0]

Init ==
    /\ srv = Attached(FirstSize)
    /\ cli = [size |-> FirstSize, model |-> None, awaiting |-> FALSE,
              painted |-> FALSE]
    /\ up = <<>> /\ down = <<>>
    /\ spent = [e \in Events |-> 0]

-----------------------------------------------------------------------------
(* Packets.  An update carries the size, the sequence number and the rows   *)
(* that changed; its base and its whole frame are there for the properties. *)

Frame(n, z, t) == [seq |-> n, size |-> z, rows |-> t]
Keyframe(f) == [kind |-> "keyframe", base |-> None, frame |-> f,
                changes |-> f.rows]
Changed(b, f) == {r \in Rows : f.rows[r] # b.rows[r]}
Patch(b, f) == [kind |-> "patch", base |-> b, frame |-> f,
                changes |-> [r \in Changed(b, f) |-> f.rows[r]]]
History == [kind |-> "history", base |-> None, frame |-> None,
            changes |-> None]

NextSeq(f) == IF f = None THEN 1 ELSE (f.seq + 1) % SeqMod

-----------------------------------------------------------------------------
(* The helper: _serve_attached *)

IsUpdate(p) == p # None /\ p.kind # "history"

\* Mutant: a packet of which a part is written is dropped as well.
MutUnsent(s) == IsUpdate(s.pending)
\* An update of which nothing is written yet.
Unsent(s) == IsUpdate(s.pending) /\ ~s.part

\* discard_unsent_update
Discarded(s) == IF Unsent(s) THEN [s EXCEPT !.pending = None, !.part = FALSE]
                ELSE s

\* apply_resize
Resized(s, z) ==
    IF z = s.size THEN s
    ELSE [Discarded(s) EXCEPT !.size = z, !.force = TRUE, !.changed = TRUE]

Refreshed(s) == [Discarded(s) EXCEPT !.force = TRUE, !.changed = TRUE]

\* Mutant: one answer too many is queued.
MutQueued(s) == IF s.control > ControlLimit THEN s
                ELSE [Discarded(s) EXCEPT !.control = @ + 1]
\* queue_control_packet; a full queue drops the request.
Queued(s) == IF s.control >= ControlLimit THEN s
             ELSE [Discarded(s) EXCEPT !.control = @ + 1]

HandleMessage ==
    /\ srv.at = "read" /\ up # <<>>
    /\ LET m == Head(up)
       IN  srv' = CASE m.kind = "resize" -> Resized(srv, m.size)
                    [] m.kind = "keyframe" -> Refreshed(srv)
                    [] m.kind = "history" -> Queued(srv)
    /\ up' = Tail(up)
    /\ UNCHANGED <<cli, down, spent>>

\* All messages are handled; tmux repaints the screen, or has nothing to say.
TakeOutput ==
    /\ srv.at = "read" /\ up = <<>>
    /\ \/ srv' = [srv EXCEPT !.at = "write"] /\ UNCHANGED spent
       \/ \E t \in Screen :
            /\ Spend("output", MaxOutputs)
            /\ srv' = [srv EXCEPT !.at = "write", !.rows = t, !.changed = TRUE]
    /\ UNCHANGED <<cli, up, down>>

\* The connection takes nothing, or only a part of the packet.
WriteSome ==
    /\ srv.at = "write"
    /\ \/ srv' = [srv EXCEPT !.at = "frame"]
       \/ srv.pending # None
          /\ srv' = [srv EXCEPT !.at = "frame", !.part = TRUE]
    /\ UNCHANGED <<cli, up, down, spent>>

\* The rest of the packet goes out: the diff base advances.
WriteAll ==
    /\ srv.at = "write" /\ srv.pending # None /\ Len(down) < MaxDown
    /\ down' = Append(down, srv.pending)
    /\ srv' = [srv EXCEPT
                 !.at = "frame", !.pending = None, !.part = FALSE,
                 !.delivered = IF IsUpdate(srv.pending) THEN srv.pending.frame
                               ELSE @]
    /\ UNCHANGED <<cli, up, spent>>

\* Mutant: a patch may follow a screen of another size.
MutNeedsKeyframe(s) == s.force \/ s.delivered = None
NeedsKeyframe(s) ==
    s.force \/ s.delivered = None \/ s.delivered.size # s.size

\* schedule_latest_update
Scheduled(s) ==
    LET f == Frame(NextSeq(s.delivered), s.size, s.rows)
        p == IF NeedsKeyframe(s) THEN Keyframe(f) ELSE Patch(s.delivered, f)
    IN  IF ~NeedsKeyframe(s) /\ s.rows = s.delivered.rows
        THEN [s EXCEPT !.changed = FALSE, !.pending = None]
        ELSE [s EXCEPT !.changed = FALSE, !.force = FALSE, !.pending = p]

\* An update takes the place of one of which nothing is written, or comes when
\* there is nothing else to write.
MaySchedule(s) ==
    \/ Unsent(s) /\ s.changed
    \/ s.pending = None /\ s.control = 0 /\ (s.changed \/ s.force)

\* activate_control_packet, which begins the next turn of the loop.
Activated(s) ==
    IF s.pending = None /\ s.control > 0
    THEN [s EXCEPT !.at = "read", !.pending = History, !.control = @ - 1]
    ELSE [s EXCEPT !.at = "read"]

Sent(s) == IF s.delivered = None THEN 0 ELSE s.delivered.seq

\* The time of the next frame has come.
Schedule ==
    /\ srv.at = "frame"
    /\ MaySchedule(srv) /\ Sent(srv) < MaxFrames
    /\ srv' = Activated(Scheduled(srv))
    /\ UNCHANGED <<cli, up, down, spent>>

\* It has not come yet, or there is nothing to schedule.
Pass ==
    /\ srv.at = "frame"
    /\ srv' = Activated(srv)
    /\ UNCHANGED <<cli, up, down, spent>>

-----------------------------------------------------------------------------
(* The client: ScreenModel.apply and run *)

Applied(p) == [seq |-> p.frame.seq, size |-> p.frame.size,
               rows |-> IF p.kind = "keyframe" THEN p.changes
                        ELSE [r \in Rows |-> IF r \in DOMAIN p.changes
                                             THEN p.changes[r]
                                             ELSE cli.model.rows[r]]]

\* Mutant: a patch is taken whatever the client last saw.
MutAcceptable(p) ==
    /\ p.frame.size = cli.size
    /\ p.kind = "patch" => cli.model # None /\ p.frame.size = cli.model.size
Acceptable(p) ==
    /\ p.frame.size = cli.size
    /\ p.kind = "patch" => /\ cli.model # None
                           /\ p.frame.seq = (cli.model.seq + 1) % SeqMod
                           /\ p.frame.size = cli.model.size

Send(m) == up' = Append(up, m)
Message(k, z) == [kind |-> k, size |-> z]

Receive ==
    /\ down # <<>>
    /\ LET p == Head(down)
       IN  \/ /\ IsUpdate(p) /\ Acceptable(p)
              /\ cli' = [cli EXCEPT !.model = Applied(p), !.painted = TRUE,
                           !.awaiting = IF p.kind = "keyframe" THEN FALSE
                                        ELSE @]
              /\ UNCHANGED up
           \/ /\ IsUpdate(p) /\ ~Acceptable(p)
              /\ IF cli.awaiting THEN UNCHANGED <<cli, up>>
                 ELSE /\ Send(Message("keyframe", None))
                      /\ cli' = [cli EXCEPT !.awaiting = TRUE]
           \/ ~IsUpdate(p) /\ UNCHANGED <<cli, up>>
    /\ down' = Tail(down)
    /\ UNCHANGED <<srv, spent>>

\* The user's terminal has another size.
Resize(z) ==
    /\ z # cli.size /\ Spend("resize", MaxResizes)
    /\ Send(Message("resize", z))
    /\ cli' = [cli EXCEPT !.size = z, !.awaiting = TRUE]
    /\ UNCHANGED <<srv, down>>

\* The wheel or the periodic prefetch asks for history.
AskHistory ==
    /\ cli.painted /\ Spend("request", MaxRequests)
    /\ Send(Message("history", None))
    /\ UNCHANGED <<srv, cli, down>>

\* Mutant: the screen model outlives the connection.
MutFreshModel == cli.model
FreshModel == None

\* The connection is lost and, if a screen had been painted, made again.
Reconnect ==
    /\ cli.painted /\ Spend("loss", MaxLosses)
    /\ srv' = Attached(cli.size)
    /\ up' = <<>> /\ down' = <<>>
    /\ cli' = [cli EXCEPT !.model = FreshModel, !.awaiting = FALSE]

-----------------------------------------------------------------------------

Helper == HandleMessage \/ TakeOutput \/ WriteSome \/ WriteAll \/ Schedule \/ Pass

Next == Helper \/ Receive \/ AskHistory \/ Reconnect
        \/ \E z \in Sizes : Resize(z)

Spec == Init /\ [][Next]_vars

\* The helper runs, the client reads, the time of the next frame comes again
\* and again, and a connection that is not lost takes a waiting packet in the
\* end.
FairSpec ==
    /\ Spec
    /\ WF_vars(Helper) /\ WF_vars(Receive)
    /\ SF_vars(Schedule) /\ SF_vars(WriteAll)

-----------------------------------------------------------------------------
(* Properties *)

FrameType == [seq : 1..MaxFrames, size : Sizes, rows : Screen]
ChangeType == UNION {[R -> Texts] : R \in SUBSET Rows}
UpdateType == [kind : {"keyframe", "patch"}, base : FrameType \cup {None},
               frame : FrameType, changes : ChangeType]
PacketType == UpdateType \cup {History}
HelperType ==
    [at : {"read", "write", "frame"}, size : Sizes, rows : Screen,
     changed : BOOLEAN, force : BOOLEAN, delivered : FrameType \cup {None},
     pending : PacketType \cup {None}, part : BOOLEAN,
     control : 0..ControlLimit]
ClientType == [size : Sizes, model : FrameType \cup {None},
               awaiting : BOOLEAN, painted : BOOLEAN]
MessageType == [kind : {"resize"}, size : Sizes]
               \cup [kind : {"keyframe", "history"}, size : {None}]

TypeOK ==
    /\ srv \in HelperType
    /\ cli \in ClientType
    /\ up \in Seq(MessageType)
    /\ down \in Seq(PacketType)
    /\ spent \in [Events -> Nat]

\* Whatever update the client applies leaves it with exactly the screen that
\* the helper had when it made that update: never a mixture of two screens,
\* though updates are dropped, replaced, rejected and cut off on the way.
Faithful ==
    [][cli'.model # cli.model /\ cli'.model # None =>
         cli'.model = Head(down).frame]_vars

\* A packet of which a part is on the wire is finished before anything else
\* is sent, unless the connection is lost: the framing survives resizes,
\* keyframe requests and queued history.
PartFinishes ==
    [][srv.part => \/ srv'.pending = srv.pending /\ srv'.part
                   \/ srv'.pending = None /\ down' = Append(down, srv.pending)
                   \/ spent'["loss"] > spent["loss"]]_vars

InSync ==
    /\ cli.model # None
    /\ cli.model.rows = srv.rows
    /\ cli.model.size = cli.size /\ srv.size = cli.size

\* When screen and terminal come to rest the client ends up with the last
\* screen, unless it asks for history meanwhile, whose answer may take the
\* place of the last update, or resizes more than once.
LastScreenArrives ==
    [](spent["request"] = 0 /\ spent["resize"] <= 1) => <>[]InSync

\* A client that waits for a keyframe gets one.
KeyframeArrives == cli.awaiting ~> ~cli.awaiting

=============================================================================
