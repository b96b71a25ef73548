------------------------ MODULE ScreenStream_proofs ------------------------
(***************************************************************************)
(* TLAPS proofs about ScreenStream: any number of rows, texts, sizes,       *)
(* outputs, resizes, requests and lost connections, with packets cut off    *)
(* anywhere.                                                                *)
(***************************************************************************)
EXTENDS ScreenStream, TLAPS

\* An update says what it should: all rows of its frame, or what differs from
\* its base, which is the frame before it.
Good(p) ==
    /\ p.frame \in FrameType
    /\ \/ p = Keyframe(p.frame)
       \/ /\ p.base \in FrameType
          /\ p = Patch(p.base, p.frame)
          /\ p.frame.seq = p.base.seq + 1
          /\ p.frame.size = p.base.size

\* The helper's update is the one after the last it has sent, and a patch is
\* based on that.
PendingOK(s) ==
    IsUpdate(s.pending) =>
        /\ Good(s.pending)
        /\ s.pending.frame.seq = Sent(s) + 1
        /\ s.pending.kind = "patch" => s.pending.base = s.delivered

HelperOK(s) ==
    /\ s \in HelperType
    /\ s.part => s.pending # None
    /\ PendingOK(s)

UpdatesDown == {down[i] : i \in {j \in DOMAIN down : IsUpdate(down[j])}}

\* The frames that are known beyond the helper's pending packet.
Known ==
    {f \in FrameType :
       \/ f = srv.delivered \/ f = cli.model
       \/ \E p \in UpdatesDown : f = p.frame \/ (p.kind = "patch" /\ f = p.base)}

\* No two of them have the same number, none is newer than the last one sent.
KnownInv ==
    /\ \A f \in Known : f.seq <= Sent(srv)
    /\ \A f, g \in Known : f.seq = g.seq => f = g

IInv ==
    /\ TypeOK
    /\ HelperOK(srv)
    /\ \A p \in UpdatesDown : Good(p)
    /\ KnownInv

-----------------------------------------------------------------------------
(* Packets *)

LEMMA FrameIsSome == None \notin FrameType
<1>1. \A f \in FrameType : f \in [seq : Nat, size : Sizes, rows : [Rows -> Texts]]
  BY SequenceAssumption DEF FrameType, Screen
<1>2. QED BY <1>1, FrameAssumption

LEMMA KeyframeFacts ==
    ASSUME NEW f \in FrameType
    PROVE  /\ Keyframe(f) \in UpdateType
           /\ Good(Keyframe(f))
           /\ Keyframe(f).frame = f /\ Keyframe(f).kind = "keyframe"
<1>1. f.rows \in ChangeType
  <2>1. f.rows \in [Rows -> Texts] BY DEF FrameType, Screen
  <2>2. Rows \in SUBSET Rows OBVIOUS
  <2>3. QED BY <2>1, <2>2 DEF ChangeType
<1>2. QED BY <1>1 DEF Keyframe, UpdateType, Good, IsUpdate

LEMMA PatchFacts ==
    ASSUME NEW b \in FrameType, NEW f \in FrameType,
           f.seq = b.seq + 1, f.size = b.size
    PROVE  /\ Patch(b, f) \in UpdateType
           /\ Good(Patch(b, f))
           /\ Patch(b, f).frame = f /\ Patch(b, f).base = b
           /\ Patch(b, f).kind = "patch"
<1>1. Patch(b, f).changes \in ChangeType
  <2>1. Changed(b, f) \in SUBSET Rows BY DEF Changed
  <2>2. Patch(b, f).changes \in [Changed(b, f) -> Texts]
    BY <2>1 DEF Patch, FrameType, Screen
  <2>3. QED BY <2>1, <2>2 DEF ChangeType
<1>2. QED BY <1>1 DEF Patch, UpdateType, Good, IsUpdate

\* What an acceptable update makes of the screen it is based on.
LEMMA AppliedIsFrame ==
    ASSUME NEW p, Good(p),
           p.kind = "patch" => cli.model = p.base
    PROVE  Applied(p) = p.frame
<1> DEFINE f == p.frame
<1>1. f \in FrameType BY DEF Good
<1>2. f = [seq |-> f.seq, size |-> f.size, rows |-> f.rows]
      /\ f.rows \in [Rows -> Texts]
  BY <1>1 DEF FrameType, Screen
<1>3. CASE p = Keyframe(f)
  <2>1. p.kind = "keyframe" /\ p.changes = f.rows
    BY <1>3 DEF Keyframe
  <2>2. QED BY <1>2, <2>1 DEF Applied
<1>4. CASE p.base \in FrameType /\ p = Patch(p.base, f)
  <2>1. /\ p.kind = "patch" /\ cli.model = p.base
        /\ p.changes = [r \in Changed(p.base, f) |-> f.rows[r]]
    BY <1>4 DEF Patch
  <2> DEFINE new == [r \in Rows |-> IF r \in DOMAIN p.changes
                                    THEN p.changes[r] ELSE cli.model.rows[r]]
  <2>2. Applied(p) = [seq |-> f.seq, size |-> f.size, rows |-> new]
    BY <2>1 DEF Applied
  <2>3. \A r \in Rows : new[r] = f.rows[r]
    BY <2>1 DEF Changed
  <2>4. new = f.rows BY <1>2, <2>3
  <2>5. QED BY <1>2, <2>2, <2>4
<1>5. QED BY <1>3, <1>4 DEF Good

-----------------------------------------------------------------------------
(* The helper's operators *)

LEMMA DiscardedOK ==
    ASSUME NEW s, HelperOK(s)
    PROVE  /\ HelperOK(Discarded(s))
           /\ Discarded(s).delivered = s.delivered
           /\ Discarded(s).control = s.control
           /\ s.part => Discarded(s) = s
<1>1. CASE Unsent(s)
  <2> DEFINE d == [s EXCEPT !.pending = None, !.part = FALSE]
  <2>1. d \in HelperType /\ d.pending = None /\ d.part = FALSE
        /\ d.delivered = s.delivered /\ d.control = s.control
    BY DEF HelperOK, HelperType
  <2>2. Discarded(s) = d /\ ~s.part BY <1>1 DEF Discarded, Unsent
  <2>3. ~IsUpdate(d.pending) BY <2>1 DEF IsUpdate
  <2> HIDE DEF d
  <2>4. QED BY <2>1, <2>2, <2>3 DEF HelperOK, PendingOK
<1>2. CASE ~Unsent(s)
  BY <1>2 DEF Discarded
<1>3. QED BY <1>1, <1>2

\* Setting the flags, the size or the screen leaves the packets alone.
LEMMA FlagsOK ==
    ASSUME NEW s, HelperOK(s),
           NEW t \in HelperType,
           t.pending = s.pending, t.delivered = s.delivered, t.part = s.part
    PROVE  HelperOK(t) /\ Sent(t) = Sent(s)
BY DEF HelperOK, PendingOK, Sent

LEMMA ResizedOK ==
    ASSUME NEW s, HelperOK(s), NEW z \in Sizes
    PROVE  /\ HelperOK(Resized(s, z))
           /\ Resized(s, z).delivered = s.delivered
           /\ s.part => Resized(s, z).pending = s.pending /\ Resized(s, z).part
<1>1. CASE z = s.size BY <1>1 DEF Resized
<1>2. CASE z # s.size
  <2> DEFINE d == Discarded(s)
             t == [d EXCEPT !.size = z, !.force = TRUE, !.changed = TRUE]
  <2>1. HelperOK(d) /\ d.delivered = s.delivered /\ (s.part => d = s)
    BY DiscardedOK
  <2> HIDE DEF d
  <2>2. /\ t \in HelperType /\ t.pending = d.pending
        /\ t.delivered = d.delivered /\ t.part = d.part
    BY <2>1 DEF HelperOK, HelperType
  <2>3. Resized(s, z) = t BY <1>2 DEF Resized, d
  <2> HIDE DEF t
  <2>4. HelperOK(t) BY <2>1, <2>2, FlagsOK
  <2>5. QED BY <2>1, <2>2, <2>3, <2>4
<1>3. QED BY <1>1, <1>2

LEMMA RefreshedOK ==
    ASSUME NEW s, HelperOK(s)
    PROVE  /\ HelperOK(Refreshed(s))
           /\ Refreshed(s).delivered = s.delivered
           /\ s.part => Refreshed(s).pending = s.pending /\ Refreshed(s).part
<1> DEFINE d == Discarded(s)
           t == [d EXCEPT !.force = TRUE, !.changed = TRUE]
<1>1. HelperOK(d) /\ d.delivered = s.delivered /\ (s.part => d = s)
  BY DiscardedOK
<1>2. Refreshed(s) = t BY DEF Refreshed
<1> HIDE DEF d
<1>3. /\ t \in HelperType /\ t.pending = d.pending
      /\ t.delivered = d.delivered /\ t.part = d.part
  BY <1>1 DEF HelperOK, HelperType
<1> HIDE DEF t
<1>4. HelperOK(t) BY <1>1, <1>3, FlagsOK
<1>5. QED BY <1>1, <1>2, <1>3, <1>4

LEMMA QueuedOK ==
    ASSUME NEW s, HelperOK(s)
    PROVE  /\ HelperOK(Queued(s))
           /\ Queued(s).delivered = s.delivered
           /\ s.part => Queued(s).pending = s.pending /\ Queued(s).part
<1>1. CASE s.control >= ControlLimit BY <1>1 DEF Queued
<1>2. CASE ~(s.control >= ControlLimit)
  <2> DEFINE d == Discarded(s)
             n == s.control + 1
             t == [d EXCEPT !.control = n]
  <2>1. /\ HelperOK(d) /\ d.delivered = s.delivered
        /\ d.control = s.control /\ (s.part => d = s)
    BY DiscardedOK
  <2>2. s.control \in 0..ControlLimit BY DEF HelperOK, HelperType
  <2>3. n \in 0..ControlLimit BY <1>2, <2>2, ControlAssumption
  <2>4. Queued(s) = t BY <1>2, <2>1 DEF Queued
  <2> HIDE DEF d, n
  <2>5. /\ t \in HelperType /\ t.pending = d.pending
        /\ t.delivered = d.delivered /\ t.part = d.part
    BY <2>1, <2>3 DEF HelperOK, HelperType
  <2> HIDE DEF t
  <2>6. HelperOK(t) BY <2>1, <2>5, FlagsOK
  <2>7. QED BY <2>1, <2>4, <2>5, <2>6
<1>3. QED BY <1>1, <1>2

LEMMA NextFrame ==
    ASSUME NEW s, HelperOK(s), Sent(s) < MaxFrames
    PROVE  /\ Frame(NextSeq(s.delivered), s.size, s.rows) \in FrameType
           /\ NextSeq(s.delivered) = Sent(s) + 1
           /\ s.delivered # None => s.delivered \in FrameType
<1>1. /\ s.delivered # None => s.delivered \in FrameType
      /\ s.size \in Sizes /\ s.rows \in Screen
  BY DEF HelperOK, HelperType
<1>2. NextSeq(s.delivered) = Sent(s) + 1 /\ Sent(s) + 1 \in 1..MaxFrames
  <2>1. CASE s.delivered = None
    BY <2>1, SequenceAssumption DEF NextSeq, Sent
  <2>2. CASE s.delivered # None
    <3> DEFINE n == s.delivered.seq
    <3>1. n \in 1..MaxFrames /\ n < MaxFrames
      BY <1>1, <2>2 DEF Sent, FrameType
    <3>2. NextSeq(s.delivered) = (n + 1) % SeqMod /\ Sent(s) = n
      BY <2>2 DEF NextSeq, Sent
    <3> HIDE DEF n
    <3>3. (n + 1) % SeqMod = n + 1 BY <3>1, SequenceAssumption
    <3>4. QED BY <3>1, <3>2, <3>3, SequenceAssumption
  <2>3. QED BY <2>1, <2>2
<1>3. QED BY <1>1, <1>2 DEF Frame, FrameType

LEMMA ScheduledOK ==
    ASSUME NEW s, HelperOK(s), MaySchedule(s), Sent(s) < MaxFrames
    PROVE  HelperOK(Scheduled(s)) /\ Scheduled(s).delivered = s.delivered
<1> DEFINE f == Frame(NextSeq(s.delivered), s.size, s.rows)
           p == IF NeedsKeyframe(s) THEN Keyframe(f) ELSE Patch(s.delivered, f)
           quiet == [s EXCEPT !.changed = FALSE, !.pending = None]
           next == [s EXCEPT !.changed = FALSE, !.force = FALSE, !.pending = p]
<1>1. s \in HelperType /\ s.part = FALSE
  BY DEF HelperOK, HelperType, MaySchedule, Unsent
<1>2. /\ f \in FrameType /\ f.seq = Sent(s) + 1 /\ f.size = s.size
      /\ s.delivered # None => s.delivered \in FrameType
  BY NextFrame DEF Frame
<1>3. Scheduled(s) = quiet \/ Scheduled(s) = next
  BY DEF Scheduled
<1>4. Good(p) /\ p \in UpdateType /\ p.frame = f
      /\ (p.kind = "patch" => p.base = s.delivered)
  <2> HIDE DEF f
  <2>1. CASE NeedsKeyframe(s)
    <3>1. p = Keyframe(f) BY <2>1
    <3>2. QED BY <3>1, <1>2, KeyframeFacts
  <2>2. CASE ~NeedsKeyframe(s)
    <3>1. s.delivered \in FrameType /\ s.delivered.size = s.size
      BY <1>2, <2>2 DEF NeedsKeyframe
    <3>2. f.seq = s.delivered.seq + 1 /\ f.size = s.delivered.size
      BY <1>2, <2>2, <3>1 DEF Sent, NeedsKeyframe
    <3>3. p = Patch(s.delivered, f) BY <2>2
    <3>4. QED BY <3>1, <3>2, <3>3, <1>2, PatchFacts
  <2>3. QED BY <2>1, <2>2
<1> HIDE DEF f, p
<1>5. /\ quiet \in HelperType /\ quiet.pending = None /\ quiet.part = FALSE
      /\ quiet.delivered = s.delivered
  BY <1>1 DEF HelperType
<1>6. /\ next \in HelperType /\ next.pending = p /\ next.part = FALSE
      /\ next.delivered = s.delivered
  BY <1>1, <1>4 DEF HelperType, PacketType
<1> HIDE DEF quiet, next
<1>7. HelperOK(quiet)
  BY <1>5 DEF HelperOK, PendingOK, IsUpdate
<1>8. HelperOK(next)
  BY <1>2, <1>4, <1>6 DEF HelperOK, PendingOK, Sent
<1>9. QED BY <1>3, <1>5, <1>6, <1>7, <1>8

LEMMA ActivatedOK ==
    ASSUME NEW s, HelperOK(s)
    PROVE  /\ HelperOK(Activated(s))
           /\ Activated(s).delivered = s.delivered
           /\ s.part => Activated(s).pending = s.pending /\ Activated(s).part
<1>1. CASE s.pending = None /\ s.control > 0
  <2> DEFINE n == s.control - 1
             t == [s EXCEPT !.at = "read", !.pending = History, !.control = n]
  <2>1. s.control \in 0..ControlLimit /\ s.part = FALSE
    BY <1>1 DEF HelperOK, HelperType
  <2>2. n \in 0..ControlLimit BY <1>1, <2>1, ControlAssumption
  <2>3. Activated(s) = t BY <1>1 DEF Activated
  <2>4. History \in PacketType /\ ~IsUpdate(History)
    BY DEF PacketType, History, IsUpdate
  <2> HIDE DEF n
  <2>5. /\ t \in HelperType /\ t.pending = History /\ t.part = FALSE
        /\ t.delivered = s.delivered
    BY <2>1, <2>2, <2>4 DEF HelperOK, HelperType
  <2> HIDE DEF t
  <2>6. QED BY <2>1, <2>3, <2>4, <2>5 DEF HelperOK, PendingOK
<1>2. CASE ~(s.pending = None /\ s.control > 0)
  <2> DEFINE t == [s EXCEPT !.at = "read"]
  <2>1. Activated(s) = t BY <1>2 DEF Activated
  <2>2. /\ t \in HelperType /\ t.pending = s.pending
        /\ t.delivered = s.delivered /\ t.part = s.part
    BY DEF HelperOK, HelperType
  <2> HIDE DEF t
  <2>3. QED BY <2>1, <2>2, FlagsOK
<1>3. QED BY <1>1, <1>2

-----------------------------------------------------------------------------
(* The known frames *)

LEMMA TypesOK ==
    ASSUME TypeOK, NEW p \in UpdatesDown
    PROVE  down \in Seq(PacketType) /\ p \in PacketType /\ IsUpdate(p)
BY DEF TypeOK, UpdatesDown

\* A step after which fewer frames are known.
LEMMA KnownShrinks ==
    ASSUME KnownInv, Known' \subseteq Known, Sent(srv)' = Sent(srv)
    PROVE  KnownInv'
BY DEF KnownInv

LEMMA KnownSame ==
    ASSUME KnownInv, srv'.delivered = srv.delivered, UNCHANGED <<cli, down>>
    PROVE  KnownInv'
<1>1. Known' = Known BY DEF Known, UpdatesDown, IsUpdate
<1>2. Sent(srv)' = Sent(srv) BY DEF Sent
<1>3. QED BY <1>1, <1>2, KnownShrinks

\* A step of the helper that sends nothing.
LEMMA HelperStep ==
    ASSUME IInv, HelperOK(srv'), srv'.delivered = srv.delivered,
           up' \in Seq(MessageType), spent' \in [Events -> Nat],
           UNCHANGED <<cli, down>>
    PROVE  IInv'
<1>1. TypeOK' BY DEF IInv, TypeOK, HelperOK
<1>2. HelperOK(srv)' BY DEF HelperOK, PendingOK, IsUpdate, Good, Sent
<1>3. UpdatesDown' = UpdatesDown BY DEF UpdatesDown, IsUpdate
<1>4. KnownInv' BY KnownSame DEF IInv
<1>5. (\A p \in UpdatesDown : Good(p))'
  BY <1>3 DEF IInv, Good
<1>6. QED BY <1>1, <1>2, <1>4, <1>5 DEF IInv

LEMMA SpendOK ==
    ASSUME TypeOK, NEW e \in Events, NEW limit, Spend(e, limit)
    PROVE  spent' \in [Events -> Nat] /\ spent'[e] = spent[e] + 1
BY DEF TypeOK, Spend

-----------------------------------------------------------------------------
(* Every step preserves the invariant *)

LEMMA HandleMessageInv ==
    ASSUME IInv, HandleMessage
    PROVE  IInv' /\ (srv.part => srv'.pending = srv.pending /\ srv'.part)
<1> DEFINE m == Head(up)
<1>1. m \in MessageType /\ Tail(up) \in Seq(MessageType)
  BY DEF IInv, TypeOK, HandleMessage
<1>2. HelperOK(srv) BY DEF IInv
<1> HIDE DEF m
<1>3. /\ HelperOK(srv') /\ srv'.delivered = srv.delivered
      /\ srv.part => srv'.pending = srv.pending /\ srv'.part
  <2>1. CASE m.kind = "resize"
    <3>1. m.size \in Sizes BY <1>1, <2>1 DEF MessageType
    <3>2. srv' = Resized(srv, m.size) BY <2>1 DEF HandleMessage, m
    <3>3. QED BY <1>2, <3>1, <3>2, ResizedOK
  <2>2. CASE m.kind = "keyframe"
    <3>1. srv' = Refreshed(srv) BY <2>2 DEF HandleMessage, m
    <3>2. QED BY <1>2, <3>1, RefreshedOK
  <2>3. CASE m.kind = "history"
    <3>1. srv' = Queued(srv) BY <2>3 DEF HandleMessage, m
    <3>2. QED BY <1>2, <3>1, QueuedOK
  <2>4. QED BY <1>1, <2>1, <2>2, <2>3 DEF MessageType
<1>4. /\ up' \in Seq(MessageType) /\ spent' \in [Events -> Nat]
      /\ UNCHANGED <<cli, down>>
  BY <1>1 DEF HandleMessage, IInv, TypeOK, m
<1>5. QED BY <1>3, <1>4, HelperStep

LEMMA TakeOutputInv ==
    ASSUME IInv, TakeOutput
    PROVE  IInv' /\ (srv.part => srv'.pending = srv.pending /\ srv'.part)
<1>1. HelperOK(srv) /\ srv \in HelperType BY DEF IInv, HelperOK
<1>2. /\ srv' \in HelperType /\ srv'.pending = srv.pending
      /\ srv'.delivered = srv.delivered /\ srv'.part = srv.part
      /\ spent' \in [Events -> Nat]
  <2>1. CASE srv' = [srv EXCEPT !.at = "write"] /\ UNCHANGED spent
    BY <1>1, <2>1 DEF HelperType, IInv, TypeOK
  <2>2. ASSUME NEW t \in Screen, Spend("output", MaxOutputs),
               srv' = [srv EXCEPT !.at = "write", !.rows = t, !.changed = TRUE]
        PROVE  /\ srv' \in HelperType /\ srv'.pending = srv.pending
               /\ srv'.delivered = srv.delivered /\ srv'.part = srv.part
               /\ spent' \in [Events -> Nat]
    <3>1. spent' \in [Events -> Nat] BY <2>2, SpendOK DEF IInv, Events
    <3>2. QED BY <1>1, <2>2, <3>1 DEF HelperType
  <2>3. QED BY <2>1, <2>2 DEF TakeOutput
<1>3. HelperOK(srv') BY <1>1, <1>2, FlagsOK
<1>4. up' \in Seq(MessageType) /\ UNCHANGED <<cli, down>>
  BY DEF TakeOutput, IInv, TypeOK
<1>5. QED BY <1>2, <1>3, <1>4, HelperStep

LEMMA WriteSomeInv ==
    ASSUME IInv, WriteSome
    PROVE  IInv' /\ (srv.part => srv'.pending = srv.pending /\ srv'.part)
<1>1. HelperOK(srv) /\ srv \in HelperType BY DEF IInv, HelperOK
<1>2. /\ srv' \in HelperType /\ srv'.pending = srv.pending
      /\ srv'.delivered = srv.delivered
      /\ srv'.part = srv.part \/ (srv'.part = TRUE /\ srv.pending # None)
  BY <1>1 DEF WriteSome, HelperType
<1>3. HelperOK(srv') BY <1>1, <1>2 DEF HelperOK, PendingOK, Sent
<1>4. /\ up' \in Seq(MessageType) /\ spent' \in [Events -> Nat]
      /\ UNCHANGED <<cli, down>>
  BY DEF WriteSome, IInv, TypeOK
<1>5. QED BY <1>2, <1>3, <1>4, HelperStep

LEMMA ScheduleInv ==
    ASSUME IInv, Schedule
    PROVE  IInv' /\ srv.part = FALSE
<1>1. /\ HelperOK(srv) /\ MaySchedule(srv) /\ Sent(srv) < MaxFrames
      /\ srv \in HelperType
  BY DEF IInv, Schedule, HelperOK
<1>2. /\ HelperOK(Scheduled(srv))
      /\ Scheduled(srv).delivered = srv.delivered
  BY <1>1, ScheduledOK
<1>3. /\ HelperOK(Activated(Scheduled(srv)))
      /\ Activated(Scheduled(srv)).delivered = srv.delivered
  BY <1>2, ActivatedOK
<1>4. /\ up' \in Seq(MessageType) /\ spent' \in [Events -> Nat]
      /\ UNCHANGED <<cli, down>>
  BY DEF Schedule, IInv, TypeOK
<1>5. srv' = Activated(Scheduled(srv)) BY DEF Schedule
<1>6. srv.part = FALSE
  BY <1>1 DEF MaySchedule, Unsent, HelperOK, HelperType
<1>7. QED BY <1>3, <1>4, <1>5, <1>6, HelperStep

LEMMA PassInv ==
    ASSUME IInv, Pass
    PROVE  IInv' /\ (srv.part => srv'.pending = srv.pending /\ srv'.part)
<1>1. /\ HelperOK(Activated(srv))
      /\ Activated(srv).delivered = srv.delivered
      /\ srv.part => Activated(srv).pending = srv.pending /\ Activated(srv).part
  BY ActivatedOK DEF IInv
<1>2. /\ up' \in Seq(MessageType) /\ spent' \in [Events -> Nat]
      /\ UNCHANGED <<cli, down>> /\ srv' = Activated(srv)
  BY DEF Pass, IInv, TypeOK
<1>3. QED BY <1>1, <1>2, HelperStep

LEMMA WriteAllInv ==
    ASSUME IInv, WriteAll
    PROVE  IInv' /\ srv'.pending = None /\ down' = Append(down, srv.pending)
<1> DEFINE p == srv.pending
           d == IF IsUpdate(p) THEN p.frame ELSE srv.delivered
           t == [srv EXCEPT !.at = "frame", !.pending = None, !.part = FALSE,
                            !.delivered = d]
<1>1. /\ HelperOK(srv) /\ srv \in HelperType /\ p # None /\ p \in PacketType
      /\ down \in Seq(PacketType) /\ down' = Append(down, p)
      /\ UNCHANGED <<cli, up, spent>>
  BY DEF IInv, TypeOK, WriteAll, HelperOK, HelperType
<1>2. srv' = t BY DEF WriteAll
<1>3. IsUpdate(p) => /\ Good(p) /\ p.frame \in FrameType
                     /\ p.frame.seq = Sent(srv) + 1
                     /\ p.kind = "patch" => p.base = srv.delivered
  BY <1>1 DEF HelperOK, PendingOK, Good
<1>4. d \in FrameType \cup {None} BY <1>1, <1>3 DEF HelperType
<1> HIDE DEF d, p
<1>5. /\ t \in HelperType /\ t.pending = None /\ t.part = FALSE
      /\ t.delivered = d
  BY <1>1, <1>4 DEF HelperType
<1> HIDE DEF t
<1>6. HelperOK(srv')
  BY <1>2, <1>5 DEF HelperOK, PendingOK, IsUpdate
<1>7. down' \in Seq(PacketType) BY <1>1
<1>8. TypeOK' BY <1>1, <1>2, <1>5, <1>7 DEF IInv, TypeOK
<1>9. /\ UpdatesDown' \subseteq UpdatesDown \cup {p}
      /\ ~IsUpdate(p) => UpdatesDown' \subseteq UpdatesDown
  BY <1>1 DEF UpdatesDown, IsUpdate
<1>10. \A u \in UpdatesDown' : IsUpdate(u)
  BY DEF UpdatesDown, IsUpdate
<1>11. (\A u \in UpdatesDown : Good(u))'
  <2>1. \A u \in UpdatesDown : Good(u) BY DEF IInv
  <2>2. \A u \in UpdatesDown' : Good(u) BY <1>3, <1>9, <2>1
  <2>3. QED BY <2>2 DEF Good
<1>12. KnownInv'
  <2>1. CASE ~IsUpdate(p)
    <3>1. d = srv.delivered BY <2>1 DEF d
    <3>2. Known' \subseteq Known BY <1>1, <1>2, <1>5, <1>9, <2>1, <3>1 DEF Known
    <3>3. Sent(srv)' = Sent(srv) BY <1>2, <1>5, <3>1 DEF Sent
    <3>4. QED BY <3>2, <3>3, KnownShrinks DEF IInv
  <2>2. CASE IsUpdate(p)
    <3>1. d = p.frame /\ d \in FrameType BY <1>3, <2>2 DEF d
    <3>2. Known' \subseteq Known \cup {d}
      BY <1>1, <1>2, <1>3, <1>5, <1>9, <2>2, <3>1 DEF Known
    <3>3. Sent(srv) \in Nat
      BY <1>1, SequenceAssumption DEF Sent, HelperType, FrameType
    <3>4. d # None => Sent(srv)' = Sent(srv) + 1
      BY <1>2, <1>3, <1>5, <2>2, <3>1 DEF Sent
    <3>5. \A g \in Known : g.seq \in Nat /\ g.seq <= Sent(srv)
      BY SequenceAssumption DEF IInv, KnownInv, Known, FrameType
    <3>6. d.seq = Sent(srv) + 1 BY <1>3, <2>2, <3>1
    <3>7. d # None BY <3>1, FrameIsSome
    <3>8. QED BY <3>2, <3>3, <3>4, <3>5, <3>6, <3>7 DEF IInv, KnownInv
  <2>3. QED BY <2>1, <2>2
<1>13. HelperOK(srv)' BY <1>6 DEF HelperOK, PendingOK, IsUpdate, Good, Sent
<1>14. QED BY <1>1, <1>2, <1>5, <1>8, <1>11, <1>12, <1>13 DEF IInv, p

\* The head of the connection, and what is left behind it.
LEMMA HeadTail ==
    ASSUME IInv, down # <<>>, down' = Tail(down)
    PROVE  /\ down' \in Seq(PacketType)
           /\ UpdatesDown' \subseteq UpdatesDown
           /\ IsUpdate(Head(down)) => Head(down) \in UpdatesDown
           /\ (\A u \in UpdatesDown : Good(u))'
<1>1. down \in Seq(PacketType) BY DEF IInv, TypeOK
<1>2. down' \in Seq(PacketType) BY <1>1
<1>3. UpdatesDown' \subseteq UpdatesDown
  <2> SUFFICES ASSUME NEW u \in UpdatesDown' PROVE u \in UpdatesDown
    OBVIOUS
  <2>1. PICK j \in DOMAIN down' : u = down'[j] /\ IsUpdate(down'[j])
    BY DEF UpdatesDown, IsUpdate
  <2>2. j + 1 \in DOMAIN down /\ down[j + 1] = down'[j] BY <1>1, <2>1
  <2>3. QED BY <2>1, <2>2 DEF UpdatesDown
<1>4. IsUpdate(Head(down)) => Head(down) \in UpdatesDown
  <2>1. 1 \in DOMAIN down /\ down[1] = Head(down) BY <1>1
  <2>2. QED BY <2>1 DEF UpdatesDown
<1>5. \A u \in UpdatesDown' : Good(u) BY <1>3 DEF IInv
<1>6. (\A u \in UpdatesDown : Good(u))' BY <1>5 DEF Good
<1>7. QED BY <1>2, <1>3, <1>4, <1>6

\* The client takes a patch only on the screen the patch was made for: there
\* is only one frame with that number.
LEMMA AcceptedFits ==
    ASSUME IInv, NEW p \in UpdatesDown, Acceptable(p)
    PROVE  p.kind = "patch" => cli.model = p.base
<1> SUFFICES ASSUME p.kind = "patch" PROVE cli.model = p.base
  OBVIOUS
<1>1. Good(p) /\ p \in UpdatesDown BY DEF IInv
<1>2. /\ p.base \in FrameType /\ p.frame \in FrameType
      /\ p.frame.seq = p.base.seq + 1
  BY <1>1 DEF Good, Keyframe
<1>3. cli.model \in FrameType
  BY DEF IInv, TypeOK, ClientType, Acceptable
<1>4. p.frame.seq = (cli.model.seq + 1) % SeqMod BY DEF Acceptable
<1> DEFINE n == cli.model.seq
           b == p.base.seq
<1>5. n \in 1..MaxFrames /\ b \in 1..MaxFrames /\ b + 1 = (n + 1) % SeqMod
      /\ b + 1 \in 1..MaxFrames
  BY <1>2, <1>3, <1>4 DEF FrameType
<1> HIDE DEF n, b
<1>6. n = b
  <2>1. CASE n + 1 < SeqMod
    <3>1. (n + 1) % SeqMod = n + 1 BY <1>5, <2>1, SequenceAssumption
    <3>2. QED BY <1>5, <3>1, SequenceAssumption
  <2>2. CASE n + 1 = SeqMod
    <3>1. (n + 1) % SeqMod = 0 BY <1>5, <2>2, SequenceAssumption
    <3>2. QED BY <1>5, <3>1, SequenceAssumption
  <2>3. QED BY <1>5, <2>1, <2>2, SequenceAssumption
<1>7. cli.model \in Known /\ p.base \in Known
  BY <1>1, <1>2, <1>3 DEF Known
<1>8. QED BY <1>6, <1>7 DEF IInv, KnownInv, n, b

LEMMA ReceiveInv ==
    ASSUME IInv, Receive
    PROVE  /\ IInv'
           /\ cli'.model # cli.model => cli'.model = Head(down).frame
           /\ UNCHANGED srv
<1> DEFINE p == Head(down)
<1>1. /\ down # <<>> /\ down' = Tail(down) /\ UNCHANGED <<srv, spent>>
      /\ cli \in ClientType /\ up \in Seq(MessageType)
  BY DEF Receive, IInv, TypeOK
<1>2. /\ down' \in Seq(PacketType)
      /\ UpdatesDown' \subseteq UpdatesDown
      /\ IsUpdate(p) => p \in UpdatesDown
      /\ (\A u \in UpdatesDown : Good(u))'
  BY <1>1, HeadTail
<1>3. /\ cli' \in ClientType /\ up' \in Seq(MessageType)
      /\ \/ cli'.model = cli.model
         \/ IsUpdate(p) /\ cli'.model = p.frame
  <2>1. CASE IsUpdate(p) /\ Acceptable(p)
    <3>1. p \in UpdatesDown /\ Good(p) BY <1>2, <2>1 DEF IInv
    <3>2. Applied(p) = p.frame /\ p.frame \in FrameType
      BY <2>1, <3>1, AcceptedFits, AppliedIsFrame DEF Good
    <3> DEFINE f == p.frame
               a == IF p.kind = "keyframe" THEN FALSE ELSE cli.awaiting
    <3>3. a \in BOOLEAN BY <1>1 DEF ClientType
    <3>4. /\ cli' = [cli EXCEPT !.model = f, !.painted = TRUE, !.awaiting = a]
          /\ UNCHANGED up
      BY <2>1, <3>2 DEF Receive
    <3> HIDE DEF a, f, p
    <3>5. cli' \in ClientType /\ cli'.model = f
      BY <1>1, <3>2, <3>3, <3>4 DEF ClientType, f
    <3>6. QED BY <1>1, <2>1, <3>4, <3>5 DEF f
  <2>2. CASE IsUpdate(p) /\ ~Acceptable(p)
    <3>1. CASE cli.awaiting
      BY <1>1, <2>2, <3>1 DEF Receive
    <3>2. CASE ~cli.awaiting
      <4>1. /\ cli' = [cli EXCEPT !.awaiting = TRUE]
            /\ up' = Append(up, Message("keyframe", None))
        BY <2>2, <3>2 DEF Receive, Send
      <4>2. Message("keyframe", None) \in MessageType
        BY DEF Message, MessageType
      <4>3. up' \in Seq(MessageType) BY <1>1, <4>1, <4>2
      <4>4. cli' \in ClientType /\ cli'.model = cli.model
        BY <1>1, <4>1 DEF ClientType
      <4>5. QED BY <4>3, <4>4
    <3>3. QED BY <3>1, <3>2
  <2>3. CASE ~IsUpdate(p)
    BY <1>1, <2>3 DEF Receive
  <2>4. QED BY <2>1, <2>2, <2>3
<1> HIDE DEF p
<1>4. TypeOK' BY <1>1, <1>2, <1>3 DEF IInv, TypeOK
<1>5. HelperOK(srv)'
  BY <1>1 DEF IInv, HelperOK, PendingOK, IsUpdate, Good, Sent
<1>6. KnownInv'
  <2>1. Known' \subseteq Known BY <1>1, <1>2, <1>3 DEF Known
  <2>2. Sent(srv)' = Sent(srv) BY <1>1 DEF Sent
  <2>3. QED BY <2>1, <2>2, KnownShrinks DEF IInv
<1>7. QED BY <1>1, <1>2, <1>3, <1>4, <1>5, <1>6 DEF IInv, p

\* A step of the client that leaves helper, model and packets alone.
LEMMA ClientStep ==
    ASSUME IInv, cli' \in ClientType, cli'.model = cli.model,
           up' \in Seq(MessageType), spent' \in [Events -> Nat],
           UNCHANGED <<srv, down>>
    PROVE  IInv'
<1>1. TypeOK' BY DEF IInv, TypeOK
<1>2. HelperOK(srv)' BY DEF IInv, HelperOK, PendingOK, IsUpdate, Good, Sent
<1>3. UpdatesDown' = UpdatesDown BY DEF UpdatesDown, IsUpdate
<1>4. (\A u \in UpdatesDown : Good(u))' BY <1>3 DEF IInv, Good
<1>5. KnownInv'
  <2>1. Known' = Known BY <1>3 DEF Known
  <2>2. Sent(srv)' = Sent(srv) BY DEF Sent
  <2>3. QED BY <2>1, <2>2, KnownShrinks DEF IInv
<1>6. QED BY <1>1, <1>2, <1>4, <1>5 DEF IInv

LEMMA ResizeInv ==
    ASSUME IInv, NEW z \in Sizes, Resize(z)
    PROVE  IInv' /\ cli'.model = cli.model /\ UNCHANGED srv
<1>1. spent' \in [Events -> Nat]
  BY SpendOK DEF IInv, Resize, Events
<1>2. cli \in ClientType /\ up \in Seq(MessageType) BY DEF IInv, TypeOK
<1>3. Message("resize", z) \in MessageType BY DEF Message, MessageType
<1>4. up' \in Seq(MessageType) BY <1>2, <1>3 DEF Resize, Send
<1>5. cli' \in ClientType /\ cli'.model = cli.model
  BY <1>2 DEF Resize, ClientType
<1>6. QED BY <1>1, <1>4, <1>5, ClientStep DEF Resize

LEMMA AskHistoryInv ==
    ASSUME IInv, AskHistory
    PROVE  IInv' /\ UNCHANGED <<cli, srv>>
<1>1. spent' \in [Events -> Nat]
  BY SpendOK DEF IInv, AskHistory, Events
<1>2. cli \in ClientType /\ up \in Seq(MessageType) BY DEF IInv, TypeOK
<1>3. Message("history", None) \in MessageType BY DEF Message, MessageType
<1>4. up' \in Seq(MessageType) BY <1>2, <1>3 DEF AskHistory, Send
<1>5. QED BY <1>1, <1>2, <1>4, ClientStep DEF AskHistory

LEMMA AttachedOK ==
    ASSUME NEW z \in Sizes
    PROVE  /\ HelperOK(Attached(z)) /\ Attached(z).delivered = None
           /\ Attached(z).part = FALSE
<1>1. [r \in Rows |-> Blank] \in Screen BY BlankAssumption DEF Screen
<1>2. 0 \in 0..ControlLimit BY ControlAssumption
<1>3. Attached(z) \in HelperType BY <1>1, <1>2 DEF Attached, HelperType
<1>4. QED BY <1>3 DEF Attached, HelperOK, PendingOK, IsUpdate

LEMMA FreshConnection ==
    ASSUME HelperOK(srv), srv.delivered = None, cli.model = None,
           down = <<>>, TypeOK
    PROVE  IInv
<1>1. UpdatesDown = {} BY DEF UpdatesDown
<1>2. Known = {} BY <1>1, FrameIsSome DEF Known
<1>3. QED BY <1>1, <1>2 DEF IInv, KnownInv

LEMMA ReconnectInv ==
    ASSUME IInv, Reconnect
    PROVE  /\ IInv' /\ cli'.model = None
           /\ spent'["loss"] > spent["loss"]
<1>1. /\ spent' \in [Events -> Nat] /\ spent \in [Events -> Nat]
      /\ spent'["loss"] = spent["loss"] + 1
  BY SpendOK DEF IInv, TypeOK, Reconnect, Events
<1>2. cli \in ClientType /\ cli.size \in Sizes
  BY DEF IInv, TypeOK, ClientType
<1>3. /\ HelperOK(srv') /\ srv'.delivered = None
  BY <1>2, AttachedOK DEF Reconnect
<1>4. cli' \in ClientType /\ cli'.model = None
  BY <1>2 DEF Reconnect, ClientType, FreshModel
<1>5. TypeOK'
  BY <1>1, <1>3, <1>4 DEF Reconnect, TypeOK, HelperOK
<1>6. HelperOK(srv)' BY <1>3 DEF HelperOK, PendingOK, IsUpdate, Good, Sent
<1>7. down' = <<>> BY DEF Reconnect
<1>8. UpdatesDown' = {} BY <1>7 DEF UpdatesDown
<1>9. Known' = {} BY <1>3, <1>4, <1>8, FrameIsSome DEF Known
<1>10. IInv' BY <1>5, <1>6, <1>8, <1>9 DEF IInv, KnownInv
<1>11. spent'["loss"] > spent["loss"] BY <1>1 DEF Events
<1>12. QED BY <1>4, <1>10, <1>11

LEMMA InitInv == Init => IInv
<1> SUFFICES ASSUME Init PROVE IInv
  OBVIOUS
<1>1. HelperOK(srv) /\ srv.delivered = None
  BY AttachedOK, SizeAssumption DEF Init
<1>2. TypeOK
  BY <1>1, SizeAssumption DEF Init, TypeOK, HelperOK, ClientType
<1>3. QED BY <1>1, <1>2, FreshConnection DEF Init

\* The two action properties, as formulas of one step.
FaithfulStep == cli'.model # cli.model /\ cli'.model # None =>
                  cli'.model = Head(down).frame
PartStep == srv.part =>
    \/ srv'.pending = srv.pending /\ srv'.part
    \/ srv'.pending = None /\ down' = Append(down, srv.pending)
    \/ spent'["loss"] > spent["loss"]

LEMMA StepInv == IInv /\ [Next]_vars => IInv' /\ FaithfulStep /\ PartStep
<1> SUFFICES ASSUME IInv, [Next]_vars
             PROVE  IInv' /\ FaithfulStep /\ PartStep
  OBVIOUS
<1>1. CASE HandleMessage
  BY <1>1, HandleMessageInv DEF HandleMessage, FaithfulStep, PartStep
<1>2. CASE TakeOutput
  BY <1>2, TakeOutputInv DEF TakeOutput, FaithfulStep, PartStep
<1>3. CASE WriteSome
  BY <1>3, WriteSomeInv DEF WriteSome, FaithfulStep, PartStep
<1>4. CASE WriteAll
  BY <1>4, WriteAllInv DEF WriteAll, FaithfulStep, PartStep
<1>5. CASE Schedule
  BY <1>5, ScheduleInv DEF Schedule, FaithfulStep, PartStep
<1>6. CASE Pass
  BY <1>6, PassInv DEF Pass, FaithfulStep, PartStep
<1>7. CASE Receive
  BY <1>7, ReceiveInv DEF FaithfulStep, PartStep
<1>8. CASE AskHistory
  BY <1>8, AskHistoryInv DEF FaithfulStep, PartStep
<1>9. CASE Reconnect
  BY <1>9, ReconnectInv DEF FaithfulStep, PartStep
<1>10. CASE \E z \in Sizes : Resize(z)
  BY <1>10, ResizeInv DEF FaithfulStep, PartStep
<1>11. CASE UNCHANGED vars
  <2>1. UNCHANGED <<srv, cli, up, down, spent>> BY <1>11 DEF vars
  <2>2. IInv'
    BY <2>1, ClientStep DEF IInv, TypeOK
  <2>3. QED BY <2>1, <2>2 DEF FaithfulStep, PartStep
<1>12. QED
  BY <1>1, <1>2, <1>3, <1>4, <1>5, <1>6, <1>7, <1>8, <1>9, <1>10, <1>11
  DEF Next, Helper

-----------------------------------------------------------------------------
(* Theorems *)

\* Helper, client and connection are well typed, whatever is lost or cut off:
\* no queue of answers grows beyond its limit and no number leaves its range.
THEOREM TypeCorrect == Spec => []TypeOK
<1>1. IInv => TypeOK BY DEF IInv
<1>2. QED BY InitInv, StepInv, <1>1, PTL DEF Spec

\* The client never shows a screen that the helper did not make: what it
\* applies to its own screen gives exactly the frame the update was made from.
THEOREM ShowsFrames == Spec => Faithful
<1>1. IInv /\ [Next]_vars => [FaithfulStep]_vars
  BY StepInv
<1>2. QED BY InitInv, StepInv, <1>1, PTL DEF Spec, Faithful, FaithfulStep

\* A packet that was begun is finished before another, unless the connection
\* is lost.
THEOREM FramingHolds == Spec => PartFinishes
<1>1. IInv /\ [Next]_vars => [PartStep]_vars
  BY StepInv
<1>2. QED BY InitInv, StepInv, <1>1, PTL DEF Spec, PartFinishes, PartStep

=============================================================================
