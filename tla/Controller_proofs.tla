-------------------------- MODULE Controller_proofs --------------------------
(***************************************************************************)
(* TLAPS proofs about what the controller process keeps: the background    *)
(* index its UI thread reads (BackgroundIndex) and the workspace of two    *)
(* panes its handlers rebuild (WorkspaceLayout).  The two share no state;   *)
(* their definitions have names of their own so that one module holds both. *)
(*                                                                         *)
(* The index: any number of files, requests, transient read failures and   *)
(* removals of the whole directory.  The workspace: any agents, any sizes   *)
(* of the window, any profiles, any number of events and of failing calls.  *)
(***************************************************************************)
EXTENDS BackgroundIndex, WorkspaceLayout, TLAPS

(***************************************************************************)
(* The background index.                                                   *)
(***************************************************************************)

\* A deleted session is gone from the disk, and whatever still lists it --
\* the scanner's cache, the published generation, a pinned view -- is covered
\* by a tombstone: a tombstone is dropped only with the last of them.
TombstoneInv ==
    /\ \A f \in reported \cup ui.file : disk[f] = "removed"
    /\ reported \cap (entries \cup pub.sessions) \subseteq pub.tombstones
    /\ ui.view.pinned =>
         reported \cap ui.view.sessions \subseteq ui.view.tombstones
    /\ ui.at = "delete" => ~ui.view.pinned

\* The serials only grow, in the order request, scan, completion.
SerialInv ==
    /\ scan.serial <= q.serial /\ pub.completed <= q.serial
    /\ scan.at \in {"walk", "publish"} => pub.completed <= scan.serial
    /\ ui.at = "wait" => ui.wait <= q.serial
    /\ There # {} => home

\* What a scan that serves the waiter has done with a file the fence needs.
Walked(f) ==
    /\ scan.at = "walk" /\ ~scan.incomplete =>
         \/ f \in scan.unlisted
         \/ f \in scan.paths /\ f \in scan.unread \cup scan.skipped \cup entries
    /\ scan.at = "publish" /\ ~scan.incomplete => f \in scan.skipped \cup entries

FenceInv ==
    ui.at = "wait" =>
      \A f \in ui.need \cap There :
        /\ scan.serial >= ui.wait => Walked(f)
        /\ pub.completed >= ui.wait => f \in pub.sessions \cup pub.skipped

\* The fence needs only files that had been created when it was asked for.
NeedInv == ui.at = "wait" => \A f \in ui.need : disk[f] # "unborn"

IInv == IndexTypeOK /\ TombstoneInv /\ SerialInv /\ FenceInv /\ NeedInv

\* The two ways a scan that comes back is published.
PubFailed == pub' = [pub EXCEPT !.initial_failure = @ \/ pub.generation = 0]
PubNew == pub' = [generation |-> pub.generation + 1, sessions |-> entries,
                  tombstones |-> Tombstones, completed |-> Completed,
                  initial_failure |-> FALSE, skipped |-> scan.skipped]

-----------------------------------------------------------------------------
(* Every step preserves the invariant *)

LEMMA Zero == 0 \in 0..MaxSerial
BY MaxSerialAssumption

LEMMA RequestIsTyped ==
    ASSUME IndexTypeOK, q.serial < MaxSerial, NEW inval \in BOOLEAN
    PROVE  /\ Request(inval) \in RequestType
           /\ Request(inval).serial = q.serial + 1
           /\ Request(inval).serial \in 0..MaxSerial
           /\ Request(inval).closed = q.closed
<1>1. q \in RequestType BY DEF IndexTypeOK
<1>2. q.serial + 1 \in 1..MaxSerial BY <1>1, MaxSerialAssumption DEF RequestType
<1> DEFINE i == q.invalidate \/ inval
<1>3. i \in BOOLEAN OBVIOUS
<1>4. Request(inval) = [q EXCEPT !.serial = q.serial + 1, !.requested = TRUE,
                                 !.invalidate = i]
  BY DEF Request
<1> HIDE DEF i
<1>5. /\ Request(inval) \in RequestType
      /\ Request(inval).serial = q.serial + 1
      /\ Request(inval).closed = q.closed
  BY <1>1, <1>2, <1>3, <1>4 DEF RequestType
<1>6. q.serial + 1 \in 0..MaxSerial BY <1>2
<1>7. QED BY <1>5, <1>6

LEMMA SerialIsNat ==
    ASSUME IndexTypeOK
    PROVE  /\ scan.serial \in Nat /\ q.serial \in Nat
           /\ pub.completed \in Nat /\ ui.wait \in Nat
BY MaxSerialAssumption DEF IndexTypeOK, ScanType, RequestType, PubType, UiType

\* A step that changes the requests, and perhaps what the waiter waits for.
LEMMA SerialFrame ==
    ASSUME IInv, q'.serial = q.serial \/ q'.serial = q.serial + 1,
           scan'.serial = scan.serial, pub'.completed = pub.completed,
           scan'.at = scan.at, ui'.at = "wait" => ui'.wait <= q'.serial,
           There' # {} => home'
    PROVE  SerialInv'
BY SerialIsNat DEF IInv, SerialInv

LEMMA RefreshInv ==
    ASSUME IInv, RefreshIndex
    PROVE  IInv'
<1>1. IndexTypeOK'
  BY RequestIsTyped DEF IInv, IndexTypeOK, There, RefreshIndex
<1>2. TombstoneInv'
  BY DEF IInv, IndexTypeOK, UiType, PubType, TombstoneInv, There, RefreshIndex, Request
<1>3. SerialInv'
  BY RequestIsTyped, SerialIsNat, SerialFrame
  DEF IInv, SerialInv, There, RefreshIndex
<1>4. FenceInv'
  BY DEF IInv, FenceInv, Walked, There, RefreshIndex
<1>5. NeedInv'
  BY DEF IInv, IndexTypeOK, UiType, NeedInv, There, RefreshIndex, Request
<1>6. QED BY <1>1, <1>2, <1>3, <1>4, <1>5 DEF IInv

LEMMA RefreshAndWaitInv ==
    ASSUME IInv, RefreshAndWait
    PROVE  IInv'
<1>1. IndexTypeOK'
  <2>1. There \in SUBSET Files BY DEF There
  <2>2. QED
    BY <2>1, RequestIsTyped DEF IInv, IndexTypeOK, UiType, RefreshAndWait
<1>2. TombstoneInv'
  BY DEF IInv, IndexTypeOK, UiType, PubType, TombstoneInv, There, RefreshAndWait, Request
<1>3. SerialInv'
  <2>1. ui'.wait = q'.serial
    BY DEF IInv, IndexTypeOK, UiType, RefreshAndWait
  <2>2. q'.serial = q.serial + 1 BY RequestIsTyped DEF IInv, RefreshAndWait
  <2>3. q'.serial \in Nat BY <2>2, SerialIsNat DEF IInv
  <2>4. ui'.wait <= q'.serial BY <2>1, <2>3
  <2>5. There' # {} => home'
    BY DEF IInv, SerialInv, There, RefreshAndWait
  <2>6. QED BY <2>2, <2>4, <2>5, SerialFrame DEF RefreshAndWait
<1>4. FenceInv'
  \* No scan that has begun serves the new request.
  <2>1. ui'.wait = q'.serial
    BY DEF IInv, IndexTypeOK, UiType, RefreshAndWait
  <2>2. q'.serial = q.serial + 1 BY RequestIsTyped DEF IInv, RefreshAndWait
  <2>3. scan.serial <= q.serial /\ pub.completed <= q.serial
    BY DEF IInv, SerialInv
  <2>4. scan.serial \in Nat /\ q.serial \in Nat /\ pub.completed \in Nat
    BY SerialIsNat DEF IInv
  <2>5. ~(scan.serial >= ui'.wait) /\ ~(pub.completed >= ui'.wait)
    BY <2>1, <2>2, <2>3, <2>4
  <2>6. scan' = scan /\ pub' = pub BY DEF RefreshAndWait
  <2>7. QED BY <2>5, <2>6 DEF FenceInv
<1>5. NeedInv'
  BY DEF IInv, IndexTypeOK, UiType, NeedInv, There, RefreshAndWait, Request
<1>6. QED BY <1>1, <1>2, <1>3, <1>4, <1>5 DEF IInv

LEMMA WaitReturnsInv ==
    ASSUME IInv, WaitReturns
    PROVE  IInv'
<1>1. IndexTypeOK'
  BY Zero, RequestIsTyped DEF IInv, IndexTypeOK, UiType, ViewType, There, WaitReturns
<1>2. TombstoneInv'
  BY DEF IInv, IndexTypeOK, UiType, PubType, TombstoneInv, There, WaitReturns
<1>3. SerialInv'
  BY RequestIsTyped, SerialIsNat DEF IInv, IndexTypeOK, SerialInv, There, WaitReturns
<1>4. FenceInv'
  BY SerialIsNat, RequestIsTyped DEF IInv, IndexTypeOK, SerialInv, FenceInv, Walked, There, WaitReturns
<1>5. NeedInv'
  BY DEF IInv, IndexTypeOK, UiType, NeedInv, There, WaitReturns
<1>6. QED BY <1>1, <1>2, <1>3, <1>4, <1>5 DEF IInv

LEMMA WaitTimesOutInv ==
    ASSUME IInv, WaitTimesOut
    PROVE  IInv'
<1>1. IndexTypeOK'
  BY Zero, RequestIsTyped DEF IInv, IndexTypeOK, UiType, ViewType, There, WaitTimesOut
<1>2. TombstoneInv'
  BY DEF IInv, IndexTypeOK, UiType, PubType, TombstoneInv, There, WaitTimesOut
<1>3. SerialInv'
  BY RequestIsTyped, SerialIsNat DEF IInv, IndexTypeOK, SerialInv, There, WaitTimesOut
<1>4. FenceInv'
  BY SerialIsNat, RequestIsTyped DEF IInv, IndexTypeOK, SerialInv, FenceInv, Walked, There, WaitTimesOut
<1>5. NeedInv'
  BY DEF IInv, IndexTypeOK, UiType, NeedInv, There, WaitTimesOut
<1>6. QED BY <1>1, <1>2, <1>3, <1>4, <1>5 DEF IInv

LEMMA BeginReadInv ==
    ASSUME IInv, BeginRead
    PROVE  IInv'
<1>1. IndexTypeOK'
  <2> DEFINE v == [pinned |-> TRUE, sessions |-> pub.sessions,
                   tombstones |-> pub.tombstones]
  <2>1. v \in ViewType BY DEF IInv, IndexTypeOK, PubType, ViewType
  <2>2. ui' = [ui EXCEPT !.view = v] BY DEF BeginRead
  <2> HIDE DEF v
  <2>3. ui' \in UiType BY <2>1, <2>2 DEF IInv, IndexTypeOK, UiType
  <2>4. QED BY <2>3 DEF IInv, IndexTypeOK, BeginRead
<1>2. TombstoneInv'
  BY DEF IInv, IndexTypeOK, UiType, PubType, TombstoneInv, There, BeginRead, ViewType
<1>3. SerialInv'
  BY RequestIsTyped, SerialIsNat DEF IInv, IndexTypeOK, SerialInv, There, BeginRead, ViewType
<1>4. FenceInv'
  BY SerialIsNat, RequestIsTyped DEF IInv, IndexTypeOK, SerialInv, FenceInv, Walked, There, BeginRead, ViewType
<1>5. NeedInv'
  BY DEF IInv, IndexTypeOK, UiType, NeedInv, There, BeginRead, ViewType
<1>6. QED BY <1>1, <1>2, <1>3, <1>4, <1>5 DEF IInv

LEMMA EndReadInv ==
    ASSUME IInv, EndRead
    PROVE  IInv'
<1>1. IndexTypeOK'
  BY Zero, RequestIsTyped DEF IInv, IndexTypeOK, UiType, ViewType, There, EndRead, NoPin, ViewType
<1>2. TombstoneInv'
  BY DEF IInv, IndexTypeOK, UiType, PubType, TombstoneInv, There, EndRead, NoPin, ViewType
<1>3. SerialInv'
  BY RequestIsTyped, SerialIsNat DEF IInv, IndexTypeOK, SerialInv, There, EndRead, NoPin, ViewType
<1>4. FenceInv'
  BY SerialIsNat, RequestIsTyped DEF IInv, IndexTypeOK, SerialInv, FenceInv, Walked, There, EndRead, NoPin, ViewType
<1>5. NeedInv'
  BY DEF IInv, IndexTypeOK, UiType, NeedInv, There, EndRead, NoPin, ViewType
<1>6. QED BY <1>1, <1>2, <1>3, <1>4, <1>5 DEF IInv

LEMMA DeleteFileInv ==
    ASSUME IInv, NEW f \in Files, DeleteFile(f)
    PROVE  IInv'
<1>1. IndexTypeOK'
  BY Zero, RequestIsTyped DEF IInv, IndexTypeOK, UiType, ViewType, There, DeleteFile
<1>2. TombstoneInv'
  BY DEF IInv, IndexTypeOK, UiType, PubType, TombstoneInv, There, DeleteFile
<1>3. SerialInv'
  BY RequestIsTyped, SerialIsNat DEF IInv, IndexTypeOK, SerialInv, There, DeleteFile
<1>4. FenceInv'
  BY SerialIsNat, RequestIsTyped DEF IInv, IndexTypeOK, SerialInv, FenceInv, Walked, There, DeleteFile
<1>5. NeedInv'
  BY DEF IInv, IndexTypeOK, UiType, NeedInv, There, DeleteFile
<1>6. QED BY <1>1, <1>2, <1>3, <1>4, <1>5 DEF IInv

LEMMA InvalidateInv ==
    ASSUME IInv, Invalidate
    PROVE  IInv'
<1>1. IndexTypeOK'
  <2>1. ui' \in UiType BY DEF IInv, IndexTypeOK, UiType, Invalidate
  <2>2. ui.file \in SUBSET Files BY DEF IInv, IndexTypeOK, UiType
  <2>3. pub' \in PubType BY <2>2 DEF IInv, IndexTypeOK, PubType, Invalidate
  <2>4. q' \in RequestType BY RequestIsTyped DEF IInv, Invalidate
  <2>5. QED BY <2>1, <2>2, <2>3, <2>4 DEF IInv, IndexTypeOK, Invalidate
<1>2. TombstoneInv'
  BY DEF IInv, IndexTypeOK, UiType, PubType, TombstoneInv, There, Invalidate, Request
<1>3. SerialInv'
  <2>1. q'.serial = q.serial + 1 BY RequestIsTyped DEF IInv, Invalidate
  <2>2. pub'.completed = pub.completed /\ ui'.at = "run"
    BY DEF IInv, IndexTypeOK, PubType, UiType, Invalidate
  <2>3. There' # {} => home' BY DEF IInv, SerialInv, There, Invalidate
  <2>4. QED BY <2>1, <2>2, <2>3, SerialFrame DEF Invalidate
<1>4. FenceInv'
  <2>1. ui'.at = "run" BY DEF IInv, IndexTypeOK, UiType, Invalidate
  <2>2. QED BY <2>1 DEF FenceInv
<1>5. NeedInv'
  BY DEF IInv, IndexTypeOK, UiType, NeedInv, There, Invalidate, Request
<1>6. QED BY <1>1, <1>2, <1>3, <1>4, <1>5 DEF IInv

LEMMA InvalidateAllInv ==
    ASSUME IInv, InvalidateAll
    PROVE  IInv'
<1>1. IndexTypeOK'
  BY RequestIsTyped DEF IInv, IndexTypeOK, There, InvalidateAll
<1>2. TombstoneInv'
  BY DEF IInv, IndexTypeOK, UiType, PubType, TombstoneInv, There, InvalidateAll, Request
<1>3. SerialInv'
  BY RequestIsTyped, SerialIsNat, SerialFrame
  DEF IInv, SerialInv, There, InvalidateAll
<1>4. FenceInv'
  BY DEF IInv, FenceInv, Walked, There, InvalidateAll
<1>5. NeedInv'
  BY DEF IInv, IndexTypeOK, UiType, NeedInv, There, InvalidateAll, Request
<1>6. QED BY <1>1, <1>2, <1>3, <1>4, <1>5 DEF IInv

LEMMA CloseInv ==
    ASSUME IInv, Close
    PROVE  IInv'
<1>1. IndexTypeOK'
  BY Zero, RequestIsTyped DEF IInv, IndexTypeOK, ScanType, PubType, RequestType, There, Close
<1>2. TombstoneInv'
  BY DEF IInv, IndexTypeOK, UiType, PubType, TombstoneInv, There, Close
<1>3. SerialInv'
  BY RequestIsTyped, SerialIsNat DEF IInv, IndexTypeOK, SerialInv, There, Close
<1>4. FenceInv'
  BY SerialIsNat, RequestIsTyped DEF IInv, IndexTypeOK, SerialInv, FenceInv, Walked, There, Close
<1>5. NeedInv'
  BY DEF IInv, IndexTypeOK, UiType, NeedInv, There, Close
<1>6. QED BY <1>1, <1>2, <1>3, <1>4, <1>5 DEF IInv

LEMMA TakeInv ==
    ASSUME IInv, Take
    PROVE  IInv'
<1>1. IndexTypeOK'
  <2>1. There \in SUBSET Files BY DEF There
  <2>2. q.serial \in 0..MaxSerial
    BY MaxSerialAssumption DEF IInv, IndexTypeOK, RequestType
  <2> DEFINE l == IF home THEN "walk" ELSE "publish"
  <2>3. l \in {"walk", "publish"} OBVIOUS
  <2>4. scan' = [NoScan EXCEPT !.at = l, !.serial = q.serial,
                               !.unlisted = Files, !.had = There]
    BY DEF Take
  <2> HIDE DEF l
  <2>5. scan' \in ScanType BY <2>1, <2>2, <2>3, <2>4 DEF NoScan, ScanType
  <2>6. q' \in RequestType BY DEF IInv, IndexTypeOK, RequestType, Take
  <2>7. entries' \in SUBSET Files BY DEF IInv, IndexTypeOK, Take
  <2>8. QED BY <2>5, <2>6, <2>7 DEF IInv, IndexTypeOK, Take
<1>2. TombstoneInv'
  BY DEF IInv, IndexTypeOK, UiType, PubType, TombstoneInv, There, Take, NoScan, ScanType
<1>3. SerialInv'
  BY RequestIsTyped, SerialIsNat DEF IInv, IndexTypeOK, SerialInv, There, Take, NoScan, ScanType
<1>4. FenceInv'
  BY SerialIsNat, RequestIsTyped DEF IInv, IndexTypeOK, SerialInv, FenceInv, Walked, There, Take, NoScan, ScanType
<1>5. NeedInv'
  BY DEF IInv, IndexTypeOK, UiType, NeedInv, There, Take, NoScan, ScanType
<1>6. QED BY <1>1, <1>2, <1>3, <1>4, <1>5 DEF IInv

LEMMA ListInv ==
    ASSUME IInv, NEW f \in Files, List(f)
    PROVE  IInv'
<1>1. IndexTypeOK'
  <2>1. {f} \cap There \in SUBSET Files BY DEF There
  <2>2. scan \in ScanType BY DEF IInv, IndexTypeOK
  <2> DEFINE rest == scan.unlisted \ {f}
             unread == scan.unread \cup ({f} \cap There)
             paths == scan.paths \cup ({f} \cap There)
  <2>3. \/ scan' = [scan EXCEPT !.unlisted = rest, !.unread = unread,
                                !.paths = paths]
        \/ scan' = [scan EXCEPT !.unlisted = rest, !.incomplete = TRUE]
    BY DEF List
  <2>4. rest \in SUBSET Files /\ unread \in SUBSET Files
        /\ paths \in SUBSET Files
    BY <2>1, <2>2 DEF ScanType
  <2> HIDE DEF rest, unread, paths
  <2>5. scan' \in ScanType BY <2>2, <2>3, <2>4 DEF ScanType
  <2>6. QED BY <2>5 DEF IInv, IndexTypeOK, List
<1>2. TombstoneInv'
  BY DEF IInv, IndexTypeOK, UiType, PubType, TombstoneInv, There, List, ScanType
<1>3. SerialInv'
  BY RequestIsTyped, SerialIsNat DEF IInv, IndexTypeOK, SerialInv, There, List, ScanType
<1>4. FenceInv'
  <2>1. /\ scan.at = "walk" /\ scan'.at = "walk" /\ scan'.serial = scan.serial
        /\ UNCHANGED <<ui, pub, disk, entries>>
        /\ \/ scan'.incomplete
           \/ /\ scan'.incomplete = scan.incomplete
              /\ scan'.unlisted = scan.unlisted \ {f}
              /\ scan'.unread = scan.unread \cup ({f} \cap There)
              /\ scan'.paths = scan.paths \cup ({f} \cap There)
              /\ scan'.skipped = scan.skipped
    BY DEF IInv, IndexTypeOK, ScanType, List
  <2>2. ASSUME NEW g \in There, Walked(g) PROVE Walked(g)'
    BY <2>1, <2>2 DEF Walked
  <2>3. QED BY <2>1, <2>2 DEF IInv, FenceInv, There
<1>5. NeedInv'
  BY DEF IInv, IndexTypeOK, UiType, NeedInv, There, List, ScanType
<1>6. QED BY <1>1, <1>2, <1>3, <1>4, <1>5 DEF IInv

LEMMA ReadInv ==
    ASSUME IInv, NEW f \in Files, Read(f)
    PROVE  IInv'
<1>1. IndexTypeOK'
  <2>1. scan \in ScanType BY DEF IInv, IndexTypeOK
  <2> DEFINE unread == scan.unread \ {f}
             skipped == scan.skipped \cup {f}
  <2>2. \/ scan' = [scan EXCEPT !.unread = unread]
        \/ scan' = [scan EXCEPT !.unread = unread, !.skipped = skipped]
    BY DEF Read
  <2>3. unread \in SUBSET Files /\ skipped \in SUBSET Files
    BY <2>1 DEF ScanType
  <2> HIDE DEF unread, skipped
  <2>4. scan' \in ScanType BY <2>1, <2>2, <2>3 DEF ScanType
  <2>5. entries' \in SUBSET Files BY DEF IInv, IndexTypeOK, Read
  <2>6. QED BY <2>4, <2>5 DEF IInv, IndexTypeOK, Read
<1>2. TombstoneInv'
  BY DEF IInv, IndexTypeOK, UiType, PubType, TombstoneInv, There, Read, ScanType
<1>3. SerialInv'
  BY RequestIsTyped, SerialIsNat DEF IInv, IndexTypeOK, SerialInv, There, Read, ScanType
<1>4. FenceInv'
  <2>1. scan \in ScanType BY DEF IInv, IndexTypeOK
  <2>2. \/ /\ scan' = [scan EXCEPT !.unread = @ \ {f}]
           /\ entries' = entries \cup {f}
        \/ /\ scan' = [scan EXCEPT !.unread = @ \ {f}, !.skipped = @ \cup {f}]
           /\ entries' = entries
    BY DEF Read
  <2>3. /\ scan'.at = scan.at /\ scan'.serial = scan.serial
        /\ scan'.incomplete = scan.incomplete
        /\ scan'.unlisted = scan.unlisted /\ scan'.paths = scan.paths
        /\ scan'.unread = scan.unread \ {f}
    BY <2>1, <2>2 DEF ScanType
  <2>4. \/ entries' = entries \cup {f} /\ scan'.skipped = scan.skipped
        \/ entries' = entries /\ scan'.skipped = scan.skipped \cup {f}
    BY <2>1, <2>2 DEF ScanType
  <2>5. ASSUME NEW g \in There, Walked(g) PROVE Walked(g)'
    BY <2>3, <2>4, <2>5 DEF Walked
  <2>6. UNCHANGED <<ui, pub, disk>> BY DEF Read
  <2>7. QED BY <2>3, <2>5, <2>6 DEF IInv, FenceInv, There
<1>5. NeedInv'
  BY DEF IInv, IndexTypeOK, UiType, NeedInv, There, Read, ScanType
<1>6. QED BY <1>1, <1>2, <1>3, <1>4, <1>5 DEF IInv

LEMMA EndWalkInv ==
    ASSUME IInv, EndWalk
    PROVE  IInv'
<1>1. IndexTypeOK'
  BY Zero, RequestIsTyped DEF IInv, IndexTypeOK, ScanType, PubType, RequestType, There, EndWalk, Evict, ScanType
<1>2. TombstoneInv'
  BY DEF IInv, IndexTypeOK, UiType, PubType, TombstoneInv, There, EndWalk, Evict, ScanType
<1>3. SerialInv'
  BY RequestIsTyped, SerialIsNat DEF IInv, IndexTypeOK, SerialInv, There, EndWalk, Evict, ScanType
<1>4. FenceInv'
  BY SerialIsNat, RequestIsTyped DEF IInv, IndexTypeOK, SerialInv, FenceInv, Walked, There, EndWalk, Evict, ScanType
<1>5. NeedInv'
  BY DEF IInv, IndexTypeOK, UiType, NeedInv, There, EndWalk, Evict, ScanType
<1>6. QED BY <1>1, <1>2, <1>3, <1>4, <1>5 DEF IInv

LEMMA PublishInv ==
    ASSUME IInv, Publish
    PROVE  IInv'
<1>1. IndexTypeOK'
  <2>1. scan' \in ScanType /\ q' = q
    BY DEF IInv, IndexTypeOK, ScanType, Publish, Done
  <2>2. Tombstones \in SUBSET Files /\ Completed \in 0..MaxSerial
    BY DEF IInv, IndexTypeOK, ScanType, PubType, Tombstones, Completed
  <2>3. pub' = pub \/ PubFailed \/ PubNew
    BY DEF Publish, PubFailed, PubNew
  <2>4. CASE PubFailed
    <3> DEFINE b == pub.initial_failure \/ pub.generation = 0
    <3>1. b \in BOOLEAN OBVIOUS
    <3>2. pub' = [pub EXCEPT !.initial_failure = b] BY <2>4 DEF PubFailed
    <3> HIDE DEF b
    <3>3. pub' \in PubType BY <3>1, <3>2 DEF IInv, IndexTypeOK, PubType
    <3>4. QED BY <2>1, <3>3 DEF IInv, IndexTypeOK, Publish
  <2>5. CASE PubNew
    <3>1. pub' \in PubType
      BY <2>2, <2>5 DEF IInv, IndexTypeOK, PubType, ScanType, PubNew
    <3>2. QED BY <2>1, <3>1 DEF IInv, IndexTypeOK, Publish
  <2>6. QED BY <2>1, <2>3, <2>4, <2>5 DEF IInv, IndexTypeOK, Publish
<1>2. TombstoneInv'
  <2>1. \/ pub'.sessions = pub.sessions /\ pub'.tombstones = pub.tombstones
        \/ pub'.sessions = entries /\ pub'.tombstones = pub.tombstones \cap entries
    BY DEF IInv, IndexTypeOK, PubType, Publish, Tombstones
  <2>2. UNCHANGED <<disk, entries, ui, reported>> BY DEF Publish
  <2>3. QED BY <2>1, <2>2 DEF IInv, TombstoneInv
<1>3. SerialInv'
  <2>1. /\ scan.at = "publish" /\ scan'.serial = scan.serial
        /\ \/ scan'.at = "exited" /\ UNCHANGED <<pub, q>>
           \/ scan'.at = "idle" /\ UNCHANGED q
        /\ UNCHANGED <<disk, home, entries, ui, reported>>
    BY DEF IInv, IndexTypeOK, ScanType, Publish, Done
  <2>2. pub'.completed \in {pub.completed, scan.serial}
    BY DEF IInv, IndexTypeOK, PubType, Publish, Completed
  <2>3. QED
    BY <2>1, <2>2, SerialIsNat DEF IInv, SerialInv, There
<1>4. FenceInv'
  <2>1. /\ scan.at = "publish" /\ scan'.serial = scan.serial
        /\ \/ scan'.at = "exited" /\ UNCHANGED <<pub, q>>
           \/ scan'.at = "idle" /\ UNCHANGED q
        /\ UNCHANGED <<disk, home, entries, ui, reported>>
    BY DEF IInv, IndexTypeOK, ScanType, Publish, Done
  <2>2. \/ pub'.completed = pub.completed /\ pub'.sessions = pub.sessions
           /\ pub'.skipped = pub.skipped
        \/ /\ ~scan.incomplete /\ pub'.sessions = entries
           /\ pub'.skipped = scan.skipped /\ pub'.completed = Completed
    BY DEF IInv, IndexTypeOK, PubType, Publish, Usable
  \* Whichever request the new generation completes, its scan serves it.
  <2>3. Completed <= scan.serial
    BY <2>1, SerialIsNat DEF IInv, SerialInv, Completed
  <2>4. ASSUME ui.at = "wait", NEW g \in ui.need \cap There,
               pub'.completed >= ui.wait
        PROVE  g \in pub'.sessions \cup pub'.skipped
    <3>1. CASE ~scan.incomplete /\ pub'.sessions = entries
               /\ pub'.skipped = scan.skipped /\ pub'.completed = Completed
      <4>1. Completed \in Nat BY SerialIsNat DEF IInv, Completed
      <4>2. scan.serial >= ui.wait BY <2>3, <2>4, <3>1, <4>1, SerialIsNat DEF IInv
      <4>3. QED BY <2>1, <2>4, <3>1, <4>2 DEF IInv, FenceInv, Walked
    <3>2. QED BY <2>2, <2>4, <3>1 DEF IInv, FenceInv
  <2>5. QED BY <2>1, <2>4 DEF FenceInv, Walked, There
<1>5. NeedInv'
  BY DEF IInv, IndexTypeOK, UiType, NeedInv, There, Publish, ClosedMeanwhile, Done, Completed, Tombstones, Usable, ScanType
<1>6. QED BY <1>1, <1>2, <1>3, <1>4, <1>5 DEF IInv

LEMMA WorkerExitsInv ==
    ASSUME IInv, WorkerExits
    PROVE  IInv'
<1>1. IndexTypeOK'
  BY Zero, RequestIsTyped DEF IInv, IndexTypeOK, ScanType, PubType, RequestType, There, WorkerExits, ScanType
<1>2. TombstoneInv'
  BY DEF IInv, IndexTypeOK, UiType, PubType, TombstoneInv, There, WorkerExits, ScanType
<1>3. SerialInv'
  BY RequestIsTyped, SerialIsNat DEF IInv, IndexTypeOK, SerialInv, There, WorkerExits, ScanType
<1>4. FenceInv'
  BY SerialIsNat, RequestIsTyped DEF IInv, IndexTypeOK, SerialInv, FenceInv, Walked, There, WorkerExits, ScanType
<1>5. NeedInv'
  BY DEF IInv, IndexTypeOK, UiType, NeedInv, There, WorkerExits, ScanType
<1>6. QED BY <1>1, <1>2, <1>3, <1>4, <1>5 DEF IInv

LEMMA CreateInv ==
    ASSUME IInv, NEW f \in Files, Create(f)
    PROVE  IInv'
<1>1. IndexTypeOK'
  BY Zero, RequestIsTyped DEF IInv, IndexTypeOK, ScanType, PubType, RequestType, There, Create, ScanType
<1>2. TombstoneInv'
  BY DEF IInv, IndexTypeOK, UiType, PubType, TombstoneInv, There, Create, ScanType
<1>3. SerialInv'
  BY RequestIsTyped, SerialIsNat DEF IInv, IndexTypeOK, SerialInv, There, Create, ScanType
<1>4. FenceInv'
  <2>1. /\ scan'.at = scan.at /\ scan'.serial = scan.serial
        /\ scan'.incomplete = scan.incomplete
        /\ scan'.unlisted = scan.unlisted /\ scan'.paths = scan.paths
        /\ scan'.unread = scan.unread /\ scan'.skipped = scan.skipped
        /\ UNCHANGED <<ui, pub, entries>>
    BY DEF IInv, IndexTypeOK, ScanType, Create
  <2>2. \A g : Walked(g) => Walked(g)' BY <2>1 DEF Walked
  \* The new file is not one the fence needs: those existed already.
  <2>3. There' = There \cup {f} BY DEF IInv, IndexTypeOK, There, Create
  <2>4. ui.at = "wait" => f \notin ui.need
    BY DEF IInv, NeedInv, Create
  <2>5. QED BY <2>1, <2>2, <2>3, <2>4 DEF IInv, FenceInv
<1>5. NeedInv'
  BY DEF IInv, IndexTypeOK, UiType, NeedInv, There, Create, ScanType
<1>6. QED BY <1>1, <1>2, <1>3, <1>4, <1>5 DEF IInv

LEMMA RemoveInv ==
    ASSUME IInv, NEW f \in Files, Remove(f)
    PROVE  IInv'
<1>1. IndexTypeOK'
  BY Zero, RequestIsTyped DEF IInv, IndexTypeOK, ScanType, PubType, RequestType, There, Remove
<1>2. TombstoneInv'
  BY DEF IInv, IndexTypeOK, UiType, PubType, TombstoneInv, There, Remove
<1>3. SerialInv'
  BY RequestIsTyped, SerialIsNat DEF IInv, IndexTypeOK, SerialInv, There, Remove
<1>4. FenceInv'
  BY SerialIsNat, RequestIsTyped DEF IInv, IndexTypeOK, SerialInv, FenceInv, Walked, There, Remove
<1>5. NeedInv'
  BY DEF IInv, IndexTypeOK, UiType, NeedInv, There, Remove
<1>6. QED BY <1>1, <1>2, <1>3, <1>4, <1>5 DEF IInv

LEMMA WipeInv ==
    ASSUME IInv, Wipe
    PROVE  IInv'
<1>1. IndexTypeOK'
  BY Zero, RequestIsTyped DEF IInv, IndexTypeOK, ScanType, PubType, RequestType, There, Wipe
<1>2. TombstoneInv'
  BY DEF IInv, IndexTypeOK, UiType, PubType, TombstoneInv, There, Wipe
<1>3. SerialInv'
  BY RequestIsTyped, SerialIsNat DEF IInv, IndexTypeOK, SerialInv, There, Wipe
<1>4. FenceInv'
  BY SerialIsNat, RequestIsTyped DEF IInv, IndexTypeOK, SerialInv, FenceInv, Walked, There, Wipe
<1>5. NeedInv'
  BY DEF IInv, IndexTypeOK, UiType, NeedInv, There, Wipe
<1>6. QED BY <1>1, <1>2, <1>3, <1>4, <1>5 DEF IInv

LEMMA InitInv == IndexInit => IInv
<1> SUFFICES ASSUME IndexInit PROVE IInv
  OBVIOUS
<1>1. IndexTypeOK
  <2>1. disk \in [Files -> {"unborn", "there", "removed"}]
    BY DEF IndexInit
  <2>2. home \in BOOLEAN /\ entries \in SUBSET Files
        /\ reported \in SUBSET Files
    BY DEF IndexInit
  <2>3. scan \in ScanType BY Zero DEF IndexInit, NoScan, ScanType
  <2>4. q \in RequestType BY MaxSerialAssumption DEF IndexInit, RequestType
  <2>5. pub \in PubType BY Zero DEF IndexInit, PubType
  <2>6. NoPin \in ViewType BY DEF NoPin, ViewType
  <2>7. ui \in UiType BY <2>6, Zero DEF IndexInit, UiType
  <2>8. QED BY <2>1, <2>2, <2>3, <2>4, <2>5, <2>7 DEF IndexTypeOK
<1>2. TombstoneInv BY DEF IndexInit, TombstoneInv, NoPin
<1>3. SerialInv
  <2>1. scan.serial = 0 /\ scan.at = "idle" /\ q.serial = 1
        /\ pub.completed = 0 /\ ui.at = "run"
    BY DEF IndexInit, NoScan
  <2>2. There # {} => home BY DEF IndexInit
  <2>3. QED BY <2>1, <2>2 DEF SerialInv
<1>4. FenceInv BY DEF IndexInit, FenceInv
<1>5. NeedInv BY DEF IndexInit, NeedInv
<1>6. QED BY <1>1, <1>2, <1>3, <1>4, <1>5 DEF IInv

LEMMA NextInv == IInv /\ [IndexNext]_indexVars => IInv'
<1> SUFFICES ASSUME IInv, [IndexNext]_indexVars PROVE IInv'
  OBVIOUS
<1>1. CASE UNCHANGED indexVars
  BY <1>1 DEF IInv, IndexTypeOK, TombstoneInv, SerialInv, FenceInv, NeedInv,
              Walked, There, indexVars
<1>2. CASE Worker
  BY <1>2, TakeInv, EndWalkInv, PublishInv, WorkerExitsInv, ListInv, ReadInv
  DEF Worker
<1>3. CASE \E f \in Files : DeleteFile(f) \/ Create(f) \/ Remove(f)
  BY <1>3, DeleteFileInv, CreateInv, RemoveInv
<1>4. CASE RefreshIndex \/ RefreshAndWait \/ WaitReturns \/ WaitTimesOut
  BY <1>4, RefreshInv, RefreshAndWaitInv, WaitReturnsInv, WaitTimesOutInv
<1>5. CASE BeginRead \/ EndRead \/ Invalidate \/ InvalidateAll \/ Close
  BY <1>5, BeginReadInv, EndReadInv, InvalidateInv, InvalidateAllInv, CloseInv
<1>6. QED BY <1>1, <1>2, <1>3, <1>4, <1>5, WipeInv DEF IndexNext

\* The invariant holds in every behaviour, whatever the worker's scheduling.
THEOREM Inductive == IndexSpec => []IInv
BY InitInv, NextInv, PTL DEF IndexSpec

-----------------------------------------------------------------------------
(* The theorems *)

\* Every serial that the worker, the UI thread and the published generation hold is one of
\* a request that was made, and what they hold beside it are sessions (background_index.py).
THEOREM IndexTypes == IndexSpec => []IndexTypeOK
<1>1. IInv => IndexTypeOK BY DEF IInv
<1>2. QED BY <1>1, Inductive, PTL

\* Whatever scan was in flight when the user deleted a session, and whatever
\* it publishes, the session is never shown again: invalidate's tombstone and
\* the rule by which a scan drops one (background_index.py).
THEOREM DeletedStaysDeleted == IndexSpec => []NeverReappears
<1>1. IInv => NeverReappears
  BY DEF IInv, TombstoneInv, NeverReappears, Visible
<1>2. QED BY <1>1, Inductive, PTL

\* refresh_and_wait answers TRUE only when a scan begun after the request has
\* published each session that existed then, or counted it as skipped.
THEOREM FenceHolds == IndexSpec => FenceSound
<1>1. IInv /\ WaitReturns =>
        ui.need \cap There \subseteq pub.sessions \cup pub.skipped
  BY DEF IInv, FenceInv, WaitReturns, Fenced
<1>2. IInv => [WaitReturns => ui.need \cap There
                               \subseteq pub.sessions \cup pub.skipped]_indexVars
  BY <1>1
<1>3. QED BY <1>2, Inductive, PTL DEF FenceSound

-----------------------------------------------------------------------------
(* Eviction *)

\* A file that is there has been there since the walk began, or was created
\* while it ran; and a complete walk leaves in the cache only what it listed.
WalkInv ==
    /\ scan.at = "walk" => There \cup scan.paths \subseteq scan.had
    /\ scan.at = "publish" /\ scan.unlisted = {} /\ ~scan.incomplete
         => entries \subseteq scan.had

LEMMA WalkStep ==
    ASSUME IInv, WalkInv, [IndexNext]_indexVars
    PROVE  WalkInv'
<1> USE DEF WalkInv, There
<1>1. scan \in ScanType /\ entries \in SUBSET Files BY DEF IInv, IndexTypeOK
<1>2. CASE Take
  <2>1. /\ scan'.had = There /\ scan'.paths = {} /\ scan'.unlisted = Files
        /\ UNCHANGED disk
    BY <1>2 DEF Take, NoScan
  <2>2. entries' \in SUBSET Files BY <1>1, <1>2 DEF Take
  <2>3. QED BY <2>1, <2>2
<1>3. ASSUME NEW f \in Files, List(f) PROVE WalkInv'
  <2> DEFINE g == {f} \cap There
  <2>1. g \subseteq There /\ g \in SUBSET Files OBVIOUS
  <2>2. \/ scan' = [scan EXCEPT !.unlisted = @ \ {f}, !.unread = @ \cup g,
                                !.paths = @ \cup g]
        \/ scan' = [scan EXCEPT !.unlisted = @ \ {f}, !.incomplete = TRUE]
    BY <1>3 DEF List
  <2> HIDE DEF g
  <2>3. /\ scan.at = "walk" /\ scan'.at = "walk" /\ scan'.had = scan.had
        /\ scan'.paths \subseteq scan.paths \cup g
        /\ UNCHANGED disk
    BY <1>1, <1>3, <2>2 DEF List, ScanType
  <2>4. QED BY <2>1, <2>3
<1>4. ASSUME NEW f \in Files, Read(f) PROVE WalkInv'
  BY <1>1, <1>4 DEF Read, ScanType
<1>5. CASE EndWalk
  <2>1. /\ scan.at = "walk" /\ scan'.at = "publish" /\ scan'.had = scan.had
        /\ scan'.incomplete = scan.incomplete
        /\ entries' = Evict
    BY <1>1, <1>5 DEF EndWalk, ScanType
  <2>2. QED BY <2>1 DEF Evict
<1>6. CASE Publish
  <2>1. scan'.at \in {"idle", "exited"}
    BY <1>1, <1>6 DEF Publish, Done, ScanType
  <2>2. QED BY <2>1
<1>7. CASE WorkerExits
  BY <1>1, <1>7 DEF WorkerExits, ScanType
<1>8. ASSUME NEW f \in Files, Create(f) PROVE WalkInv'
  <2>1. /\ scan'.had = scan.had \cup {f} /\ scan'.at = scan.at
        /\ scan'.paths = scan.paths /\ scan'.unlisted = scan.unlisted
        /\ scan'.incomplete = scan.incomplete /\ UNCHANGED entries
    BY <1>1, <1>8 DEF Create, ScanType
  <2>2. There' \subseteq There \cup {f} BY <1>8 DEF Create, IInv, IndexTypeOK
  <2>3. QED BY <2>1, <2>2
<1>9. CASE Wipe \/ \E f \in Files : DeleteFile(f) \/ Remove(f)
  <2>1. There' \subseteq There /\ UNCHANGED <<scan, entries>>
    BY <1>9 DEF Wipe, DeleteFile, Remove, IInv, IndexTypeOK
  <2>2. QED BY <2>1
<1>10. CASE \/ RefreshIndex \/ RefreshAndWait \/ WaitReturns \/ WaitTimesOut
            \/ BeginRead \/ EndRead \/ Invalidate \/ InvalidateAll \/ Close
            \/ UNCHANGED indexVars
  BY <1>10 DEF RefreshIndex, RefreshAndWait, WaitReturns, WaitTimesOut, BeginRead,
     EndRead, Invalidate, InvalidateAll, Close, indexVars
<1>11. QED
  BY <1>2, <1>3, <1>4, <1>5, <1>6, <1>7, <1>8, <1>9, <1>10 DEF IndexNext, Worker

\* The sessions of a generation that a walk publishes all existed while it
\* ran: CodexIndex._refresh evicts what it did not list, and the worker
\* publishes no generation of a walk that could not list everything.
THEOREM RemovedAreEvicted == IndexSpec => WalkEvicts
<1>1. IndexInit => WalkInv BY DEF IndexInit, NoScan, WalkInv
<1>2. IndexSpec => []WalkInv BY <1>1, WalkStep, Inductive, PTL DEF IndexSpec
<1>3. IInv /\ WalkInv /\ [IndexNext]_indexVars =>
        [pub'.generation # pub.generation /\ scan.unlisted = {}
           => pub'.sessions \subseteq scan.had]_indexVars
  <2> SUFFICES ASSUME IInv, WalkInv, IndexNext, pub'.generation # pub.generation,
                      scan.unlisted = {}
               PROVE  pub'.sessions \subseteq scan.had
    BY DEF indexVars
  <2>1. CASE Publish
    <3>1. /\ scan.at = "publish" /\ ~scan.incomplete
          /\ pub'.sessions = entries
      BY <2>1 DEF IInv, IndexTypeOK, PubType, Publish, Usable
    <3>2. QED BY <3>1 DEF WalkInv
  <2>2. CASE Invalidate
    BY <2>2 DEF IInv, IndexTypeOK, PubType, Invalidate
  <2>3. CASE ~Publish /\ ~Invalidate
    <3>1. UNCHANGED pub
      BY <2>3 DEF IndexNext, Worker, RefreshIndex, RefreshAndWait, WaitReturns,
         WaitTimesOut, BeginRead, EndRead, InvalidateAll, Close, Wipe, Take,
         EndWalk, WorkerExits, List, Read, DeleteFile, Create, Remove
    <3>2. QED BY <3>1
  <2>4. QED BY <2>1, <2>2, <2>3
<1>4. QED BY <1>2, <1>3, Inductive, PTL DEF IndexSpec, WalkEvicts


(***************************************************************************)
(* The workspace.  A handler is an operator from a workspace record to the *)
(* set of records it may leave, so there is one lemma per operator, from    *)
(* the single tmux call to the whole handler: what every outcome keeps and, *)
(* when no call failed and no profile was applied (Calm), what it does to   *)
(* the layout.                                                             *)
(***************************************************************************)

Workspaces ==
    [layout : Layouts, presentation : {"wide", "compact"},
     page : Pages, target : Slots, slots : [Slots -> Slot],
     collapsed : Named, adaptive : View,
     failedAt : Sizes \cup {None}, profile : Profiles \cup {"none"},
     focus : BOOLEAN, active : Pages, zoomed : BOOLEAN,
     running : SUBSET Agents, alive : SUBSET Agents,
     faults : 0 .. MaxFaults, ok : BOOLEAN]

\* What a step leaves alone, unless it is about the layout; a call may fail.
Kept(w, v) ==
    /\ v \in Workspaces
    /\ v.layout = w.layout /\ v.adaptive = w.adaptive /\ v.profile = w.profile
    /\ v.presentation = w.presentation /\ v.alive = w.alive /\ v.running = w.running
    /\ v.faults >= w.faults

\* A live pane names no dead agent.
Sound(alive, x) == x.pane = "live" => x.agent \in alive \cup {None}
Fit(w, s, x) == Sound(w.alive, w.slots[s]) => Sound(w.alive, x)

\* A step that moves the focus, and a step that works on one slot: it empties it, or
\* leaves its agent, or shows one there that the other slot does not show.
Moved(w, v) == Kept(w, v) /\ v.slots = w.slots
Worked(w, s, v) ==
    /\ Kept(w, v)
    /\ v.slots[Other(s)] = w.slots[Other(s)]
    /\ \/ v.slots[s].agent \in {None, w.slots[s].agent}
       \/ v.slots[s].agent # w.slots[Other(s)].agent
    /\ Fit(w, s, v.slots[s])

-----------------------------------------------------------------------------

LEMMA SlotFacts ==
    /\ "primary" \in Slots /\ "secondary" \in Slots /\ Slots \subseteq Pages
    /\ "primary" # "secondary" /\ "sidebar" \in Pages \ Slots
    /\ Other("primary") = "secondary" /\ Other("secondary") = "primary"
    /\ \A s \in Slots : Other(s) \in Slots /\ Other(s) # s /\ Other(Other(s)) = s
                        /\ \A t \in Slots : t = s \/ t = Other(s)
BY DEF Slots, Pages, Other

LEMMA SlotsOK ==
    /\ None \in Named /\ Closed \in Slot /\ Empty \in Slot
    /\ Closed.agent = None /\ Closed.pane = "none" /\ Closed.history = FALSE
    /\ Empty.agent = None /\ Empty.pane = "live" /\ Empty.history = FALSE
BY DEF Named, Slot, Closed, Empty

LEMMA SlotEdits ==
    ASSUME NEW x \in Slot, NEW a \in Named, NEW y, y = [x EXCEPT !.agent = a]
    PROVE  /\ y \in Slot /\ y.agent = a /\ y.pane = x.pane /\ y.history = x.history
           /\ y.under = x.under
BY DEF Slot

LEMMA FieldTypes ==
    ASSUME NEW w \in Workspaces
    PROVE  /\ w.layout \in Layouts /\ w.presentation \in {"wide", "compact"}
           /\ w.page \in Pages /\ w.target \in Slots /\ w.slots \in [Slots -> Slot]
           /\ w.collapsed \in Named /\ w.adaptive \in View
           /\ w.profile \in Profiles \cup {"none"} /\ w.focus \in BOOLEAN
           /\ w.active \in Pages /\ w.zoomed \in BOOLEAN /\ w.running \in SUBSET Agents
           /\ w.alive \in SUBSET Agents /\ w.faults \in 0 .. MaxFaults /\ w.ok \in BOOLEAN
           /\ \A s \in Slots : w.slots[s] \in Slot /\ w.slots[s].agent \in Named
                               /\ w.slots[s].pane \in {"none", "live", "dead"}
                               /\ w.slots[s].history \in BOOLEAN
                               /\ w.slots[s].under \in Named
BY DEF Workspaces, Slot

LEMMA FaultFacts == ASSUME NEW w \in Workspaces PROVE w.faults \in Nat
BY BoundsAssumption DEF Workspaces

LEMMA KeptSelf == ASSUME NEW w \in Workspaces PROVE Moved(w, w)
BY FaultFacts DEF Moved, Kept

LEMMA KeptThrough ==
    ASSUME NEW w \in Workspaces, NEW v, NEW x, Kept(w, v), Kept(v, x) PROVE Kept(w, x)
<1>1. w.faults \in Nat /\ v.faults \in Nat /\ x.faults \in Nat BY FaultFacts DEF Kept
<1>2. QED BY <1>1 DEF Kept
LEMMA MovedThrough ==
    ASSUME NEW w \in Workspaces, NEW v, NEW x, Moved(w, v), Moved(v, x) PROVE Moved(w, x)
BY KeptThrough DEF Moved
LEMMA WorkedThrough ==
    ASSUME NEW w \in Workspaces, NEW s \in Slots, NEW v, NEW x, Worked(w, s, v), Worked(v, s, x)
    PROVE  Worked(w, s, x)
BY KeptThrough DEF Worked, Fit, Kept
LEMMA MovedWorks ==
    ASSUME NEW w, NEW s, NEW v, Moved(w, v) PROVE Worked(w, s, v)
BY DEF Moved, Worked, Fit

LEMMA FitForms ==
    ASSUME NEW w \in Workspaces, NEW s \in Slots, NEW x
    PROVE  /\ x.agent = None \/ x.pane # "live" => Fit(w, s, x)
           /\ x.agent \in w.alive => Fit(w, s, x)
           /\ x.agent = w.slots[s].agent /\ x.pane = w.slots[s].pane => Fit(w, s, x)
           /\ Fit(w, s, Closed) /\ Fit(w, s, Empty)
BY DEF Fit, Sound, Closed, Empty

-----------------------------------------------------------------------------

LEMMA Edits ==
    ASSUME NEW w \in Workspaces, NEW p \in Pages, NEW s \in Slots, NEW b \in BOOLEAN,
           NEW a \in Named, NEW z \in Sizes \cup {None}
    PROVE  /\ Moved(w, [w EXCEPT !.page = p]) /\ Moved(w, [w EXCEPT !.target = s])
           /\ Moved(w, [w EXCEPT !.focus = b]) /\ Moved(w, [w EXCEPT !.active = p])
           /\ Moved(w, [w EXCEPT !.zoomed = b]) /\ Moved(w, [w EXCEPT !.ok = b])
           /\ Moved(w, [w EXCEPT !.collapsed = a]) /\ Moved(w, [w EXCEPT !.failedAt = z])
<1>1. /\ [w EXCEPT !.page = p] \in Workspaces /\ [w EXCEPT !.target = s] \in Workspaces
      /\ [w EXCEPT !.focus = b] \in Workspaces /\ [w EXCEPT !.active = p] \in Workspaces
      /\ [w EXCEPT !.zoomed = b] \in Workspaces /\ [w EXCEPT !.ok = b] \in Workspaces
      /\ [w EXCEPT !.collapsed = a] \in Workspaces
      /\ [w EXCEPT !.failedAt = z] \in Workspaces
  BY DEF Workspaces
<1>2. PICK f \in Nat : f = w.faults BY FaultFacts
<1>3. f >= f BY <1>2
<1>4. QED BY <1>1, <1>2, <1>3, Zenon DEF Workspaces, Moved, Kept

LEMMA FailOK ==
    ASSUME NEW w \in Workspaces, NEW x \in Fail(w)
    PROVE  Moved(w, x) /\ x.faults = w.faults + 1 /\ x.faults > w.faults /\ ~x.ok
<1>1. w.faults # MaxFaults /\ x = [w EXCEPT !.faults = w.faults + 1, !.ok = FALSE]
  BY Zenon DEF Fail
<1>2. PICK f \in 0 .. MaxFaults : f = w.faults + 1 BY <1>1, BoundsAssumption DEF Workspaces
<1>3. w.faults \in Nat BY FaultFacts
<1>4. x = [w EXCEPT !.faults = f, !.ok = FALSE] BY <1>1, <1>2
<1>5. x \in Workspaces /\ x.faults = f /\ ~x.ok BY <1>4 DEF Workspaces
<1>6. QED BY <1>2, <1>3, <1>4, <1>5 DEF Moved, Kept, Workspaces

LEMMA SetSlotOK ==
    ASSUME NEW w \in Workspaces, NEW s \in Slots, NEW x \in Slot
    PROVE  /\ Kept(w, SetSlot(w, s, x)) /\ SetSlot(w, s, x).slots[s] = x
           /\ SetSlot(w, s, x).slots[Other(s)] = w.slots[Other(s)]
           /\ SetSlot(w, s, x).faults = w.faults
           /\ SetSlot(w, s, x).target = w.target /\ SetSlot(w, s, x).collapsed = w.collapsed
           /\ x.agent \in {None, w.slots[s].agent} /\ Fit(w, s, x)
                => Worked(w, s, SetSlot(w, s, x))
           /\ x.agent # w.slots[Other(s)].agent /\ Fit(w, s, x)
                => Worked(w, s, SetSlot(w, s, x))
<1>1. PICK v : v = SetSlot(w, s, x) OBVIOUS
<1>2. v = [w EXCEPT !.slots = [w.slots EXCEPT ![s] = x]] BY <1>1 DEF SetSlot
<1>3. PICK f \in [Slots -> Slot] : f = [w.slots EXCEPT ![s] = x] BY FieldTypes
<1>4. v = [w EXCEPT !.slots = f] BY <1>2, <1>3
<1>5. v \in Workspaces /\ v.slots = f BY <1>4 DEF Workspaces
<1>6. f[s] = x /\ f[Other(s)] = w.slots[Other(s)] BY <1>3, FieldTypes, SlotFacts
<1>7. Kept(w, v) /\ v.faults = w.faults /\ v.target = w.target /\ v.collapsed = w.collapsed
  BY <1>4, <1>5, FaultFacts DEF Kept, Workspaces
<1>8. QED BY <1>1, <1>5, <1>6, <1>7 DEF Worked

LEMMA ZoomOK ==
    ASSUME NEW w \in Workspaces, NEW b \in BOOLEAN PROVE Moved(w, [w EXCEPT !.zoomed = b])
<1>1. "sidebar" \in Pages /\ "primary" \in Slots /\ None \in Named /\ None \in Sizes \cup {None}
  BY DEF Pages, Slots, Named
<1>2. QED BY <1>1, Edits

LEMMA YesOK ==
    ASSUME NEW w \in Workspaces
    PROVE  /\ Moved(w, Yes(w)) /\ Yes(w).ok /\ Yes(w).faults = w.faults
           /\ Moved(w, No(w)) /\ ~No(w).ok /\ No(w).faults = w.faults
           /\ Yes(w).target = w.target /\ No(w).target = w.target
           /\ Yes(w).collapsed = w.collapsed /\ No(w).collapsed = w.collapsed
           /\ Yes(w).focus = w.focus /\ No(w).focus = w.focus
<1>1. Moved(w, Yes(w)) /\ Moved(w, No(w)) BY Edits, FieldTypes DEF Yes, No, Slots, Pages, Named
<1>2. QED BY <1>1 DEF Workspaces, Yes, No

LEMMA PaneEdits ==
    ASSUME NEW w \in Workspaces, NEW p \in Pages, NEW z \in BOOLEAN
    PROVE  /\ Moved(w, [w EXCEPT !.zoomed = z, !.active = p])
           /\ Moved(w, [w EXCEPT !.active = p, !.zoomed = z])
           /\ [w EXCEPT !.zoomed = z, !.active = p].faults = w.faults
           /\ [w EXCEPT !.active = p, !.zoomed = z].faults = w.faults
<1>1. /\ [w EXCEPT !.zoomed = z, !.active = p] \in Workspaces
      /\ [w EXCEPT !.active = p, !.zoomed = z] \in Workspaces
  BY DEF Workspaces
<1>2. PICK f \in Nat : f = w.faults BY FaultFacts
<1>3. f >= f BY <1>2
<1>4. QED BY <1>1, <1>2, <1>3, Zenon DEF Workspaces, Moved, Kept

LEMMA LoseOK ==
    ASSUME NEW w \in Workspaces, NEW s \in Slots, NEW x \in Slot, NEW v \in Lose(w, s, x)
    PROVE  /\ Kept(w, v) /\ v.slots[s] = x /\ v.slots[Other(s)] = w.slots[Other(s)]
           /\ v.faults = w.faults
           /\ x.agent \in {None, w.slots[s].agent} /\ Fit(w, s, x) => Worked(w, s, v)
           /\ x.agent # w.slots[Other(s)].agent /\ Fit(w, s, x) => Worked(w, s, v)
<1>1. PICK u : u = SetSlot(w, s, x) OBVIOUS
<1>2. /\ Kept(w, u) /\ u.slots[s] = x /\ u.slots[Other(s)] = w.slots[Other(s)]
      /\ u.faults = w.faults
  BY <1>1, SetSlotOK
<1>3. u \in Workspaces BY <1>2 DEF Kept
<1>4. PICK p \in Pages : v = [u EXCEPT !.zoomed = FALSE, !.active = p]
  BY <1>1, FieldTypes DEF Lose
<1>5. Moved(u, v) /\ v.faults = u.faults BY <1>3, <1>4, PaneEdits
<1>6. Kept(w, v) /\ v.slots = u.slots BY <1>2, <1>5, KeptThrough DEF Moved
<1>7. QED BY <1>2, <1>5, <1>6 DEF Worked

LEMMA SelectOK ==
    ASSUME NEW w \in Workspaces, NEW p \in Pages
    PROVE  Moved(w, Select(w, p)) /\ Select(w, p).faults = w.faults
<1>1. PICK z \in BOOLEAN : z = (w.zoomed /\ w.active = p) BY FieldTypes
<1>2. Select(w, p) = w \/ Select(w, p) = [w EXCEPT !.active = p, !.zoomed = z]
  BY <1>1 DEF Select
<1>3. PICK u : u = [w EXCEPT !.active = p, !.zoomed = z] OBVIOUS
<1>4. Moved(w, u) /\ u.faults = w.faults BY <1>3, PaneEdits, Zenon
<1>5. Moved(w, w) BY KeptSelf
<1>6. PICK v : v = Select(w, p) OBVIOUS
<1>7. v = w \/ v = u BY <1>2, <1>3, <1>6
<1>8. QED BY <1>4, <1>5, <1>6, <1>7

\* The calls on one slot: on the way out no other agent shows there, and a call that
\* met no failure does what it is asked.
LEMMA CloseSlotOK ==
    ASSUME NEW w \in Workspaces, NEW s \in Slots, NEW v \in CloseSlot(w, s)
    PROVE  /\ Worked(w, s, v)
           /\ v.slots[s].agent \in {None, w.slots[s].agent}
           /\ v.ok \/ v.faults = w.faults => v.ok /\ v.slots[s] = Closed /\ v.faults = w.faults
<1>1. CASE v \in Fail(w)
  <2>1. Moved(w, v) /\ ~v.ok /\ v.faults = w.faults + 1 BY <1>1, FailOK
  <2>2. v.faults # w.faults BY <2>1, FaultFacts
  <2>3. QED BY <2>1, <2>2, MovedWorks DEF Moved
<1>2. CASE v \in Fail(Shows(w, s, None))
  <2>1. PICK u : u = Shows(w, s, None) OBVIOUS
  <2>2. PICK x : x = [w.slots[s] EXCEPT !.agent = None] OBVIOUS
  <2>0. x \in Slot /\ x.agent = None /\ Fit(w, s, x)
    <3>1. w.slots[s] \in Slot BY FieldTypes
    <3>2. x \in Slot /\ x.agent = None BY <2>2, <3>1, SlotEdits, SlotsOK
    <3>3. QED BY <3>2, FitForms
  <2>3. u = SetSlot(w, s, x) BY <2>1, <2>2 DEF Shows
  <2>4. Worked(w, s, u) /\ u.slots[s] = x /\ u.faults = w.faults BY <2>0, <2>3, SetSlotOK
  <2>5. u \in Workspaces BY <2>4 DEF Worked, Kept
  <2>6. Moved(u, v) /\ ~v.ok /\ v.faults = u.faults + 1 BY <1>2, <2>1, <2>5, FailOK
  <2>7. Worked(w, s, v) BY <2>4, <2>5, <2>6, MovedWorks, WorkedThrough
  <2>8. v.faults # w.faults BY <2>4, <2>5, <2>6, FaultFacts
  <2>9. QED BY <2>0, <2>4, <2>6, <2>7, <2>8 DEF Moved
<1>3. ASSUME NEW u \in Workspaces, v = Yes(u), Worked(w, s, u), u.slots[s] = Closed,
             u.faults = w.faults
      PROVE  Worked(w, s, v) /\ v.ok /\ v.slots[s] = Closed /\ v.faults = w.faults
  BY <1>3, YesOK, MovedWorks, WorkedThrough DEF Moved
<1>4. ASSUME NEW u, v = Yes(u), u \in Lose(w, s, Closed) \/ u = SetSlot(w, s, Closed)
      PROVE  Worked(w, s, v) /\ v.ok /\ v.slots[s] = Closed /\ v.faults = w.faults
  <2>1. /\ Worked(w, s, u) /\ u.slots[s] = Closed /\ u.faults = w.faults
    BY <1>4, LoseOK, SetSlotOK, SlotsOK, FitForms
  <2>2. QED BY <1>3, <1>4, <2>1 DEF Worked, Kept
<1>5. QED BY <1>1, <1>2, <1>4, SlotsOK DEF CloseSlot

-----------------------------------------------------------------------------

LEMMA WorkFails ==
    ASSUME NEW w \in Workspaces, NEW s \in Slots, NEW u, Worked(w, s, u),
           u.faults = w.faults, NEW v \in Fail(u)
    PROVE  Worked(w, s, v) /\ ~v.ok /\ v.faults # w.faults /\ v.slots = u.slots
<1>1. u \in Workspaces BY DEF Worked, Kept
<1>2. Moved(u, v) /\ ~v.ok /\ v.faults = u.faults + 1 BY <1>1, FailOK
<1>3. v.faults # w.faults BY <1>1, <1>2, FaultFacts
<1>4. QED BY <1>2, <1>3, MovedWorks, WorkedThrough DEF Moved

LEMMA WorkDone ==
    ASSUME NEW w \in Workspaces, NEW s \in Slots, NEW u, Worked(w, s, u)
    PROVE  /\ Worked(w, s, Yes(u)) /\ Yes(u).ok /\ Yes(u).slots = u.slots
           /\ Worked(w, s, No(u)) /\ ~No(u).ok /\ No(u).slots = u.slots
           /\ Yes(u).faults = u.faults /\ No(u).faults = u.faults
<1>1. u \in Workspaces BY DEF Worked, Kept
<1>2. QED BY <1>1, YesOK, MovedWorks, WorkedThrough DEF Moved

LEMMA WorkSelf == ASSUME NEW w \in Workspaces, NEW s \in Slots PROVE Worked(w, s, w)
BY KeptSelf, MovedWorks

LEMMA ShowsOK ==
    ASSUME NEW w \in Workspaces, NEW s \in Slots, NEW u, u = Shows(w, s, None)
    PROVE  /\ Worked(w, s, u) /\ u.faults = w.faults /\ u.slots[s].agent = None
           /\ u.slots[s].pane = w.slots[s].pane
<1>1. PICK x : x = [w.slots[s] EXCEPT !.agent = None] OBVIOUS
<1>2. w.slots[s] \in Slot BY FieldTypes
<1>3. x \in Slot /\ x.agent = None /\ x.pane = w.slots[s].pane
  BY <1>1, <1>2, SlotEdits, SlotsOK
<1>4. u = SetSlot(w, s, x) BY <1>1 DEF Shows
<1>5. Fit(w, s, x) BY <1>3, FitForms
<1>6. QED BY <1>3, <1>4, <1>5, SetSlotOK

LEMMA ResetSlotOK ==
    ASSUME NEW w \in Workspaces, NEW s \in Slots, NEW v \in ResetSlot(w, s)
    PROVE  /\ Worked(w, s, v)
           /\ v.slots[s].agent \in {None, w.slots[s].agent}
           /\ v.ok => v.slots[s] = Empty
           /\ v.faults = w.faults /\ Live(w, s) => v.ok
<1>1. CASE ~Live(w, s) BY <1>1, WorkSelf, WorkDone DEF ResetSlot
<1>2. CASE v \in Fail(w) BY <1>2, WorkSelf, WorkFails
<1>3. CASE v \in Fail(Shows(w, s, None))
  <2>1. PICK u : u = Shows(w, s, None) OBVIOUS
  <2>2. Worked(w, s, u) /\ u.faults = w.faults /\ u.slots[s].agent = None BY <2>1, ShowsOK
  <2>3. QED BY <1>3, <2>1, <2>2, WorkFails
<1>4. CASE v = Yes(Emptied(w, s))
  <2>1. PICK u : u = SetSlot(w, s, Empty) OBVIOUS
  <2>2. Worked(w, s, u) /\ u.slots[s] = Empty BY <2>1, SetSlotOK, SlotsOK, FitForms
  <2>3. v = Yes(u) BY <1>4, <2>1 DEF Emptied
  <2>4. QED BY <2>2, <2>3, WorkDone, SlotsOK
<1>5. QED BY <1>1, <1>2, <1>3, <1>4 DEF ResetSlot

LEMMA DisplayOK ==
    ASSUME NEW w \in Workspaces, NEW s \in Slots, NEW a \in Agents, CanDisplay(w, s, a),
           NEW v \in Display(w, s, a)
    PROVE  /\ Worked(w, s, v)
           /\ v.faults = w.faults => /\ v.slots[s].agent = a
                                     /\ v.slots[s].history = w.slots[s].history
                                     /\ a \in w.alive => v.slots[s].pane = "live"
<1> DEFINE shown == [w.slots[s] EXCEPT !.agent = a,
                                       !.pane = IF a \in w.alive THEN "live" ELSE "dead"]
           bare == [w.slots[s] EXCEPT !.pane = "none"]
<1>1. /\ shown \in Slot /\ shown.agent = a /\ (a \in w.alive => shown.pane = "live")
      /\ a \notin w.alive => shown.pane # "live"
      /\ shown.history = w.slots[s].history
      /\ bare \in Slot /\ bare.agent = w.slots[s].agent /\ bare.pane = "none"
  <2>1. w.slots[s] \in Slot BY FieldTypes
  <2>2. QED BY <2>1 DEF Slot, Named
<1>2. PICK x, b : x = shown /\ b = bare OBVIOUS
<1>3. /\ x \in Slot /\ x.agent = a /\ (a \in w.alive => x.pane = "live")
      /\ a \notin w.alive => x.pane # "live"
      /\ x.history = w.slots[s].history
  BY <1>1, <1>2
<1>0. Fit(w, s, x) BY <1>3, FitForms
<1>4. x.agent # w.slots[Other(s)].agent BY <1>3 DEF CanDisplay
<1>5. CASE v \in Fail(w) BY <1>5, WorkSelf, WorkFails
<1>6. CASE v \in Fail(Shows(w, s, None))
  <2>1. PICK u : u = Shows(w, s, None) OBVIOUS
  <2>2. Worked(w, s, u) /\ u.faults = w.faults BY <2>1, ShowsOK
  <2>3. QED BY <1>6, <2>1, <2>2, WorkFails
<1>7. CASE v \in Fail(SetSlot(w, s, b))
  <2>1. PICK u : u = SetSlot(w, s, b) OBVIOUS
  <2>2. b \in Slot /\ b.agent = w.slots[s].agent /\ b.pane = "none" BY <1>1, <1>2
  <2>5. Fit(w, s, b) BY <2>2, FitForms
  <2>3. Worked(w, s, u) /\ u.faults = w.faults BY <2>1, <2>2, <2>5, SetSlotOK
  <2>4. QED BY <1>7, <2>1, <2>3, WorkFails
<1>8. ASSUME NEW z \in BOOLEAN, NEW y, y = [SetSlot(w, s, x) EXCEPT !.zoomed = z],
             v = Yes(y) \/ v \in Fail(y)
      PROVE  Worked(w, s, v) /\ (v.faults = w.faults => v.slots[s] = x)
  <2>1. PICK u : u = SetSlot(w, s, x) OBVIOUS
  <2>2. Worked(w, s, u) /\ u.slots[s] = x /\ u.faults = w.faults
    BY <1>0, <1>3, <1>4, <2>1, SetSlotOK
  <2>3. u \in Workspaces BY <2>2 DEF Worked, Kept
  <2>4. y = [u EXCEPT !.zoomed = z] BY <1>8, <2>1
  <2>5. Moved(u, y) BY <2>3, <2>4, ZoomOK
  <2>6. y.faults = u.faults BY <2>3, <2>4 DEF Workspaces
  <2>7. Worked(w, s, y) /\ y.slots = u.slots
    BY <2>2, <2>3, <2>5, MovedWorks, WorkedThrough DEF Moved
  <2>8. CASE v = Yes(y) BY <2>2, <2>7, <2>8, WorkDone
  <2>9. CASE v \in Fail(y) BY <2>2, <2>6, <2>7, <2>9, WorkFails
  <2>10. QED BY <1>8, <2>8, <2>9
<1>9. ASSUME NEW u \in Lose(w, s, x), v = Yes(u)
      PROVE  Worked(w, s, v) /\ v.slots[s] = x
  <2>1. Worked(w, s, u) /\ u.slots[s] = x BY <1>0, <1>3, <1>4, <1>9, LoseOK
  <2>2. QED BY <1>9, <2>1, WorkDone
<1>10. \/ v \in Fail(w) \/ v \in Fail(Shows(w, s, None)) \/ v \in Fail(SetSlot(w, s, b))
       \/ \E z \in BOOLEAN : \/ v = Yes([SetSlot(w, s, x) EXCEPT !.zoomed = z])
                             \/ v \in Fail([SetSlot(w, s, x) EXCEPT !.zoomed = z])
       \/ \E u \in Lose(w, s, x) : v = Yes(u)
  BY <1>2, FieldTypes DEF Display
<1>11. QED BY <1>3, <1>5, <1>6, <1>7, <1>8, <1>9, <1>10

LEMMA ShowTranscriptOK ==
    ASSUME NEW w \in Workspaces, NEW s \in Slots, NEW under \in Named,
           NEW v \in ShowTranscript(w, s, under)
    PROVE  /\ Worked(w, s, v)
           /\ v.slots[s].agent \in {None, w.slots[s].agent}
           /\ v.faults = w.faults /\ w.slots[s].pane # "dead" =>
                 /\ v.ok /\ v.slots[s] = [pane |-> "live", agent |-> None, history |-> TRUE,
                                          under |-> under]
<1>1. PICK x : x = [pane |-> "live", agent |-> None, history |-> TRUE, under |-> under] OBVIOUS
<1>2. x \in Slot /\ x.agent = None BY <1>1, SlotsOK DEF Slot
<1>3. CASE w.slots[s].pane = "dead" /\ v = No(w) BY <1>3, WorkSelf, WorkDone
<1>4. CASE v \in Fail(w) BY <1>4, WorkSelf, WorkFails
<1>5. CASE v \in Fail(Shows(w, s, None))
  <2>1. PICK u : u = Shows(w, s, None) OBVIOUS
  <2>2. Worked(w, s, u) /\ u.faults = w.faults /\ u.slots[s].agent = None BY <2>1, ShowsOK
  <2>3. QED BY <1>5, <2>1, <2>2, WorkFails
<1>6. ASSUME NEW z \in BOOLEAN, v = Yes([SetSlot(w, s, x) EXCEPT !.zoomed = z])
      PROVE  Worked(w, s, v) /\ v.slots[s] = x /\ v.ok
  <2>1. PICK u, y : u = SetSlot(w, s, x) /\ y = [u EXCEPT !.zoomed = z] OBVIOUS
  <2>2. Worked(w, s, u) /\ u.slots[s] = x BY <1>2, <2>1, SetSlotOK, FitForms
  <2>3. u \in Workspaces BY <2>2 DEF Worked, Kept
  <2>4. Moved(u, y) BY <2>1, <2>3, ZoomOK
  <2>5. Worked(w, s, y) /\ y.slots = u.slots BY <2>2, <2>3, <2>4, MovedWorks, WorkedThrough DEF Moved
  <2>6. v = Yes(y) BY <1>6, <2>1, Zenon
  <2>7. QED BY <2>2, <2>5, <2>6, WorkDone
<1>7. \/ w.slots[s].pane = "dead" /\ v = No(w)
      \/ v \in Fail(w) \/ v \in Fail(Shows(w, s, None))
      \/ v = Yes([SetSlot(w, s, x) EXCEPT !.zoomed = SetSlot(w, s, x).zoomed /\ Live(w, s)])
  BY <1>1 DEF ShowTranscript
<1>8. QED
  <2>1. ASSUME v = Yes([SetSlot(w, s, x) EXCEPT !.zoomed = SetSlot(w, s, x).zoomed /\ Live(w, s)])
        PROVE  Worked(w, s, v) /\ v.slots[s] = x /\ v.ok
    BY <1>6, <2>1
  <2>2. QED BY <1>1, <1>2, <1>3, <1>4, <1>5, <1>7, <2>1

LEMMA ReplaceSlotContentOK ==
    ASSUME NEW w \in Workspaces, NEW s \in Slots, NEW c \in Content,
           NEW v \in ReplaceSlotContent(w, s, c)
    PROVE  /\ Worked(w, s, v)
           /\ v.faults = w.faults /\ Live(w, s) => Live(v, s)
<1>1. s # "sidebar" BY SlotFacts
<1>2. c.kind \in {"empty", "agent", "preview"} BY DEF Content
<1>3. CASE c.kind = "empty"
  <2>1. v \in ResetSlot(w, s) BY <1>3 DEF ReplaceSlotContent
  <2>2. QED BY <2>1, ResetSlotOK, SlotsOK DEF Live
<1>4. CASE c.kind = "agent"
  <2>1. CASE v = No(w) BY <2>1, WorkSelf, WorkDone DEF Live
  <2>2. CASE c.agent \in Agents /\ c.agent \in w.alive /\ CanDisplay(w, s, c.agent)
             /\ v \in Display(w, s, c.agent)
    <3>1. PICK a \in Agents : a = c.agent BY <2>2
    <3>2. CanDisplay(w, s, a) /\ v \in Display(w, s, a) /\ a \in w.alive BY <2>2, <3>1
    <3>3. Worked(w, s, v) /\ (v.faults = w.faults => v.slots[s].pane = "live")
      BY <3>2, DisplayOK
    <3>4. QED BY <3>3 DEF Live
  <2>3. QED BY <1>4, <2>1, <2>2, FieldTypes DEF ReplaceSlotContent, AttachQuiet, Represented
<1>5. CASE c.kind = "preview"
  <2>1. PICK under : under = IF Represented(w, c.agent) THEN c.agent ELSE None OBVIOUS
  <2>2. under \in Named BY <2>1, FieldTypes DEF Represented, Named
  <2>3. v = No(w) \/ v \in ShowTranscript(w, s, under)
    BY <1>5, <2>1 DEF ReplaceSlotContent
  <2>4. ASSUME v \in ShowTranscript(w, s, under)
        PROVE  /\ Worked(w, s, v)
               /\ v.faults = w.faults /\ w.slots[s].pane # "dead" => v.slots[s].pane = "live"
    <3>1. PICK x : x = [pane |-> "live", agent |-> None, history |-> TRUE, under |-> under]
      OBVIOUS
    <3>2. Worked(w, s, v) /\ (v.faults = w.faults /\ w.slots[s].pane # "dead" => v.slots[s] = x)
      BY <2>2, <2>4, <3>1, ShowTranscriptOK
    <3>3. x.pane = "live" BY <3>1
    <3>4. QED BY <3>2, <3>3
  <2>5. CASE v = No(w) BY <2>5, WorkSelf, WorkDone DEF Live
  <2>6. QED BY <1>1, <2>3, <2>4, <2>5 DEF Live
<1>6. QED BY <1>2, <1>3, <1>4, <1>5

-----------------------------------------------------------------------------

LEMMA SelectWorkspacePageOK ==
    ASSUME NEW w \in Workspaces, NEW p \in Pages, NEW v \in SelectWorkspacePage(w, p)
    PROVE  Moved(w, v)
<1>1. CASE v = No(w) BY <1>1, YesOK
<1>2. CASE v \in Fail(w) BY <1>2, FailOK
<1>3. CASE v \in Fail([w EXCEPT !.zoomed = FALSE])
  <2>1. PICK u : u = [w EXCEPT !.zoomed = FALSE] OBVIOUS
  <2>2. Moved(w, u) BY <2>1, ZoomOK
  <2>3. u \in Workspaces BY <2>2 DEF Moved, Kept
  <2>4. Moved(u, v) BY <1>3, <2>1, <2>3, FailOK
  <2>5. QED BY <2>2, <2>4, MovedThrough
<1>4. ASSUME NEW u, v = Yes(u), NEW t \in Slots, NEW f \in BOOLEAN,
             u = [w EXCEPT !.active = p, !.zoomed = TRUE, !.page = p, !.target = t,
                           !.focus = f]
      PROVE  Moved(w, v)
  <2>1. u \in Workspaces BY <1>4 DEF Workspaces
  <2>2. PICK f0 \in Nat : f0 = w.faults BY FaultFacts
  <2>3. f0 >= f0 BY <2>2
  <2>4. Moved(w, u) BY <1>4, <2>1, <2>2, <2>3, Zenon DEF Workspaces, Moved, Kept
  <2>5. QED BY <1>4, <2>1, <2>4, YesOK, MovedThrough
<1>5. PICK t, f : t = (IF p = "sidebar" THEN w.target ELSE p) /\ f = (p = "sidebar") OBVIOUS
<1>6. t \in Slots /\ f \in BOOLEAN BY <1>5, FieldTypes DEF Pages
<1>7. PICK u : u = [w EXCEPT !.active = p, !.zoomed = TRUE, !.page = p, !.target = t,
                           !.focus = f] OBVIOUS
<1>8. v = Yes(u) => Moved(w, v) BY <1>4, <1>6, <1>7
<1>9. v = No(w) \/ v \in Fail(w) \/ v \in Fail([w EXCEPT !.zoomed = FALSE]) \/ v = Yes(u)
  BY <1>5, <1>7, Zenon DEF SelectWorkspacePage
<1>10. QED BY <1>1, <1>2, <1>3, <1>8, <1>9

LEMMA RestoreCompactPageOK ==
    ASSUME NEW w \in Workspaces, NEW v \in RestoreCompactPage(w) PROVE Moved(w, v)
<1>1. PICK p : p = IF w.page = "sidebar" \/ w.slots[w.page].pane # "none" THEN w.page
                   ELSE IF w.slots["primary"].pane # "none" THEN "primary"
                   ELSE "sidebar"
  OBVIOUS
<1>2. p \in Pages BY <1>1, FieldTypes DEF Pages, Slots
<1>3. v = Yes(w) \/ v \in SelectWorkspacePage(w, p) BY <1>1 DEF RestoreCompactPage
<1>4. QED BY <1>2, <1>3, SelectWorkspacePageOK, YesOK

LEMMA ReconcileFocusOK ==
    ASSUME NEW w \in Workspaces, NEW v \in ReconcileFocusFromTmux(w)
    PROVE  Moved(w, v) /\ v.faults = w.faults
<1>1. PICK pg : pg = IF w.presentation = "compact" THEN w.active ELSE w.page OBVIOUS
<1>2. pg \in Pages BY <1>1, FieldTypes
<1>3. PICK u : u = [w EXCEPT !.page = pg] OBVIOUS
<1>4. u \in Workspaces BY <1>2, <1>3 DEF Workspaces
<1>5. PICK f0 \in Nat : f0 = w.faults BY FaultFacts
<1>6. f0 >= f0 BY <1>5
<1>7. Moved(w, u) /\ u.faults = w.faults
  BY <1>3, <1>4, <1>5, <1>6, Zenon DEF Workspaces, Moved, Kept
<1>8. v = u \/ \E t \in Slots, f \in BOOLEAN : \/ v = [u EXCEPT !.target = t, !.focus = f]
                                              \/ v = [u EXCEPT !.focus = f, !.target = t]
  <2>1. CASE w.active # "sidebar"
    <3>1. v = [u EXCEPT !.target = w.active, !.focus = FALSE]
      BY <1>1, <1>3, <2>1 DEF ReconcileFocusFromTmux
    <3>2. w.active \in Slots BY <2>1, FieldTypes DEF Pages
    <3>3. QED BY <3>1, <3>2
  <2>2. CASE w.active = "sidebar" /\ w.focus
    BY <1>1, <1>3, <2>2 DEF ReconcileFocusFromTmux
  <2>3. CASE w.active = "sidebar" /\ ~w.focus
    <3>1. PICK t \in {w.target} \cup {s \in Slots : Live(w, s)} :
               v = [u EXCEPT !.focus = TRUE, !.target = t]
      BY <1>1, <1>3, <2>3 DEF ReconcileFocusFromTmux
    <3>2. t \in Slots BY FieldTypes
    <3>3. QED BY <3>1, <3>2
  <2>4. QED BY <2>1, <2>2, <2>3
<1>9. ASSUME NEW t \in Slots, NEW f \in BOOLEAN,
             v = [u EXCEPT !.target = t, !.focus = f] \/ v = [u EXCEPT !.focus = f, !.target = t]
      PROVE  Moved(u, v) /\ v.faults = u.faults
  <2>1. v \in Workspaces
    <3>1. [u EXCEPT !.target = t, !.focus = f] \in Workspaces BY <1>4 DEF Workspaces
    <3>2. [u EXCEPT !.focus = f, !.target = t] \in Workspaces BY <1>4 DEF Workspaces
    <3>3. QED BY <1>9, <3>1, <3>2
  <2>2. PICK f1 \in Nat : f1 = u.faults BY <1>4, FaultFacts
  <2>3. f1 >= f1 BY <2>2
  <2>4. QED BY <1>4, <1>9, <2>1, <2>2, <2>3, Zenon DEF Workspaces, Moved, Kept
<1>10. QED BY <1>4, <1>7, <1>8, <1>9, MovedThrough, KeptSelf

LEMMA CreatePrimaryOK ==
    ASSUME NEW w \in Workspaces, NEW v \in CreatePrimary(w)
    PROVE  /\ Worked(w, "primary", v)
           /\ v.faults = w.faults => v.ok
           /\ v.ok => Live(v, "primary") /\ (~Live(w, "primary") => v.slots["primary"] = Empty)
<1> DEFINE s == "primary"
<1>1. s \in Slots /\ s # "sidebar" BY SlotFacts
<1>2. CASE Live(w, s) /\ v = Yes(w) BY <1>1, <1>2, WorkSelf, WorkDone DEF Live
<1>3. CASE v \in Fail(SetSlot(w, s, Closed))
  <2>1. PICK u : u = SetSlot(w, s, Closed) OBVIOUS
  <2>2. Worked(w, s, u) /\ u.faults = w.faults BY <1>1, <2>1, SetSlotOK, SlotsOK, FitForms
  <2>3. QED BY <1>1, <1>3, <2>1, <2>2, WorkFails
<1>4. CASE v = Yes([SetSlot(w, s, Empty) EXCEPT !.zoomed = FALSE])
  <2>1. PICK u, y : u = SetSlot(w, s, Empty) /\ y = [u EXCEPT !.zoomed = FALSE] OBVIOUS
  <2>2. Worked(w, s, u) /\ u.slots[s] = Empty BY <1>1, <2>1, SetSlotOK, SlotsOK, FitForms
  <2>3. u \in Workspaces BY <2>2 DEF Worked, Kept
  <2>4. Moved(u, y) BY <2>1, <2>3, ZoomOK
  <2>5. Worked(w, s, y) /\ y.slots = u.slots
    BY <1>1, <2>2, <2>3, <2>4, MovedWorks, WorkedThrough DEF Moved
  <2>6. v = Yes(y) BY <1>4, <2>1, Zenon
  <2>7. QED BY <1>1, <2>2, <2>5, <2>6, WorkDone, SlotsOK DEF Live
<1>5. QED BY <1>2, <1>3, <1>4 DEF CreatePrimary

\* Pane 2 is built: the layout is then the one it is built for.
Built(w, layout, v) ==
    /\ v \in Workspaces /\ v.layout \in {w.layout, layout}
    /\ v.adaptive = w.adaptive /\ v.profile = w.profile
    /\ v.presentation = w.presentation /\ v.alive = w.alive /\ v.running = w.running
    /\ v.faults >= w.faults
    /\ v.slots["primary"] = w.slots["primary"]
    /\ v.slots["secondary"].agent \in {None, w.slots["secondary"].agent}
    /\ Fit(w, "secondary", v.slots["secondary"])
    /\ v.ok => Live(v, "primary") \/ Live(w, "secondary")
    /\ ~v.ok => v.layout = w.layout
    /\ v.ok /\ ~Live(w, "secondary") => v.layout = layout /\ v.slots["secondary"] = Empty
    /\ v.ok /\ Live(w, "secondary") => v.layout = w.layout /\ v.slots = w.slots
    /\ v.faults = w.faults /\ Live(w, "primary") => v.ok
    /\ ~v.ok => v.slots["secondary"] \in {w.slots["secondary"], Closed}

LEMMA CreateSecondaryOK ==
    ASSUME NEW w \in Workspaces, NEW layout \in Layouts, NEW v \in CreateSecondary(w, layout)
    PROVE  Built(w, layout, v)
<1> DEFINE s == "secondary"
<1>1. s \in Slots /\ s # "sidebar" /\ Other(s) = "primary" BY SlotFacts
<1>2. CASE Live(w, s) /\ v = Yes(w) BY <1>1, <1>2, YesOK DEF Built, Moved, Kept, Fit, Live
<1>3. CASE ~Live(w, s) /\ ~Live(w, "primary") /\ v = No(w)
  BY <1>1, <1>3, YesOK DEF Built, Moved, Kept, Fit, Live
<1>4. CASE v \in Fail(SetSlot(w, s, Closed)) /\ ~Live(w, s)
  <2>1. PICK u : u = SetSlot(w, s, Closed) OBVIOUS
  <2>2. Worked(w, s, u) /\ u.faults = w.faults /\ u.slots[s] = Closed
    BY <1>1, <2>1, SetSlotOK, SlotsOK, FitForms
  <2>3. Worked(w, s, v) /\ ~v.ok /\ v.faults # w.faults /\ v.slots = u.slots
    BY <1>1, <1>4, <2>1, <2>2, WorkFails
  <2>4. QED BY <1>1, <2>2, <2>3, SlotsOK DEF Built, Worked, Kept, Live
<1>5. CASE v = Yes([SetSlot(w, s, Empty) EXCEPT !.layout = layout, !.zoomed = FALSE])
           /\ ~Live(w, s) /\ Live(w, "primary")
  <2>1. PICK u, y : u = SetSlot(w, s, Empty)
                    /\ y = [u EXCEPT !.layout = layout, !.zoomed = FALSE] OBVIOUS
  <2>2. Worked(w, s, u) /\ u.slots[s] = Empty BY <1>1, <2>1, SetSlotOK, SlotsOK, FitForms
  <2>3. u \in Workspaces BY <2>2 DEF Worked, Kept
  <2>4. y \in Workspaces BY <2>1, <2>3 DEF Workspaces
  <2>5. /\ y.layout = layout /\ y.slots = u.slots /\ y.adaptive = u.adaptive
        /\ y.profile = u.profile /\ y.presentation = u.presentation /\ y.alive = u.alive
        /\ y.running = u.running /\ y.faults = u.faults
    BY <2>1, <2>3 DEF Workspaces
  <2>6. v = Yes(y) BY <1>5, <2>1, Zenon
  <2>7. Moved(y, v) /\ v.ok /\ v.faults = y.faults BY <2>4, <2>6, YesOK
  <2>8. v.slots[s] = Empty /\ v.slots["primary"] = w.slots["primary"] /\ v.slots = u.slots
    BY <1>1, <2>2, <2>5, <2>7 DEF Worked, Moved
  <2>9. Fit(w, s, v.slots[s]) /\ Live(v, "primary")
    BY <1>1, <1>5, <2>8, FitForms DEF Live
  <2>10. QED
    BY <1>1, <1>5, <2>2, <2>5, <2>7, <2>8, <2>9, SlotsOK DEF Built, Worked, Moved, Kept
<1>6. QED BY <1>2, <1>3, <1>4, <1>5 DEF CreateSecondary

-----------------------------------------------------------------------------

\* No agent in both slots; what a handler may do to it and to the rest, and what it does
\* when no call fails and the saved profile is not applied.
Once(w) == \A s \in Slots : w.slots[s].agent # None => w.slots[s].agent # w.slots[Other(s)].agent
Lively(w) == \A s \in Slots : Sound(w.alive, w.slots[s])
Later(w, v) ==
    /\ v \in Workspaces
    /\ v.alive = w.alive /\ v.faults >= w.faults /\ v.profile \in {w.profile, "none"}
    /\ Once(w) => Once(v)
    /\ Lively(w) => Lively(v)
Calm(w, v) == v.faults = w.faults /\ v.profile = w.profile

LEMMA LaterThrough ==
    ASSUME NEW w \in Workspaces, NEW x, NEW v, Later(w, x), Later(x, v)
    PROVE  Later(w, v) /\ (Calm(w, v) => Calm(w, x) /\ Calm(x, v))
<1>1. w.faults \in Nat /\ x.faults \in Nat /\ v.faults \in Nat BY FaultFacts DEF Later
<1>2. QED BY <1>1 DEF Later, Calm

LEMMA WorkedLater ==
    ASSUME NEW w \in Workspaces, NEW s \in Slots, NEW v, Worked(w, s, v) PROVE Later(w, v)
<1>1. \A t \in Slots : t = s \/ t = Other(s) BY SlotFacts
<1>2. Once(w) => Once(v) BY <1>1, SlotFacts DEF Once, Worked
<1>3. Lively(w) => Lively(v) BY <1>1, SlotFacts DEF Lively, Worked, Kept, Fit
<1>4. QED BY <1>2, <1>3 DEF Later, Worked, Kept

LEMMA MovedLater == ASSUME NEW w \in Workspaces, NEW v, Moved(w, v) PROVE Later(w, v)
BY DEF Moved, Later, Kept, Once, Lively

LEMMA BuiltLater ==
    ASSUME NEW w \in Workspaces, NEW layout, NEW v, Built(w, layout, v) PROVE Later(w, v)
<1>1. Once(w) => Once(v) BY SlotFacts DEF Once, Built, Slots
<1>2. Lively(w) => Lively(v) BY SlotFacts DEF Lively, Built, Slots, Fit
<1>3. QED BY <1>1, <1>2 DEF Later, Built

LEMMA LogicalKept == ASSUME NEW w, NEW v, Kept(w, v) PROVE Logical(v) = Logical(w)
BY DEF Kept, Logical, Hidden

-----------------------------------------------------------------------------

\* Without a profile nothing is applied; with one, it is gone afterwards.
LEMMA GivenUpOK ==
    ASSUME NEW w \in Workspaces
    PROVE  LET v == [w EXCEPT !.profile = "none"] IN
           /\ v \in Workspaces /\ v.profile = "none" /\ v.adaptive = w.adaptive
           /\ v.presentation = w.presentation /\ v.alive = w.alive /\ v.faults = w.faults
           /\ v.slots = w.slots /\ v.layout = w.layout
<1>1. PICK v : v = [w EXCEPT !.profile = "none"] OBVIOUS
<1>2. v \in Workspaces BY <1>1 DEF Workspaces
<1>3. QED BY <1>1, <1>2 DEF Workspaces

\* The profile is gone in v.
Spent(w, v) == Later(w, v) /\ v.adaptive = w.adaptive /\ v.profile = "none"
Saves(w, v) == Later(w, v) /\ v.adaptive = w.adaptive

LEMMA SpentOK ==
    ASSUME NEW w \in Workspaces, NEW v, Saves(w, v)
    PROVE  /\ Spent(w, Yes([v EXCEPT !.profile = "none"]))
           /\ Spent(w, No([v EXCEPT !.profile = "none"]))
<1>1. v \in Workspaces BY DEF Saves, Later
<1>2. PICK u : u = [v EXCEPT !.profile = "none"] OBVIOUS
<1>3. /\ u \in Workspaces /\ u.profile = "none" /\ u.adaptive = v.adaptive
      /\ u.alive = v.alive /\ u.faults = v.faults /\ u.slots = v.slots
  BY <1>1, <1>2, GivenUpOK
<1>4. PICK y, n : y = Yes(u) /\ n = No(u) OBVIOUS
<1>5. Moved(u, y) /\ Moved(u, n) /\ y.faults = u.faults /\ n.faults = u.faults
  BY <1>3, <1>4, YesOK
<1>6. Spent(w, y) /\ Spent(w, n) BY <1>3, <1>5 DEF Saves, Spent, Later, Once, Lively, Moved, Kept
<1>7. QED BY <1>2, <1>4, <1>6, Zenon

LEMMA SavesThrough ==
    ASSUME NEW w \in Workspaces, NEW x, NEW v, Saves(w, x), Saves(x, v) PROVE Saves(w, v)
BY LaterThrough DEF Saves
LEMMA MovedSaves == ASSUME NEW w \in Workspaces, NEW v, Moved(w, v) PROVE Saves(w, v)
BY MovedLater DEF Saves, Moved, Kept
LEMMA WorkedSaves ==
    ASSUME NEW w \in Workspaces, NEW s \in Slots, NEW v, Worked(w, s, v) PROVE Saves(w, v)
BY WorkedLater DEF Saves, Worked, Kept
LEMMA BuiltSaves ==
    ASSUME NEW w \in Workspaces, NEW layout, NEW v, Built(w, layout, v) PROVE Saves(w, v)
BY BuiltLater DEF Saves, Built

LEMMA SingleSaves ==
    ASSUME NEW w \in Workspaces, NEW layout \in Layouts
    PROVE  LET v == [w EXCEPT !.layout = layout] IN
           /\ Saves(w, v) /\ v.layout = layout /\ v.slots = w.slots /\ v.ok = w.ok
           /\ v.faults = w.faults /\ v.profile = w.profile /\ v.presentation = w.presentation
           /\ v.running = w.running
<1>1. PICK v : v = [w EXCEPT !.layout = layout] OBVIOUS
<1>2. v \in Workspaces BY <1>1 DEF Workspaces
<1>3. PICK f \in Nat : f = w.faults BY FaultFacts
<1>4. f >= f BY <1>3
<1>5. /\ v.layout = layout /\ v.slots = w.slots /\ v.ok = w.ok /\ v.faults = w.faults
      /\ v.profile = w.profile /\ v.presentation = w.presentation /\ v.running = w.running
      /\ v.alive = w.alive /\ v.adaptive = w.adaptive
  BY <1>1, <1>2 DEF Workspaces
<1>6. QED BY <1>1, <1>2, <1>3, <1>4, <1>5 DEF Saves, Later, Once, Lively

\* The ways to apply the profile: not at all, give it up, keep the layout, or build Pane 2
\* for it, which a failing save takes back.
ProfileForms(w, v) ==
    \/ v = No(w)
    \/ w.profile # "none" /\ v = ProfileGivenUp(w)
    \/ w.profile # "none" /\ v = Yes([w EXCEPT !.profile = "none"])
    \/ w.profile # "none" /\ \E x \in Fail(w) : v = ProfileGivenUp(x)
    \/ /\ w.profile # "none"
       /\ \E u \in CreateSecondary(w, w.profile) :
           \/ v = ProfileGivenUp(u)
           \/ v = Yes([u EXCEPT !.profile = "none"])
           \/ \E y \in Fail(u) : \E x \in CloseSlot(y, "secondary") :
                 v = ProfileGivenUp([x EXCEPT !.layout = "single"])

LEMMA ProfileCases ==
    ASSUME NEW w, NEW v \in ApplyLayoutProfile(w) PROVE ProfileForms(w, v)
<1>1. CASE w.profile # "none" /\ v \in {Yes([w EXCEPT !.profile = "none"])}
                                      \cup {ProfileGivenUp(x) : x \in Fail(w)}
  BY <1>1 DEF ProfileForms
<1>2. CASE w.profile # "none" /\ v = ProfileGivenUp(w) BY <1>2 DEF ProfileForms
<1>3. PICK S : S = CreateSecondary(w, w.profile) OBVIOUS
<1>4. ASSUME w.profile # "none", NEW u \in S,
             \/ u.ok /\ v \in {Yes([u EXCEPT !.profile = "none"])}
                        \cup {ProfileGivenUp([x EXCEPT !.layout = "single"]) :
                                x \in UNION {CloseSlot(y, "secondary") : y \in Fail(u)}}
             \/ v \in {ProfileGivenUp(u)}
      PROVE  \E uu \in CreateSecondary(w, w.profile) :
               \/ v = ProfileGivenUp(uu)
               \/ v = Yes([uu EXCEPT !.profile = "none"])
               \/ \E y \in Fail(uu) : \E x \in CloseSlot(y, "secondary") :
                     v = ProfileGivenUp([x EXCEPT !.layout = "single"])
  BY <1>3, <1>4
<1>5. \/ v = No(w)
      \/ w.profile # "none" /\ v \in {Yes([w EXCEPT !.profile = "none"])}
                                      \cup {ProfileGivenUp(x) : x \in Fail(w)}
      \/ w.profile # "none" /\ v = ProfileGivenUp(w)
      \/ /\ w.profile # "none"
         /\ \E u \in S :
             \/ u.ok /\ v \in {Yes([u EXCEPT !.profile = "none"])}
                        \cup {ProfileGivenUp([x EXCEPT !.layout = "single"]) :
                                x \in UNION {CloseSlot(y, "secondary") : y \in Fail(u)}}
             \/ v \in {ProfileGivenUp(u)}
  BY <1>3 DEF ApplyLayoutProfile, Either, Then
<1>6. QED BY <1>1, <1>2, <1>4, <1>5 DEF ProfileForms

LEMMA ApplyLayoutProfileOK ==
    ASSUME NEW w \in Workspaces, NEW v \in ApplyLayoutProfile(w)
    PROVE  Saves(w, v) /\ (Calm(w, v) => v = No(w))
<1>1. CASE v = No(w) BY <1>1, YesOK, MovedSaves
<1>2. ASSUME Spent(w, v), w.profile # "none"
      PROVE  Saves(w, v) /\ (Calm(w, v) => v = No(w))
  BY <1>2 DEF Spent, Saves, Calm
<1>3. Saves(w, w) BY KeptSelf, MovedSaves
<1>4. CASE v = ProfileGivenUp(w) /\ w.profile # "none" BY <1>2, <1>3, <1>4, SpentOK DEF ProfileGivenUp
<1>5. CASE v = Yes([w EXCEPT !.profile = "none"]) /\ w.profile # "none"
  BY <1>2, <1>3, <1>5, SpentOK
<1>6. ASSUME NEW x \in Fail(w), v = ProfileGivenUp(x), w.profile # "none"
      PROVE  Saves(w, v) /\ (Calm(w, v) => v = No(w))
  <2>1. Saves(w, x) BY <1>6, FailOK, MovedSaves
  <2>2. QED BY <1>2, <1>6, <2>1, SpentOK DEF ProfileGivenUp
<1>7. ASSUME w.profile # "none", w.profile \in Layouts,
             NEW u \in CreateSecondary(w, w.profile),
             \/ v = ProfileGivenUp(u)
             \/ v = Yes([u EXCEPT !.profile = "none"])
             \/ \E y \in Fail(u) : \E x \in CloseSlot(y, "secondary") :
                   v = ProfileGivenUp([x EXCEPT !.layout = "single"])
      PROVE  Saves(w, v) /\ (Calm(w, v) => v = No(w))
  <2>1. Saves(w, u) BY <1>7, CreateSecondaryOK, BuiltSaves
  <2>2. u \in Workspaces BY <2>1 DEF Saves, Later
  <2>3. CASE v = ProfileGivenUp(u) \/ v = Yes([u EXCEPT !.profile = "none"])
    BY <1>2, <1>7, <2>1, <2>3, SpentOK DEF ProfileGivenUp
  <2>4. ASSUME NEW y \in Fail(u), NEW x \in CloseSlot(y, "secondary"),
               v = ProfileGivenUp([x EXCEPT !.layout = "single"])
        PROVE  Saves(w, v) /\ (Calm(w, v) => v = No(w))
    <3>1. Saves(u, y) BY <2>2, <2>4, FailOK, MovedSaves
    <3>2. y \in Workspaces BY <3>1 DEF Saves, Later
    <3>3. Saves(y, x) BY <2>4, <3>2, SlotFacts, CloseSlotOK, WorkedSaves
    <3>4. x \in Workspaces BY <3>3 DEF Saves, Later
    <3>5. PICK z : z = [x EXCEPT !.layout = "single"] OBVIOUS
    <3>6. Saves(x, z) BY <3>4, <3>5, SingleSaves DEF Layouts
    <3>7. Saves(w, z) BY <2>1, <2>2, <3>1, <3>2, <3>3, <3>4, <3>6, SavesThrough
    <3>8. Spent(w, v) BY <2>4, <3>5, <3>7, SpentOK DEF ProfileGivenUp
    <3>9. QED BY <1>2, <1>7, <3>8
  <2>5. QED BY <1>7, <2>3, <2>4
<1>8. w.profile \in Layouts \/ w.profile = "none"
  BY FieldTypes, BoundsAssumption DEF Layouts
<1>9. ProfileForms(w, v) BY ProfileCases
<1>10. QED BY <1>1, <1>4, <1>5, <1>6, <1>7, <1>8, <1>9 DEF ProfileForms

\* Attaching an agent.
LEMMA AttachOK ==
    ASSUME NEW w \in Workspaces, NEW s \in Slots, NEW a \in Agents, NEW v \in Attach(w, s, a)
    PROVE  /\ Saves(w, v)
           /\ Calm(w, v) => /\ Worked(w, s, v)
                            /\ a \in w.alive /\ Live(w, s) => Live(v, s)
<1>1. s # "sidebar" BY SlotFacts
<1>2. CASE v = No(w) BY <1>2, WorkSelf, WorkDone, WorkedSaves DEF Live
<1>3. ASSUME CanDisplay(w, s, a), NEW u \in Display(w, s, a),
             v = u \/ \E x \in ApplyLayoutProfile(u) : v = Yes(x)
      PROVE  /\ Saves(w, v)
             /\ Calm(w, v) => /\ Worked(w, s, v)
                              /\ a \in w.alive /\ Live(w, s) => Live(v, s)
  <2>1. /\ Worked(w, s, u)
        /\ u.faults = w.faults /\ a \in w.alive => u.slots[s].pane = "live"
    BY <1>3, DisplayOK
  <2>2. u \in Workspaces /\ Saves(w, u) BY <2>1, WorkedSaves DEF Worked, Kept
  <2>3. CASE v = u BY <1>1, <2>1, <2>2, <2>3 DEF Calm, Live
  <2>4. ASSUME NEW x \in ApplyLayoutProfile(u), v = Yes(x)
        PROVE  /\ Saves(w, v)
               /\ Calm(w, v) => /\ Worked(w, s, v)
                                /\ a \in w.alive /\ Live(w, s) => Live(v, s)
    <3>1. Saves(u, x) /\ (Calm(u, x) => x = No(u)) BY <2>2, <2>4, ApplyLayoutProfileOK
    <3>2. x \in Workspaces BY <3>1 DEF Saves, Later
    <3>3. Moved(x, v) /\ v.faults = x.faults /\ v.profile = x.profile
      BY <2>4, <3>2, YesOK DEF Moved, Kept
    <3>4. Saves(x, v) BY <3>2, <3>3, MovedSaves
    <3>5. Saves(u, v) /\ Saves(w, v) BY <2>2, <3>1, <3>2, <3>4, SavesThrough
    <3>6. ASSUME Calm(w, v) PROVE Worked(w, s, v) /\ (a \in w.alive /\ Live(w, s) => Live(v, s))
      <4>1. Calm(w, u) /\ Calm(u, v) BY <2>2, <3>5, <3>6, LaterThrough DEF Saves
      <4>2. Calm(u, x) BY <3>3, <4>1 DEF Calm
      <4>3. x = No(u) BY <3>1, <4>2
      <4>4. Moved(u, x) BY <2>2, <4>3, YesOK
      <4>5. Moved(u, v) BY <2>2, <3>3, <4>4, MovedThrough
      <4>6. Worked(w, s, v) BY <2>1, <2>2, <4>5, MovedWorks, WorkedThrough
      <4>7. v.slots = u.slots /\ u.faults = w.faults BY <4>1, <4>5 DEF Moved, Calm
      <4>8. QED BY <1>1, <2>1, <4>6, <4>7 DEF Live
    <3>7. QED BY <3>5, <3>6
  <2>5. QED BY <1>3, <2>3, <2>4
<1>4. QED BY <1>2, <1>3 DEF Attach, Either

-----------------------------------------------------------------------------

LEMMA SingleViewFocusOK ==
    ASSUME NEW w \in Workspaces, NEW b \in BOOLEAN
    PROVE  Moved(w, SetSingleViewFocus(w, b)) /\ SetSingleViewFocus(w, b).faults = w.faults
<1>1. PICK u : u = Select(w, IF b THEN "sidebar" ELSE "primary") OBVIOUS
<1>2. Moved(w, u) /\ u.faults = w.faults BY <1>1, SelectOK DEF Pages, Slots
<1>3. u \in Workspaces BY <1>2 DEF Moved, Kept
<1>4. PICK v : v = [u EXCEPT !.target = "primary", !.focus = b] OBVIOUS
<1>5. v \in Workspaces BY <1>3, <1>4 DEF Workspaces, Slots
<1>6. PICK f \in Nat : f = u.faults BY <1>3, FaultFacts
<1>7. f >= f BY <1>6
<1>8. Moved(u, v) /\ v.faults = u.faults
  BY <1>3, <1>4, <1>5, <1>6, <1>7, Zenon DEF Workspaces, Moved, Kept
<1>9. v = SetSingleViewFocus(w, b) BY <1>1, <1>4 DEF SetSingleViewFocus
<1>10. QED BY <1>2, <1>8, <1>9, MovedThrough

\* The focus and the remembered agent of panes that were just rebuilt or closed.
LEMMA AimTypes ==
    ASSUME NEW u \in Workspaces, NEW t \in Slots, NEW f \in BOOLEAN, NEW c \in Named
    PROVE  /\ [u EXCEPT !.collapsed = c, !.target = t] \in Workspaces
           /\ [u EXCEPT !.target = t, !.collapsed = c] \in Workspaces
           /\ [u EXCEPT !.collapsed = c, !.target = t, !.focus = f] \in Workspaces
           /\ [u EXCEPT !.layout = "single", !.target = t, !.collapsed = c] \in Workspaces
<1>1. [u EXCEPT !.collapsed = c, !.target = t] \in Workspaces BY DEF Workspaces
<1>2. [u EXCEPT !.target = t, !.collapsed = c] \in Workspaces BY DEF Workspaces
<1>3. [u EXCEPT !.collapsed = c, !.target = t, !.focus = f] \in Workspaces BY DEF Workspaces
<1>4. [u EXCEPT !.layout = "single", !.target = t, !.collapsed = c] \in Workspaces
  BY DEF Workspaces, Layouts
<1>5. QED BY <1>1, <1>2, <1>3, <1>4

LEMMA AimEdits ==
    ASSUME NEW u \in Workspaces, NEW t \in Slots, NEW f \in BOOLEAN, NEW c \in Named
    PROVE  /\ Moved(u, [u EXCEPT !.collapsed = c, !.target = t])
           /\ Moved(u, [u EXCEPT !.target = t, !.collapsed = c])
           /\ Moved(u, [u EXCEPT !.collapsed = c, !.target = t, !.focus = f])
<1>1. PICK n \in Nat : n = u.faults BY FaultFacts
<1>2. n >= n BY <1>1
<1>3. /\ [u EXCEPT !.collapsed = c, !.target = t] \in Workspaces
      /\ [u EXCEPT !.target = t, !.collapsed = c] \in Workspaces
      /\ [u EXCEPT !.collapsed = c, !.target = t, !.focus = f] \in Workspaces
  BY AimTypes
<1>4. Moved(u, [u EXCEPT !.collapsed = c, !.target = t])
  BY <1>1, <1>2, <1>3, Zenon DEF Workspaces, Moved, Kept
<1>5. Moved(u, [u EXCEPT !.target = t, !.collapsed = c])
  BY <1>1, <1>2, <1>3, Zenon DEF Workspaces, Moved, Kept
<1>6. Moved(u, [u EXCEPT !.collapsed = c, !.target = t, !.focus = f])
  BY <1>1, <1>2, <1>3, Zenon DEF Workspaces, Moved, Kept
<1>7. QED BY <1>4, <1>5, <1>6

\* The layout is single, and nothing else that matters here changes.
Singled(u, v) ==
    /\ v \in Workspaces /\ v.layout = "single" /\ v.slots = u.slots /\ v.ok = u.ok
    /\ v.adaptive = u.adaptive /\ v.profile = u.profile
    /\ v.presentation = u.presentation /\ v.alive = u.alive
    /\ v.running = u.running /\ v.faults = u.faults
LEMMA ClosedEdits ==
    ASSUME NEW u \in Workspaces, NEW c \in Named, NEW v,
           v = [u EXCEPT !.layout = "single", !.target = "primary", !.collapsed = c]
    PROVE  Singled(u, v)
<1>1. v \in Workspaces
  <2>1. "primary" \in Slots /\ TRUE \in BOOLEAN BY DEF Slots
  <2>2. QED BY <2>1, AimTypes
<1>2. QED BY <1>1, Zenon DEF Workspaces, Singled

LEMMA SelectKeeps ==
    ASSUME NEW w \in Workspaces, NEW p \in Pages, NEW b, NEW u, u = IF b THEN w ELSE Select(w, p)
    PROVE  u \in Workspaces /\ Moved(w, u) /\ u.ok = w.ok /\ u.faults = w.faults
<1>1. Moved(w, u) /\ u.faults = w.faults BY SelectOK, KeptSelf
<1>2. u \in Workspaces BY <1>1 DEF Moved, Kept
<1>3. u = w \/ \E z : u = [w EXCEPT !.active = p, !.zoomed = z] BY DEF Select
<1>4. u.ok = w.ok BY <1>3, Zenon DEF Workspaces
<1>5. QED BY <1>1, <1>2, <1>4

\* Pane 2 is closed, and the layout is single; or it is not closed.
Unsplit(w, v) ==
    /\ v \in Workspaces
    /\ v.adaptive = w.adaptive /\ v.profile = w.profile
    /\ v.presentation = w.presentation /\ v.alive = w.alive /\ v.running = w.running
    /\ v.faults >= w.faults
    /\ v.slots["primary"] = w.slots["primary"]
    /\ v.slots["secondary"].agent \in {None, w.slots["secondary"].agent}
    /\ Fit(w, "secondary", v.slots["secondary"])
    /\ ~v.ok => v.layout = w.layout
    /\ v.ok => v.layout = "single" /\ v.slots["secondary"] = Closed

LEMMA UnsplitSaves == ASSUME NEW w \in Workspaces, NEW v, Unsplit(w, v) PROVE Saves(w, v)
BY SlotFacts DEF Once, Lively, Fit, Unsplit, Slots, Saves, Later

LEMMA CloseSecondarySplitOK ==
    ASSUME NEW w \in Workspaces, NEW v \in CloseSecondarySplit(w)
    PROVE  Unsplit(w, v) /\ (w.slots["secondary"].pane # "none" /\ v.faults = w.faults => v.ok)
<1>1. "secondary" \in Slots /\ Other("secondary") = "primary" /\ "primary" \in Pages BY SlotFacts
<1>2. CASE w.slots["secondary"].pane = "none" /\ v = No(w)
  BY <1>1, <1>2, YesOK DEF Unsplit, Moved, Kept, Fit
<1>3. PICK S : S = CloseSlot(w, "secondary") OBVIOUS
<1>4. PICK l : l = w.slots["secondary"].agent OBVIOUS
<1>5. ASSUME NEW x \in S
      PROVE  /\ Worked(w, "secondary", x)
             /\ x.slots["secondary"].agent \in {None, w.slots["secondary"].agent}
             /\ x.ok \/ x.faults = w.faults =>
                   x.ok /\ x.slots["secondary"] = Closed /\ x.faults = w.faults
  BY <1>1, <1>3, <1>5, CloseSlotOK
<1>6. ASSUME NEW x \in S, ~x.ok, v = x
      PROVE  Unsplit(w, v) /\ (v.faults = w.faults => v.ok)
  BY <1>1, <1>5, <1>6 DEF Unsplit, Worked, Kept
<1>7. ASSUME NEW x \in S, x.ok, NEW u, u = IF x.focus THEN x ELSE Select(x, "primary"),
             NEW c \in Named,
             v = [u EXCEPT !.layout = "single", !.target = "primary", !.collapsed = c]
      PROVE  Unsplit(w, v) /\ v.ok
  <2>1. Worked(w, "secondary", x) /\ x.slots["secondary"] = Closed BY <1>5, <1>7
  <2>2. x \in Workspaces BY <2>1 DEF Worked, Kept
  <2>3. u \in Workspaces /\ Moved(x, u) /\ u.ok = x.ok BY <1>1, <1>7, <2>2, SelectKeeps
  <2>4. Kept(w, u) BY <2>1, <2>3, KeptThrough DEF Worked, Moved
  <2>5. Singled(u, v)
    <3>1. v = [u EXCEPT !.layout = "single", !.target = "primary", !.collapsed = c] BY <1>7
    <3>2. QED BY <2>3, <3>1, ClosedEdits
  <2>6. u.slots = x.slots /\ x.slots["primary"] = w.slots["primary"] /\ v.ok
    BY <1>1, <1>7, <2>1, <2>3, <2>5 DEF Worked, Moved, Singled
  <2>7. QED BY <1>1, <2>1, <2>4, <2>5, <2>6, SlotsOK, FitForms DEF Unsplit, Kept, Singled
<1>8. \/ w.slots["secondary"].pane = "none" /\ v = No(w)
      \/ \E x \in S : ~x.ok /\ v = x
      \/ \E x \in S : x.ok /\ v = [(IF x.focus THEN x ELSE Select(x, "primary"))
            EXCEPT !.layout = "single", !.target = "primary",
                   !.collapsed = IF l = None
                        THEN (IF x.focus THEN x ELSE Select(x, "primary")).collapsed ELSE l]
  BY <1>3, <1>4 DEF CloseSecondarySplit, Either
<1>9. ASSUME NEW x \in S, x.ok,
             v = [(IF x.focus THEN x ELSE Select(x, "primary"))
            EXCEPT !.layout = "single", !.target = "primary",
                   !.collapsed = IF l = None
                        THEN (IF x.focus THEN x ELSE Select(x, "primary")).collapsed ELSE l]
      PROVE  Unsplit(w, v) /\ v.ok
  <2>1. PICK u : u = IF x.focus THEN x ELSE Select(x, "primary") OBVIOUS
  <2>2. PICK c : c = IF l = None THEN u.collapsed ELSE l OBVIOUS
  <2>3. x \in Workspaces BY <1>5 DEF Worked, Kept
  <2>4. u \in Workspaces BY <1>1, <2>1, <2>3, SelectOK DEF Moved, Kept
  <2>5. c \in Named BY <1>1, <1>4, <2>2, <2>4, FieldTypes
  <2>6. v = [u EXCEPT !.layout = "single", !.target = "primary", !.collapsed = c]
    BY <1>9, <2>1, <2>2
  <2>7. QED BY <1>7, <1>9, <2>1, <2>5, <2>6
<1>10. QED BY <1>2, <1>6, <1>8, <1>9

LEMMA SavedOK == ASSUME NEW x \in Slot PROVE Saved(x) \in Content
BY DEF Saved, Slot, Content

LEMMA SavedAgentOK == ASSUME NEW c \in Content PROVE SavedAgent(c) \in Named
BY SlotsOK DEF SavedAgent, Content

-----------------------------------------------------------------------------

\* The single view v is of the workspace u, and stands for view.
Viewed(u, view, v) ==
    /\ v \in Workspaces /\ v.layout = u.layout /\ v.adaptive = view /\ v.slots = u.slots
    /\ v.profile = u.profile /\ v.presentation = u.presentation /\ v.alive = u.alive
    /\ v.faults = u.faults

LEMMA ViewedOK ==
    ASSUME NEW u \in Workspaces, NEW view \in View, NEW c \in Named, NEW b \in BOOLEAN, NEW v,
           v = Yes(SetSingleViewFocus([u EXCEPT !.adaptive = view, !.collapsed = c], b))
    PROVE  Viewed(u, view, v)
<1>1. PICK x : x = [u EXCEPT !.adaptive = view, !.collapsed = c] OBVIOUS
<1>2. x \in Workspaces BY <1>1 DEF Workspaces
<1>3. Viewed(u, view, x) BY <1>1, <1>2, Zenon DEF Workspaces, Viewed
<1>4. PICK y : y = SetSingleViewFocus(x, b) OBVIOUS
<1>5. Moved(x, y) /\ y.faults = x.faults BY <1>2, <1>4, SingleViewFocusOK
<1>6. y \in Workspaces BY <1>5 DEF Moved, Kept
<1>7. v = Yes(y) BY <1>1, <1>4
<1>8. Moved(y, v) /\ v.faults = y.faults BY <1>6, <1>7, YesOK
<1>9. QED BY <1>3, <1>5, <1>8 DEF Viewed, Moved, Kept

LEMMA ViewedLater ==
    ASSUME NEW u \in Workspaces, NEW view, NEW v, Viewed(u, view, v)
    PROVE  Later(u, v) /\ v.presentation = u.presentation
<1>1. PICK f \in Nat : f = u.faults BY FaultFacts
<1>2. f >= f BY <1>1
<1>3. QED BY <1>1, <1>2 DEF Viewed, Later, Once, Lively

\* A step on the way of a handler, as far as the layout is not concerned.
Turned(w, v) == Later(w, v) /\ v.presentation = w.presentation

LEMMA TurnedThrough ==
    ASSUME NEW w \in Workspaces, NEW x, NEW v, Turned(w, x), Turned(x, v)
    PROVE  Turned(w, v) /\ (Calm(w, v) => Calm(w, x) /\ Calm(x, v))
BY LaterThrough DEF Turned

LEMMA MovedTurned == ASSUME NEW w \in Workspaces, NEW v, Moved(w, v) PROVE Turned(w, v)
BY MovedLater DEF Turned, Moved, Kept
LEMMA WorkedTurned ==
    ASSUME NEW w \in Workspaces, NEW s \in Slots, NEW v, Worked(w, s, v) PROVE Turned(w, v)
BY WorkedLater DEF Turned, Worked, Kept
LEMMA BuiltTurned ==
    ASSUME NEW w \in Workspaces, NEW layout, NEW v, Built(w, layout, v) PROVE Turned(w, v)
BY BuiltLater DEF Turned, Built
LEMMA UnsplitTurned == ASSUME NEW w \in Workspaces, NEW v, Unsplit(w, v) PROVE Turned(w, v)
BY UnsplitSaves DEF Turned, Saves, Unsplit

\* The two panes come back: with Pane 1 there nothing but a failing call prevents it.
BackForms(w, r, c, v) ==
    \E x \in CreateSecondary(r, w.layout) :
       \/ ~x.ok /\ v = No(x)
       \/ x.ok /\ \E y \in ReplaceSlotContent(x, "secondary", c) :
             \/ ~y.ok /\ v = No(y)
             \/ y.ok /\ v = No([(IF w.focus THEN y ELSE Select(y, w.target))
                          EXCEPT !.collapsed = None, !.target = w.target, !.focus = w.focus])

LEMMA BackOK ==
    ASSUME NEW w \in Workspaces, NEW r \in Workspaces, NEW c \in Content, NEW v,
           BackForms(w, r, c, v)
    PROVE  /\ Turned(r, v) /\ v.adaptive = r.adaptive
           /\ Calm(r, v) /\ Live(r, "primary") /\ ~Live(r, "secondary") => v.layout = w.layout
<1>1. w.layout \in Layouts /\ w.target \in Slots /\ w.focus \in BOOLEAN BY FieldTypes
<1>2. PICK x \in CreateSecondary(r, w.layout) :
        \/ ~x.ok /\ v = No(x)
        \/ x.ok /\ \E y \in ReplaceSlotContent(x, "secondary", c) :
             \/ ~y.ok /\ v = No(y)
             \/ y.ok /\ v = No([(IF w.focus THEN y ELSE Select(y, w.target))
                          EXCEPT !.collapsed = None, !.target = w.target, !.focus = w.focus])
  BY DEF BackForms
<1>3. Built(r, w.layout, x) BY <1>1, CreateSecondaryOK
<1>4. Turned(r, x) /\ x \in Workspaces /\ x.adaptive = r.adaptive BY <1>3, BuiltTurned DEF Built
<1>5. ASSUME NEW y \in Workspaces, Kept(x, y), Turned(x, y), v = No(y), x.ok
      PROVE  /\ Turned(r, v) /\ v.adaptive = r.adaptive
             /\ ~Live(r, "secondary") => v.layout = w.layout
  <2>1. Moved(y, v) BY <1>5, YesOK
  <2>2. Turned(x, v) BY <1>4, <1>5, <2>1, TurnedThrough, MovedTurned
  <2>3. Turned(r, v) BY <1>4, <2>2, TurnedThrough
  <2>4. QED BY <1>3, <1>4, <1>5, <2>1, <2>3 DEF Built, Moved, Kept
<1>6. CASE ~x.ok /\ v = No(x)
  <2>1. Moved(x, v) BY <1>4, <1>6, YesOK
  <2>2. Turned(r, v) BY <1>4, <2>1, TurnedThrough, MovedTurned
  <2>3. Calm(r, v) => Calm(r, x) BY <1>4, <2>1, TurnedThrough, MovedTurned
  <2>4. ~(Calm(r, v) /\ Live(r, "primary")) BY <1>3, <1>6, <2>3 DEF Built, Calm
  <2>5. QED BY <1>4, <2>1, <2>2, <2>4 DEF Moved, Kept
<1>7. ASSUME x.ok, NEW y \in ReplaceSlotContent(x, "secondary", c),
             \/ v = No(y)
             \/ v = No([(IF w.focus THEN y ELSE Select(y, w.target))
                          EXCEPT !.collapsed = None, !.target = w.target, !.focus = w.focus])
      PROVE  /\ Turned(r, v) /\ v.adaptive = r.adaptive
             /\ ~Live(r, "secondary") => v.layout = w.layout
  <2>1. "secondary" \in Slots BY SlotFacts
  <2>2. Worked(x, "secondary", y) BY <1>4, <1>7, <2>1, ReplaceSlotContentOK
  <2>3. y \in Workspaces /\ Kept(x, y) /\ Turned(x, y)
    BY <1>4, <2>1, <2>2, WorkedTurned DEF Worked, Kept
  <2>4. CASE v = No(y) BY <1>5, <1>7, <2>3, <2>4
  <2>5. CASE v = No([(IF w.focus THEN y ELSE Select(y, w.target))
                          EXCEPT !.collapsed = None, !.target = w.target, !.focus = w.focus])
    <3>1. PICK u : u = IF w.focus THEN y ELSE Select(y, w.target) OBVIOUS
    <3>2. u \in Workspaces /\ Moved(y, u) BY <1>1, <2>3, <3>1, SlotFacts, SelectKeeps
    <3>3. PICK z : z = [u EXCEPT !.collapsed = None, !.target = w.target, !.focus = w.focus]
      OBVIOUS
    <3>4. Moved(u, z) BY <1>1, <3>2, <3>3, SlotsOK, AimEdits
    <3>5. Moved(y, z) BY <2>3, <3>2, <3>4, MovedThrough
    <3>6. z \in Workspaces /\ Kept(x, z) /\ Turned(x, z)
      BY <1>4, <2>3, <3>5, KeptThrough, MovedTurned, TurnedThrough DEF Moved, Kept
    <3>7. v = No(z) BY <2>5, <3>1, <3>3, Zenon
    <3>8. QED BY <1>5, <1>7, <3>6, <3>7
  <2>6. QED BY <1>7, <2>4, <2>5
<1>8. QED BY <1>2, <1>6, <1>7

-----------------------------------------------------------------------------

\* What entering the single view leaves, for what is saved of the slots.
Viewing(w, view, n, u) ==
    Yes(SetSingleViewFocus([u EXCEPT !.adaptive = view, !.collapsed = n], w.focus))
GoingBack(w, r, c) ==
    UNION {IF x.ok
           THEN UNION {IF y.ok
                       THEN {No([(IF w.focus THEN y ELSE Select(y, w.target))
                                EXCEPT !.collapsed = None, !.target = w.target,
                                       !.focus = w.focus])}
                       ELSE {No(y)} : y \in ReplaceSlotContent(x, "secondary", c)}
           ELSE {No(x)} : x \in CreateSecondary(r, w.layout)}
Entering(w, sd, view, n) ==
    UNION {IF p.ok
           THEN IF w.target = "primary" THEN {Viewing(w, view, n, p)}
                ELSE UNION {IF r.ok THEN {Viewing(w, view, n, r)}
                            ELSE GoingBack(w, r, sd["secondary"]) :
                              r \in ReplaceSlotContent(p, "primary", sd["secondary"])}
           ELSE {No(p)} : p \in CloseSecondarySplit(w)}

LEMMA EnterOK ==
    ASSUME NEW w \in Workspaces, NEW v \in EnterAdaptiveSingleView(w)
    PROVE  /\ Turned(w, v)
           /\ Calm(w, v) /\ RegionKnown(w) => Logical(v) = Logical(w)
<1> DEFINE SD == [s \in Slots |-> Saved(w.slots[s])]
           VW == [layout |-> w.layout, target |-> w.target, visible |-> w.target,
                  slots |-> SD, guards |-> {a \in w.running \cap w.alive :
                                              \E s \in Slots : SavedAgent(SD[s]) = a}]
<1>1. PICK sd : sd = SD OBVIOUS
<1>2. sd \in [Slots -> Content] BY <1>1, SavedOK, FieldTypes
<1>3. PICK view : view = [layout |-> w.layout, target |-> w.target,
                 visible |-> w.target, slots |-> sd,
                 guards |-> {a \in w.running \cap w.alive :
                               \E s \in Slots : SavedAgent(sd[s]) = a}]
  OBVIOUS
<1>4. PICK g \in SUBSET Agents : g = {a \in w.running \cap w.alive :
                                        \E s \in Slots : SavedAgent(sd[s]) = a}
  BY FieldTypes
<1>5. view \in View /\ view.layout = w.layout
  <2>1. view = [layout |-> w.layout, target |-> w.target, visible |-> w.target,
                slots |-> sd, guards |-> g]
    BY <1>3, <1>4
  <2>2. QED BY <1>2, <2>1, FieldTypes DEF View
<1>6. PICK n : n = SavedAgent(sd[Other(w.target)]) OBVIOUS
<1>7. n \in Named BY <1>2, <1>6, FieldTypes, SlotFacts, SavedAgentOK
<1>8. PICK P : P = CloseSecondarySplit(w) OBVIOUS
<1>9. PICK c \in Content : c = sd["secondary"] BY <1>2, SlotFacts
<1>10. CASE v = No(w)
  <2>1. Moved(w, v) BY <1>10, YesOK
  <2>2. QED BY <2>1, MovedTurned, LogicalKept DEF Moved
<1>11. ASSUME NEW p \in P
       PROVE  /\ Unsplit(w, p) /\ p \in Workspaces /\ Turned(w, p)
  BY <1>8, <1>11, CloseSecondarySplitOK, UnsplitTurned DEF Unsplit
<1>12. ASSUME NEW p \in P, ~p.ok, v = No(p)
       PROVE  Turned(w, v) /\ Logical(v) = Logical(w)
  <2>1. Moved(p, v) BY <1>11, <1>12, YesOK
  <2>2. Turned(w, v) BY <1>11, <1>12, <2>1, MovedTurned, TurnedThrough
  <2>3. Logical(p) = Logical(w) BY <1>11, <1>12 DEF Unsplit, Logical, Hidden
  <2>4. QED BY <2>1, <2>2, <2>3, LogicalKept DEF Moved
<1>13. ASSUME w.layout # "single", ~Hidden(w), NEW u \in Workspaces, Turned(w, u),
              v = Viewing(w, view, n, u)
       PROVE  Turned(w, v) /\ Logical(v) = Logical(w)
  <2>1. w.focus \in BOOLEAN BY FieldTypes
  <2>2. Viewed(u, view, v) BY <1>5, <1>7, <1>13, <2>1, ViewedOK DEF Viewing
  <2>3. Turned(w, v) BY <1>13, <2>2, ViewedLater, TurnedThrough DEF Turned
  <2>4. Logical(v) = w.layout BY <1>5, <1>13, <2>2 DEF Logical, Hidden, Viewed
  <2>5. QED BY <1>13, <2>3, <2>4 DEF Logical
<1>14. ASSUME w.layout # "single", ~Hidden(w), NEW p \in P, p.ok,
              NEW r \in ReplaceSlotContent(p, "primary", c), BackForms(w, r, c, v)
       PROVE  /\ Turned(w, v)
              /\ Calm(w, v) /\ RegionKnown(w) => Logical(v) = Logical(w)
  <2>1. "primary" \in Slots /\ Other("primary") = "secondary" BY SlotFacts
  <2>2. /\ Worked(p, "primary", r)
        /\ r.faults = p.faults /\ Live(p, "primary") => Live(r, "primary")
    BY <1>11, <1>14, <2>1, ReplaceSlotContentOK
  <2>3. r \in Workspaces /\ Turned(p, r) /\ Turned(w, r)
    BY <1>11, <2>1, <2>2, WorkedTurned, TurnedThrough DEF Worked, Kept
  <2>4. /\ Turned(r, v) /\ v.adaptive = r.adaptive
        /\ Calm(r, v) /\ Live(r, "primary") /\ ~Live(r, "secondary") => v.layout = w.layout
    BY <1>14, <2>3, BackOK
  <2>5. Turned(w, v) /\ (Calm(w, v) => Calm(w, r) /\ Calm(r, v)) BY <2>3, <2>4, TurnedThrough
  <2>6. Calm(w, r) => Calm(p, r) BY <1>11, <2>2, <2>3, TurnedThrough, WorkedTurned, <2>1
  <2>7. v.adaptive = w.adaptive BY <1>11, <2>2, <2>4 DEF Worked, Kept, Unsplit
  <2>8. ASSUME Calm(w, v), RegionKnown(w) PROVE v.layout = w.layout
    <3>1. Calm(r, v) /\ Calm(p, r) BY <2>5, <2>6, <2>8
    <3>2. Live(p, "primary") BY <1>11, <2>8 DEF RegionKnown, Live, Unsplit
    <3>3. Live(r, "primary") BY <2>2, <3>1, <3>2 DEF Calm
    <3>4. r.slots["secondary"] = Closed BY <1>11, <1>14, <2>1, <2>2 DEF Unsplit, Worked
    <3>5. ~Live(r, "secondary") BY <3>4, SlotsOK DEF Live
    <3>6. QED BY <2>4, <3>1, <3>3, <3>5
  <2>9. QED BY <2>5, <2>7, <2>8 DEF Logical, Hidden
<1>15. \/ v = No(w)
       \/ \E p \in P : ~p.ok /\ v = No(p)
       \/ /\ w.layout # "single" /\ ~Hidden(w)
          /\ \E p \in P :
               /\ p.ok
               /\ \/ v = Viewing(w, view, n, p)
                  \/ \E r \in ReplaceSlotContent(p, "primary", c) :
                       \/ v = Viewing(w, view, n, r)
                       \/ BackForms(w, r, c, v)
  <2>1. CASE w.layout = "single" \/ w.presentation # "wide" \/ Hidden(w)
    BY <2>1 DEF EnterAdaptiveSingleView
  <2>2. CASE ~(w.layout = "single" \/ w.presentation # "wide" \/ Hidden(w))
    <3>1. PICK p \in P :
            \/ ~p.ok /\ v = No(p)
            \/ p.ok /\ w.target = "primary"
               /\ v = Viewing(w, view, n, p)
            \/ p.ok /\ \E r \in ReplaceSlotContent(p, "primary", c) :
                 \/ v = Viewing(w, view, n, r)
                 \/ BackForms(w, r, c, v)
      <4>1. v \in Entering(w, sd, view, n)
        <5>1. v \in Entering(w, SD, VW, SavedAgent(SD[Other(w.target)]))
          BY <2>2 DEF EnterAdaptiveSingleView, Either, Entering, Viewing, GoingBack
        <5>2. QED BY <1>1, <1>3, <1>6, <5>1
      <4>2. PICK p \in P :
              \/ ~p.ok /\ v = No(p)
              \/ p.ok /\ w.target = "primary" /\ v = Viewing(w, view, n, p)
              \/ p.ok /\ \E r \in ReplaceSlotContent(p, "primary", c) :
                   \/ v = Viewing(w, view, n, r)
                   \/ v \in GoingBack(w, r, c)
        BY <1>8, <1>9, <4>1 DEF Entering
      <4>3. \A r : v \in GoingBack(w, r, c) => BackForms(w, r, c, v)
        BY DEF GoingBack, BackForms
      <4>4. QED BY <4>2, <4>3
    <3>2. QED BY <2>2, <3>1
  <2>3. QED BY <2>1, <2>2
<1>16. QED
  <2>1. ASSUME w.layout # "single", ~Hidden(w), NEW p \in P, p.ok,
               \/ v = Viewing(w, view, n, p)
               \/ \E r \in ReplaceSlotContent(p, "primary", c) :
                     v = Viewing(w, view, n, r)
        PROVE  Turned(w, v) /\ Logical(v) = Logical(w)
    <3>1. p \in Workspaces /\ Turned(w, p) BY <1>11, <2>1
    <3>2. ASSUME NEW r \in ReplaceSlotContent(p, "primary", c)
          PROVE  r \in Workspaces /\ Turned(w, r)
      <4>1. "primary" \in Slots BY SlotFacts
      <4>2. Worked(p, "primary", r) BY <3>1, <3>2, <4>1, ReplaceSlotContentOK
      <4>3. QED BY <3>1, <4>1, <4>2, WorkedTurned, TurnedThrough DEF Worked, Kept
    <3>3. QED BY <1>13, <2>1, <3>1, <3>2
  <2>2. QED BY <1>10, <1>12, <1>14, <1>15, <2>1

-----------------------------------------------------------------------------

LEMMA SingledOK ==
    ASSUME NEW u \in Workspaces, NEW v, v = [u EXCEPT !.layout = "single"]
    PROVE  Singled(u, v)
<1>1. v \in Workspaces BY DEF Workspaces, Layouts
<1>2. QED BY <1>1, Zenon DEF Workspaces, Singled

LEMMA SingledTurned ==
    ASSUME NEW u \in Workspaces, NEW v, Singled(u, v) PROVE Turned(u, v)
<1>1. PICK f \in Nat : f = u.faults BY FaultFacts
<1>2. f >= f BY <1>1
<1>3. QED BY <1>1, <1>2 DEF Singled, Turned, Later, Once, Lively

LEMMA ViewFacts ==
    ASSUME NEW w \in Workspaces
    PROVE  /\ w.adaptive.layout \in Layouts /\ w.adaptive.target \in Slots
           /\ w.adaptive.visible \in Slots
           /\ \A s \in Slots : w.adaptive.slots[s] \in Content
           /\ SavedAgent(w.adaptive.slots[Other(w.adaptive.visible)]) \in Named
<1>1. w.adaptive \in View BY FieldTypes
<1>2. /\ w.adaptive.layout \in Layouts /\ w.adaptive.target \in Slots
      /\ w.adaptive.visible \in Slots /\ w.adaptive.slots \in [Slots -> Content]
  BY <1>1 DEF View
<1>3. QED BY <1>2, SlotFacts, SavedAgentOK

\* A failed restore ends with one pane; the view it was to leave stays.
LEMMA RollbackOK ==
    ASSUME NEW w \in Workspaces, NEW visible \in Content, NEW b \in BOOLEAN,
           NEW v \in RollbackAdaptiveSingleView(w, visible, b)
    PROVE  Turned(w, v) /\ v.adaptive = w.adaptive /\ v.layout = "single" /\ ~v.ok
<1>1. "primary" \in Slots /\ "secondary" \in Slots BY SlotFacts
<1>2. PICK n \in Named : n = SavedAgent(w.adaptive.slots[Other(w.adaptive.visible)])
  BY ViewFacts
<1>3. PICK u \in IF w.slots["secondary"].pane # "none" THEN CloseSlot(w, "secondary") ELSE {w} :
        \E x \in ReplaceSlotContent([u EXCEPT !.layout = "single"], "primary", visible) :
            v = No(SetSingleViewFocus([x EXCEPT !.collapsed = n], b))
  BY <1>2 DEF RollbackAdaptiveSingleView, Then
<1>4. Worked(w, "secondary", u) BY <1>1, <1>3, CloseSlotOK, WorkSelf
<1>5. u \in Workspaces /\ Turned(w, u) /\ u.adaptive = w.adaptive
  BY <1>1, <1>4, WorkedTurned DEF Worked, Kept
<1>6. PICK o : o = [u EXCEPT !.layout = "single"] OBVIOUS
<1>7. Singled(u, o) BY <1>5, <1>6, SingledOK
<1>8. o \in Workspaces /\ Turned(w, o) /\ o.adaptive = w.adaptive /\ o.layout = "single"
  BY <1>5, <1>7, SingledTurned, TurnedThrough DEF Singled
<1>9. PICK x \in ReplaceSlotContent(o, "primary", visible) :
            v = No(SetSingleViewFocus([x EXCEPT !.collapsed = n], b))
  BY <1>3, <1>6
<1>10. Worked(o, "primary", x) BY <1>1, <1>8, <1>9, ReplaceSlotContentOK
<1>11. /\ x \in Workspaces /\ Turned(w, x) /\ x.adaptive = w.adaptive
       /\ x.layout = "single"
  BY <1>1, <1>8, <1>10, WorkedTurned, TurnedThrough DEF Worked, Kept
<1>12. PICK y : y = [x EXCEPT !.collapsed = n] OBVIOUS
<1>13. Moved(x, y)
  <2>1. "sidebar" \in Pages /\ TRUE \in BOOLEAN /\ None \in Sizes \cup {None} BY DEF Pages
  <2>2. QED BY <1>1, <1>11, <1>12, <2>1, Edits
<1>14. y \in Workspaces BY <1>13 DEF Moved, Kept
<1>15. PICK z : z = SetSingleViewFocus(y, b) OBVIOUS
<1>16. Moved(y, z) BY <1>14, <1>15, SingleViewFocusOK
<1>17. z \in Workspaces BY <1>16 DEF Moved, Kept
<1>18. v = No(z) BY <1>9, <1>12, <1>15
<1>19. Moved(z, v) /\ ~v.ok BY <1>17, <1>18, YesOK
<1>20. Moved(x, v) BY <1>11, <1>13, <1>14, <1>16, <1>17, <1>19, MovedThrough
<1>21. QED BY <1>11, <1>19, <1>20, MovedTurned, TurnedThrough DEF Moved, Kept

\* Only the registry changes.
Relisted(w, v) ==
    /\ v \in Workspaces /\ v.layout = w.layout /\ v.adaptive = w.adaptive
    /\ v.slots = w.slots /\ v.profile = w.profile /\ v.presentation = w.presentation
    /\ v.alive = w.alive /\ v.faults = w.faults

LEMMA RelistedTurned ==
    ASSUME NEW w \in Workspaces, NEW v, Relisted(w, v)
    PROVE  Turned(w, v) /\ Calm(w, v) /\ Logical(v) = Logical(w)
<1>1. PICK f \in Nat : f = w.faults BY FaultFacts
<1>2. f >= f BY <1>1
<1>3. QED BY <1>1, <1>2 DEF Relisted, Turned, Later, Once, Lively, Calm, Logical, Hidden

LEMMA RunningOK ==
    ASSUME NEW w \in Workspaces, NEW r \in SUBSET Agents
    PROVE  /\ Relisted(w, [w EXCEPT !.running = r])
           /\ Relisted(w, [w EXCEPT !.running = r, !.failedAt = None])
<1>1. [w EXCEPT !.running = r] \in Workspaces BY DEF Workspaces
<1>2. [w EXCEPT !.running = r, !.failedAt = None] \in Workspaces BY DEF Workspaces
<1>3. Relisted(w, [w EXCEPT !.running = r]) BY <1>1, Zenon DEF Workspaces, Relisted
<1>4. Relisted(w, [w EXCEPT !.running = r, !.failedAt = None])
  BY <1>2, Zenon DEF Workspaces, Relisted
<1>5. QED BY <1>3, <1>4

LEMMA RepairOK ==
    ASSUME NEW w \in Workspaces PROVE Relisted(w, RepairAdaptiveRunningGuards(w))
<1>1. PICK r : r = w.running \cup ((w.adaptive.guards \cap w.alive) \ w.running) OBVIOUS
<1>2. r \in SUBSET Agents BY <1>1, FieldTypes
<1>3. \/ RepairAdaptiveRunningGuards(w) = [w EXCEPT !.running = r, !.failedAt = None]
      \/ RepairAdaptiveRunningGuards(w) = w
  BY <1>1 DEF RepairAdaptiveRunningGuards
<1>4. Relisted(w, w) BY DEF Relisted
<1>5. QED BY <1>2, <1>3, <1>4, RunningOK

-----------------------------------------------------------------------------

\* What leaving the single view leaves, for the view to go back to.
Wholly(w, view, key, u) ==
    Yes([Select(u, IF w.focus THEN "sidebar" ELSE key)
          EXCEPT !.layout = view.layout, !.collapsed = None, !.target = key,
                 !.focus = w.focus, !.adaptive = NoView])
Splitting(w, visible, view, key, u) ==
    UNION {IF x.ok
           THEN UNION {IF y.ok THEN {Wholly(w, view, key, y)}
                       ELSE RollbackAdaptiveSingleView(y, visible, w.focus) :
                         y \in ReplaceSlotContent(x, "secondary", view.slots["secondary"])}
           ELSE RollbackAdaptiveSingleView(x, visible, w.focus) :
             x \in CreateSecondary(u, view.layout)}
Restoring(w, visible, view, key, u) ==
    IF view.visible = "primary" THEN Splitting(w, visible, view, key, u)
    ELSE UNION {IF r.ok THEN Splitting(w, visible, view, key, r)
                ELSE RollbackAdaptiveSingleView(r, visible, w.focus) :
                  r \in ReplaceSlotContent(u, "primary", view.slots["primary"])}

LEMMA NoViewOK == NoView \in View /\ NoView.layout = "single"
<1>1. Saved(Closed) \in Content BY SlotsOK, SavedOK
<1>2. [s \in Slots |-> Saved(Closed)] \in [Slots -> Content] BY <1>1
<1>3. QED BY <1>2 DEF NoView, View, Layouts, Slots

LEMMA WhollyOK ==
    ASSUME NEW w \in Workspaces, NEW view \in View, NEW key \in Slots, NEW u \in Workspaces,
           NEW v, v = Wholly(w, view, key, u)
    PROVE  Turned(u, v) /\ v.layout = view.layout /\ v.adaptive = NoView
<1>1. PICK p \in Pages : p = IF w.focus THEN "sidebar" ELSE key BY SlotFacts
<1>2. PICK x : x = Select(u, p) OBVIOUS
<1>3. Moved(u, x) /\ x \in Workspaces BY <1>2, SelectOK DEF Moved, Kept
<1>4. PICK l \in Layouts, b \in BOOLEAN, n \in View : l = view.layout /\ b = w.focus /\ n = NoView
  BY FieldTypes, NoViewOK DEF View
<1>5. PICK y : y = [x EXCEPT !.layout = l, !.collapsed = None, !.target = key,
                             !.focus = b, !.adaptive = n]
  OBVIOUS
<1>6. y \in Workspaces BY <1>3, <1>5, SlotsOK DEF Workspaces
<1>7. PICK f \in Nat : f = x.faults BY <1>3, FaultFacts
<1>8. f >= f BY <1>7
<1>9. /\ y.slots = x.slots /\ y.presentation = x.presentation /\ y.alive = x.alive
      /\ y.faults = x.faults /\ y.profile = x.profile /\ y.layout = l /\ y.adaptive = n
  BY <1>3, <1>5, Zenon DEF Workspaces
<1>10. Turned(x, y) BY <1>6, <1>7, <1>8, <1>9 DEF Turned, Later, Once, Lively
<1>11. v = Yes(y) BY <1>1, <1>2, <1>4, <1>5 DEF Wholly
<1>12. Moved(y, v) BY <1>6, <1>11, YesOK
<1>13. Turned(u, y) BY <1>3, <1>10, MovedTurned, TurnedThrough
<1>14. QED BY <1>4, <1>6, <1>9, <1>12, <1>13, MovedTurned, TurnedThrough DEF Moved, Kept

\* It ends with the view's layout, or with the view.
Ends(view, v) == (v.layout = view.layout /\ v.adaptive = NoView) \/ v.adaptive = view

LEMMA SplittingOK ==
    ASSUME NEW w \in Workspaces, NEW visible \in Content, NEW view \in View,
           NEW key \in Slots, NEW u \in Workspaces, u.adaptive = view,
           NEW v \in Splitting(w, visible, view, key, u)
    PROVE  Turned(u, v) /\ Ends(view, v)
<1>1. "secondary" \in Slots /\ w.focus \in BOOLEAN BY SlotFacts, FieldTypes
<1>2. view.layout \in Layouts /\ view.slots["secondary"] \in Content BY <1>1 DEF View
<1>3. PICK x \in CreateSecondary(u, view.layout) :
        \/ v \in RollbackAdaptiveSingleView(x, visible, w.focus)
        \/ \E y \in ReplaceSlotContent(x, "secondary", view.slots["secondary"]) :
             \/ v = Wholly(w, view, key, y)
             \/ v \in RollbackAdaptiveSingleView(y, visible, w.focus)
  BY DEF Splitting
<1>4. x \in Workspaces /\ Turned(u, x) /\ x.adaptive = view
  BY <1>2, <1>3, CreateSecondaryOK, BuiltTurned DEF Built
<1>5. CASE v \in RollbackAdaptiveSingleView(x, visible, w.focus)
  <2>1. Turned(x, v) /\ v.adaptive = x.adaptive BY <1>1, <1>4, <1>5, RollbackOK
  <2>2. QED BY <1>4, <2>1, TurnedThrough DEF Ends
<1>6. ASSUME NEW y \in ReplaceSlotContent(x, "secondary", view.slots["secondary"]),
             \/ v = Wholly(w, view, key, y)
             \/ v \in RollbackAdaptiveSingleView(y, visible, w.focus)
      PROVE  Turned(u, v) /\ Ends(view, v)
  <2>1. Worked(x, "secondary", y) BY <1>1, <1>2, <1>4, <1>6, ReplaceSlotContentOK
  <2>2. y \in Workspaces /\ Turned(u, y) /\ y.adaptive = view
    BY <1>1, <1>4, <2>1, WorkedTurned, TurnedThrough DEF Worked, Kept
  <2>3. CASE v = Wholly(w, view, key, y)
    BY <2>2, <2>3, WhollyOK, TurnedThrough DEF Ends
  <2>4. CASE v \in RollbackAdaptiveSingleView(y, visible, w.focus)
    <3>1. Turned(y, v) /\ v.adaptive = y.adaptive BY <1>1, <2>2, <2>4, RollbackOK
    <3>2. QED BY <2>2, <3>1, TurnedThrough DEF Ends
  <2>5. QED BY <1>6, <2>3, <2>4
<1>7. QED BY <1>3, <1>5, <1>6

\* A restore goes on from a workspace that differs from w only in its records: the view
\* with what is visible now in it, and the registry with the guarded agents.
RestoreForms(w, visible, view, start) ==
    /\ visible \in Content /\ w.focus \in BOOLEAN
    /\ view \in View /\ view.layout = w.adaptive.layout
    /\ view.visible = w.adaptive.visible /\ view.slots[view.visible] = visible
    /\ view.slots[Other(view.visible)] = w.adaptive.slots[Other(w.adaptive.visible)]
    /\ start \in Workspaces /\ Turned(w, start) /\ start.adaptive = view
    /\ start.slots = w.slots /\ start.faults = w.faults

LEMMA RestoreFrom ==
    ASSUME NEW w \in Workspaces, NEW v \in RestoreAdaptiveDualView(w)
    PROVE  \E view, start : \E key \in Slots :
              /\ RestoreForms(w, Saved(w.slots["primary"]), view, start)
              /\ v \in Restoring(w, Saved(w.slots["primary"]), view, key, start)
<1> DEFINE VW == [w.adaptive EXCEPT !.slots[w.adaptive.visible] = Saved(w.slots["primary"])]
           ST == RepairAdaptiveRunningGuards([w EXCEPT !.adaptive = VW])
<1>1. PICK visible : visible = Saved(w.slots["primary"]) OBVIOUS
<1>2. PICK view : view = VW OBVIOUS
<1>3. PICK key : key = IF w.focus THEN view.target ELSE view.visible OBVIOUS
<1>4. PICK start : start = ST OBVIOUS
<1>5. visible \in Content /\ w.focus \in BOOLEAN BY <1>1, SavedOK, FieldTypes, SlotFacts
<1>6. /\ view \in View /\ view.layout = w.adaptive.layout
      /\ view.visible = w.adaptive.visible /\ view.slots[view.visible] = visible
      /\ view.slots[Other(view.visible)] = w.adaptive.slots[Other(w.adaptive.visible)]
  <2>1. w.adaptive \in View BY FieldTypes
  <2>2. view = [w.adaptive EXCEPT !.slots = [w.adaptive.slots EXCEPT ![w.adaptive.visible] = visible]]
    BY <1>1, <1>2
  <2>3. PICK f \in [Slots -> Content] :
             f = [w.adaptive.slots EXCEPT ![w.adaptive.visible] = visible]
    BY <1>5, <2>1 DEF View
  <2>4. view = [w.adaptive EXCEPT !.slots = f] BY <2>2, <2>3
  <2>5. /\ view \in View /\ view.layout = w.adaptive.layout
        /\ view.visible = w.adaptive.visible /\ view.slots = f
    BY <2>1, <2>4 DEF View
  <2>6. PICK t \in Slots : t = w.adaptive.visible BY <2>1 DEF View
  <2>7. w.adaptive.slots \in [Slots -> Content] BY <2>1 DEF View
  <2>8. f[t] = visible /\ f[Other(t)] = w.adaptive.slots[Other(t)]
    BY <2>3, <2>6, <2>7, SlotFacts
  <2>9. QED BY <2>5, <2>6, <2>8
<1>7. key \in Slots BY <1>3, <1>6 DEF View
<1>8. PICK u : u = [w EXCEPT !.adaptive = view] OBVIOUS
<1>9. u \in Workspaces BY <1>6, <1>8 DEF Workspaces
<1>10. /\ u.slots = w.slots /\ u.presentation = w.presentation /\ u.alive = w.alive
       /\ u.faults = w.faults /\ u.profile = w.profile /\ u.adaptive = view
  BY <1>8, <1>9, Zenon DEF Workspaces
<1>11. PICK n \in Nat : n = w.faults BY FaultFacts
<1>12. n >= n BY <1>11
<1>13. Turned(w, u) BY <1>9, <1>10, <1>11, <1>12 DEF Turned, Later, Once, Lively
<1>14. start = RepairAdaptiveRunningGuards(u) BY <1>2, <1>4, <1>8
<1>15. Relisted(u, start) BY <1>9, <1>14, RepairOK
<1>16. start \in Workspaces /\ Turned(w, start) /\ start.adaptive = view
  BY <1>9, <1>10, <1>13, <1>15, RelistedTurned, TurnedThrough DEF Relisted
<1>17. v \in Restoring(w, visible, view, key, start)
  <2>1. v \in Restoring(w, Saved(w.slots["primary"]), VW,
                        IF w.focus THEN VW.target ELSE VW.visible, ST)
    BY DEF RestoreAdaptiveDualView, Either, Restoring, Splitting, Wholly
  <2>2. QED BY <1>1, <1>2, <1>3, <1>4, <2>1
<1>18. RestoreForms(w, visible, view, start)
  BY <1>5, <1>6, <1>10, <1>15, <1>16 DEF RestoreForms, Relisted
<1>19. QED BY <1>1, <1>7, <1>17, <1>18

LEMMA RestoreOK ==
    ASSUME NEW w \in Workspaces, Hidden(w), NEW v \in RestoreAdaptiveDualView(w)
    PROVE  Turned(w, v) /\ Logical(v) = Logical(w)
<1>1. PICK visible : visible = Saved(w.slots["primary"]) OBVIOUS
<1>2. PICK view, start : \E key \in Slots : /\ RestoreForms(w, visible, view, start)
                                            /\ v \in Restoring(w, visible, view, key, start)
  BY <1>1, RestoreFrom
<1>3. PICK key \in Slots : /\ RestoreForms(w, visible, view, start)
                           /\ v \in Restoring(w, visible, view, key, start)
  BY <1>2
<1>4. visible \in Content /\ w.focus \in BOOLEAN BY <1>3 DEF RestoreForms
<1>5. view \in View /\ view.layout = w.adaptive.layout BY <1>3 DEF RestoreForms
<1>6. start \in Workspaces /\ Turned(w, start) /\ start.adaptive = view
  BY <1>3 DEF RestoreForms
<1>7. Turned(w, v) /\ Ends(view, v)
  <2>1. CASE v \in Splitting(w, visible, view, key, start)
    BY <1>4, <1>5, <1>6, <2>1, SplittingOK, TurnedThrough
  <2>2. CASE view.visible # "primary"
    <3>1. PICK r \in ReplaceSlotContent(start, "primary", view.slots["primary"]) :
             \/ v \in Splitting(w, visible, view, key, r)
             \/ v \in RollbackAdaptiveSingleView(r, visible, w.focus)
      BY <1>3, <2>2 DEF Restoring
    <3>2. "primary" \in Slots BY SlotFacts
    <3>3. view.slots["primary"] \in Content BY <1>5, <3>2 DEF View
    <3>4. Worked(start, "primary", r) BY <1>6, <3>1, <3>2, <3>3, ReplaceSlotContentOK
    <3>5. r \in Workspaces /\ Turned(w, r) /\ r.adaptive = view
      BY <1>6, <3>2, <3>4, WorkedTurned, TurnedThrough DEF Worked, Kept
    <3>6. CASE v \in Splitting(w, visible, view, key, r)
      BY <1>4, <1>5, <3>5, <3>6, SplittingOK, TurnedThrough
    <3>7. CASE v \in RollbackAdaptiveSingleView(r, visible, w.focus)
      <4>1. Turned(r, v) /\ v.adaptive = r.adaptive BY <1>4, <3>5, <3>7, RollbackOK
      <4>2. QED BY <3>5, <4>1, TurnedThrough DEF Ends
    <3>8. QED BY <3>1, <3>6, <3>7
  <2>3. QED BY <1>3, <2>1, <2>2 DEF Restoring
<1>8. Logical(v) = Logical(w)
  BY <1>5, <1>7, NoViewOK DEF Ends, Logical, Hidden
<1>9. QED BY <1>7, <1>8

LEMMA SyncOK ==
    ASSUME NEW w \in Workspaces, size \in Sizes, NEW v \in SyncAdaptiveSingleView(w)
    PROVE  /\ Turned(w, v)
           /\ Calm(w, v) /\ (w.layout = "single" \/ RegionKnown(w)) => Logical(v) = Logical(w)
           /\ w.presentation # "wide" => v = w
<1>1. PICK z \in Sizes \cup {None} : z = None OBVIOUS
<1>2. PICK u : u = [w EXCEPT !.failedAt = z] OBVIOUS
<1>3. ASSUME NEW x \in Workspaces, NEW y \in Sizes \cup {None}
      PROVE  Moved(x, [x EXCEPT !.failedAt = y])
  <2>1. "sidebar" \in Pages /\ "primary" \in Slots /\ TRUE \in BOOLEAN /\ None \in Named
    BY DEF Pages, Slots, Named
  <2>2. QED BY <1>3, <2>1, Edits
<1>4. Moved(w, u) /\ u \in Workspaces BY <1>2, <1>3 DEF Moved, Kept
<1>5. Turned(w, u) /\ Logical(u) = Logical(w) /\ (Hidden(u) <=> Hidden(w)) /\ u.layout = w.layout
      /\ (RegionKnown(u) <=> RegionKnown(w))
  BY <1>4, MovedTurned, LogicalKept DEF Moved, Kept, Hidden, RegionKnown, Live
<1>6. CASE v = w BY <1>6, KeptSelf, MovedTurned
<1>7. CASE w.presentation = "wide" /\ v = u BY <1>5, <1>7
<1>8. ASSUME NEW x, v = (IF x.ok THEN x ELSE [x EXCEPT !.failedAt = size]), Turned(u, x),
             Calm(u, x) /\ (u.layout = "single" \/ RegionKnown(u)) => Logical(x) = Logical(u)
      PROVE  /\ Turned(w, v)
             /\ Calm(w, v) /\ (w.layout = "single" \/ RegionKnown(w)) => Logical(v) = Logical(w)
  <2>1. x \in Workspaces /\ Turned(w, x) BY <1>4, <1>5, <1>8, TurnedThrough DEF Turned, Later
  <2>2. Moved(x, v) BY <1>3, <1>8, <2>1, KeptSelf
  <2>3. Turned(x, v) /\ Logical(v) = Logical(x) BY <2>1, <2>2, MovedTurned, LogicalKept DEF Moved
  <2>4. Turned(w, v) /\ (Calm(w, v) => Calm(w, x)) BY <2>1, <2>3, TurnedThrough
  <2>5. Calm(w, x) => Calm(u, x) BY <1>4, <1>5, <1>8, TurnedThrough
  <2>6. QED BY <1>5, <1>8, <2>3, <2>4, <2>5
<1>9. \/ v = w
      \/ w.presentation = "wide" /\ v = u
      \/ /\ w.presentation = "wide" /\ Hidden(w)
         /\ \E x \in RestoreAdaptiveDualView(u) :
               v = IF x.ok THEN x ELSE [x EXCEPT !.failedAt = size]
      \/ /\ w.presentation = "wide" /\ w.layout # "single"
         /\ \E x \in EnterAdaptiveSingleView(u) :
               v = IF x.ok THEN x ELSE [x EXCEPT !.failedAt = size]
  BY <1>1, <1>2 DEF SyncAdaptiveSingleView, Fits
<1>10. ASSUME Hidden(w), NEW x \in RestoreAdaptiveDualView(u),
              v = IF x.ok THEN x ELSE [x EXCEPT !.failedAt = size]
       PROVE  /\ Turned(w, v)
              /\ Calm(w, v) /\ (w.layout = "single" \/ RegionKnown(w)) => Logical(v) = Logical(w)
  <2>1. Turned(u, x) /\ Logical(x) = Logical(u) BY <1>4, <1>5, <1>10, RestoreOK
  <2>2. QED BY <1>8, <1>10, <2>1
<1>11. ASSUME w.layout # "single", NEW x \in EnterAdaptiveSingleView(u),
              v = IF x.ok THEN x ELSE [x EXCEPT !.failedAt = size]
       PROVE  /\ Turned(w, v)
              /\ Calm(w, v) /\ (w.layout = "single" \/ RegionKnown(w)) => Logical(v) = Logical(w)
  <2>1. /\ Turned(u, x)
        /\ Calm(u, x) /\ RegionKnown(u) => Logical(x) = Logical(u)
    BY <1>4, <1>11, EnterOK
  <2>2. QED BY <1>5, <1>8, <1>11, <2>1
<1>12. QED BY <1>6, <1>7, <1>9, <1>10, <1>11

-----------------------------------------------------------------------------

LEMMA PresentedOK ==
    ASSUME NEW w \in Workspaces, NEW p \in {"wide", "compact"}, NEW b \in BOOLEAN
    PROVE  /\ [w EXCEPT !.presentation = p] \in Workspaces
           /\ [w EXCEPT !.zoomed = b, !.presentation = p] \in Workspaces
<1>1. [w EXCEPT !.presentation = p] \in Workspaces BY DEF Workspaces
<1>2. [w EXCEPT !.zoomed = b, !.presentation = p] \in Workspaces BY DEF Workspaces
<1>3. QED BY <1>1, <1>2

\* Only the presentation changes.
Presented(w, p, v) ==
    /\ v \in Workspaces /\ v.layout = w.layout /\ v.adaptive = w.adaptive
    /\ v.slots = w.slots /\ v.profile = w.profile /\ v.presentation = p
    /\ v.alive = w.alive /\ v.faults = w.faults

LEMMA PresentedLater ==
    ASSUME NEW w \in Workspaces, NEW p, NEW v, Presented(w, p, v)
    PROVE  Later(w, v) /\ Calm(w, v) /\ Logical(v) = Logical(w)
<1>1. PICK f \in Nat : f = w.faults BY FaultFacts
<1>2. f >= f BY <1>1
<1>3. QED BY <1>1, <1>2 DEF Presented, Later, Once, Lively, Calm, Logical, Hidden

LEMMA EnterCompactOK ==
    ASSUME NEW w \in Workspaces, NEW v \in EnterCompact(w)
    PROVE  Later(w, v) /\ v.presentation = "compact" /\ Logical(v) = Logical(w)
<1>1. PICK c : c = [w EXCEPT !.presentation = "compact"] OBVIOUS
<1>2. c \in Workspaces
  <2>1. TRUE \in BOOLEAN OBVIOUS
  <2>2. QED BY <1>1, <2>1, PresentedOK
<1>3. Presented(w, "compact", c) BY <1>1, <1>2, Zenon DEF Workspaces, Presented
<1>4. Later(w, c) /\ Logical(c) = Logical(w) /\ c.presentation = "compact"
  BY <1>3, PresentedLater DEF Presented
<1>5. PICK u \in IF Hidden(c) THEN RestoreAdaptiveDualView(c) ELSE {c} :
        \E x \in SelectWorkspacePage(u, u.active) :
           v = x \/ v \in SelectWorkspacePage(x, "sidebar")
  BY <1>1 DEF EnterCompact, Then, Either
<1>6. Turned(c, u) /\ Logical(u) = Logical(c) BY <1>2, <1>5, RestoreOK, KeptSelf, MovedTurned
<1>7. u \in Workspaces BY <1>6 DEF Turned, Later
<1>8. PICK x \in SelectWorkspacePage(u, u.active) :
           v = x \/ v \in SelectWorkspacePage(x, "sidebar")
  BY <1>5
<1>9. Moved(u, x) BY <1>7, <1>8, FieldTypes, SelectWorkspacePageOK
<1>10. x \in Workspaces BY <1>9 DEF Moved, Kept
<1>11. Moved(u, v)
  <2>1. "sidebar" \in Pages BY SlotFacts
  <2>2. QED BY <1>7, <1>8, <1>9, <1>10, <2>1, SelectWorkspacePageOK, MovedThrough
<1>12. Turned(c, v) BY <1>2, <1>6, <1>7, <1>11, MovedTurned, TurnedThrough
<1>13. Logical(v) = Logical(u) BY <1>11, LogicalKept DEF Moved
<1>14. QED BY <1>2, <1>4, <1>6, <1>12, <1>13, LaterThrough DEF Turned

LEMMA LeaveCompactOK ==
    ASSUME NEW w \in Workspaces, NEW v \in LeaveCompact(w)
    PROVE  /\ Later(w, v)
           /\ Calm(w, v) => /\ v.layout = w.layout /\ v.slots = w.slots
                            /\ Logical(v) = Logical(w)
<1>1. CASE v \in Fail(w)
  <2>1. Moved(w, v) BY <1>1, FailOK
  <2>2. QED BY <2>1, MovedLater, LogicalKept DEF Moved, Kept
<1>2. PICK u : u = [w EXCEPT !.zoomed = FALSE, !.presentation = "wide"] OBVIOUS
<1>3. u \in Workspaces
  <2>1. FALSE \in BOOLEAN OBVIOUS
  <2>2. QED BY <1>2, <2>1, PresentedOK
<1>4. Presented(w, "wide", u) BY <1>2, <1>3, Zenon DEF Workspaces, Presented
<1>5. Later(w, u) /\ Logical(u) = Logical(w) BY <1>4, PresentedLater
<1>6. ASSUME NEW a \in ApplyLayoutProfile(u), v \in ReconcileFocusFromTmux(a)
      PROVE  /\ Later(w, v)
             /\ Calm(w, v) => /\ v.layout = w.layout /\ v.slots = w.slots
                              /\ Logical(v) = Logical(w)
  <2>1. Saves(u, a) /\ (Calm(u, a) => a = No(u)) BY <1>3, <1>6, ApplyLayoutProfileOK
  <2>2. a \in Workspaces /\ Later(u, a) BY <2>1 DEF Saves, Later
  <2>3. Moved(a, v) BY <1>6, <2>2, ReconcileFocusOK
  <2>4. Later(u, v) /\ (Calm(u, v) => Calm(u, a)) BY <1>3, <2>2, <2>3, MovedLater, LaterThrough
  <2>5. Later(w, v) /\ (Calm(w, v) => Calm(u, v)) BY <1>3, <1>5, <2>4, LaterThrough
  <2>6. ASSUME Calm(w, v)
        PROVE  v.layout = w.layout /\ v.slots = w.slots /\ Logical(v) = Logical(w)
    <3>1. a = No(u) BY <2>1, <2>4, <2>5, <2>6
    <3>2. Moved(u, a) BY <1>3, <3>1, YesOK
    <3>3. Moved(u, v) BY <1>3, <2>3, <3>2, MovedThrough
    <3>4. Logical(v) = Logical(u) BY <3>3, LogicalKept DEF Moved
    <3>5. QED BY <1>4, <1>5, <3>3, <3>4 DEF Presented, Moved, Kept
  <2>7. QED BY <2>5, <2>6
<1>7. v \in Fail(w) \/ \E a \in ApplyLayoutProfile(u) : v \in ReconcileFocusFromTmux(a)
  BY <1>2 DEF LeaveCompact, Then
<1>8. QED BY <1>1, <1>6, <1>7

LEMMA SetPresentationOK ==
    ASSUME NEW w \in Workspaces, NEW p \in {"wide", "compact"},
           NEW v \in SetWorkspacePresentation(w, p)
    PROVE  /\ Later(w, v)
           /\ Calm(w, v) => /\ Logical(v) = Logical(w)
                            /\ \/ v.presentation = "compact"
                               \/ v.layout = w.layout /\ v.slots = w.slots
<1>1. CASE v = w BY <1>1, KeptSelf, MovedLater
<1>2. CASE v \in EnterCompact(w) BY <1>2, EnterCompactOK
<1>3. CASE v \in LeaveCompact(w) BY <1>3, LeaveCompactOK
<1>4. QED BY <1>1, <1>2, <1>3 DEF SetWorkspacePresentation

LEMMA CheckTerminalSizeOK ==
    ASSUME NEW w \in Workspaces, size \in Sizes, NEW v \in CheckTerminalSize(w)
    PROVE  /\ Later(w, v)
           /\ Calm(w, v) /\ (w.layout = "single" \/ RegionKnown(w)) => Logical(v) = Logical(w)
<1>1. PICK p : p = PresentationFor(w.presentation, size) OBVIOUS
<1>2. p \in {"wide", "compact"} BY <1>1 DEF PresentationFor
<1>3. PICK x \in SetWorkspacePresentation(w, p) :
        \E h \in IF x.presentation = "compact" /\ ~x.zoomed THEN RestoreCompactPage(x) ELSE {x} :
           v \in SyncAdaptiveSingleView(h)
  BY <1>1 DEF CheckTerminalSize, Then
<1>4. PICK h \in IF x.presentation = "compact" /\ ~x.zoomed THEN RestoreCompactPage(x) ELSE {x} :
           v \in SyncAdaptiveSingleView(h)
  BY <1>3
<1>5. /\ Later(w, x)
      /\ Calm(w, x) => /\ Logical(x) = Logical(w)
                       /\ \/ x.presentation = "compact"
                          \/ x.layout = w.layout /\ x.slots = w.slots
  BY <1>2, <1>3, SetPresentationOK
<1>6. x \in Workspaces BY <1>5 DEF Later
<1>7. Moved(x, h) BY <1>4, <1>6, RestoreCompactPageOK, KeptSelf
<1>8. h \in Workspaces /\ Logical(h) = Logical(x) BY <1>7, LogicalKept DEF Moved, Kept
<1>9. /\ Turned(h, v)
      /\ Calm(h, v) /\ (h.layout = "single" \/ RegionKnown(h)) => Logical(v) = Logical(h)
      /\ h.presentation # "wide" => v = h
  BY <1>4, <1>8, SyncOK
<1>10. Later(x, v) /\ (Calm(x, v) => Calm(h, v))
  BY <1>6, <1>7, <1>9, MovedLater, LaterThrough DEF Turned
<1>11. Later(w, v) /\ (Calm(w, v) => Calm(w, x) /\ Calm(x, v)) BY <1>5, <1>10, LaterThrough
<1>12. ASSUME Calm(w, v), w.layout = "single" \/ RegionKnown(w) PROVE Logical(v) = Logical(w)
  <2>1. Calm(w, x) /\ Calm(h, v) BY <1>10, <1>11, <1>12
  <2>2. CASE x.presentation = "compact"
    <3>1. v = h BY <1>7, <1>9, <2>2 DEF Moved, Kept
    <3>2. QED BY <1>5, <1>8, <2>1, <3>1
  <2>3. CASE x.layout = w.layout /\ x.slots = w.slots
    <3>1. h.layout = "single" \/ RegionKnown(h)
      BY <1>7, <1>12, <2>3 DEF Moved, Kept, RegionKnown, Live
    <3>2. QED BY <1>5, <1>8, <1>9, <2>1, <3>1
  <2>4. QED BY <1>5, <2>1, <2>2, <2>3
<1>13. QED BY <1>11, <1>12

-----------------------------------------------------------------------------

LEMMA SavesWorks == ASSUME NEW w, NEW v, Saves(w, v) PROVE v \in Workspaces
BY DEF Saves, Later

LEMMA SingledSaves == ASSUME NEW w \in Workspaces, NEW v, Singled(w, v) PROVE Saves(w, v)
BY SingledTurned DEF Saves, Turned, Singled

LEMMA UnsplitSaving ==
    ASSUME NEW w \in Workspaces, NEW v \in CloseSecondarySplit(w) PROVE Saves(w, v)
BY CloseSecondarySplitOK, UnsplitSaves

LEMMA NextLayoutOK ==
    ASSUME NEW w, NEW current \in Layouts PROVE NextAvailableLayout(w, current) \in Layouts
<1>1. \A l \in Layouts : NextLayout[l] \in Layouts BY DEF NextLayout, Layouts
<1>2. QED BY <1>1 DEF NextAvailableLayout

LEMMA RebuildSecondaryOK ==
    ASSUME NEW w \in Workspaces, NEW layout \in Layouts, NEW a \in Named,
           NEW v \in RebuildSecondary(w, layout, a)
    PROVE  Saves(w, v)
<1>1. PICK x \in CreateSecondary(w, layout) :
        v = x \/ (a # None /\ v \in Attach(x, "secondary", a))
  <2>1. CASE a = None BY <2>1 DEF RebuildSecondary, Either
  <2>2. CASE a # None
    <3>1. PICK S : S = CreateSecondary(w, layout) OBVIOUS
    <3>2. v \in UNION {IF x.ok THEN Attach(x, "secondary", a) ELSE {x} : x \in S}
      BY <2>2, <3>1 DEF RebuildSecondary, Either
    <3>3. \E x \in S : v \in IF x.ok THEN Attach(x, "secondary", a) ELSE {x} BY <3>2
    <3>4. QED BY <2>2, <3>1, <3>3
  <2>3. QED BY <2>1, <2>2
<1>2. Saves(w, x) /\ x \in Workspaces
  BY <1>1, CreateSecondaryOK, BuiltSaves, SavesWorks
<1>3. CASE a # None /\ v \in Attach(x, "secondary", a)
  <2>1. a \in Agents /\ "secondary" \in Slots BY <1>3, SlotFacts DEF Named
  <2>2. Saves(x, v) BY <1>2, <1>3, <2>1, AttachOK
  <2>3. QED BY <1>2, <2>2, SavesThrough
<1>4. QED BY <1>1, <1>2, <1>3

LEMMA AbandonedOK ==
    ASSUME NEW w \in Workspaces, NEW v \in Abandoned(w)
    PROVE  Saves(w, v) /\ v.layout = "single"
<1>1. PICK x \in CloseSlot(w, "secondary") : v = [x EXCEPT !.layout = "single"] BY DEF Abandoned
<1>2. "secondary" \in Slots BY SlotFacts
<1>3. Saves(w, x) /\ x \in Workspaces
  BY <1>1, <1>2, CloseSlotOK, WorkedSaves DEF Worked, Kept
<1>4. Singled(x, v) BY <1>1, <1>3, SingledOK
<1>5. QED BY <1>3, <1>4, SingledSaves, SavesThrough DEF Singled

LEMMA TargetOK ==
    ASSUME NEW w \in Workspaces, NEW s \in Slots PROVE Saves(w, [w EXCEPT !.target = s])
<1>1. "sidebar" \in Pages /\ TRUE \in BOOLEAN /\ None \in Named /\ None \in Sizes \cup {None}
  BY DEF Pages, Named
<1>2. QED BY <1>1, Edits, MovedSaves

LEMMA CollapsedOK ==
    ASSUME NEW w \in Workspaces, NEW a \in Named PROVE Saves(w, [w EXCEPT !.collapsed = a])
<1>1. "sidebar" \in Pages /\ "primary" \in Slots /\ TRUE \in BOOLEAN /\ None \in Sizes \cup {None}
  BY DEF Pages, Slots
<1>2. QED BY <1>1, Edits, MovedSaves

LEMMA YesNoSaves == ASSUME NEW w \in Workspaces PROVE Saves(w, Yes(w)) /\ Saves(w, No(w))
BY YesOK, MovedSaves

LEMMA SelectSaves ==
    ASSUME NEW w \in Workspaces, NEW p \in Pages, NEW b, NEW u, u = IF b THEN w ELSE Select(w, p)
    PROVE  Saves(w, u)
BY SelectKeeps, MovedSaves

LEMMA OpenSecondaryOK ==
    ASSUME NEW w \in Workspaces, NEW v \in OpenSecondary(w) PROVE Saves(w, v)
<1>1. PICK a : a = IF w.collapsed \in w.alive /\ w.collapsed # w.slots["primary"].agent
                   THEN w.collapsed ELSE None
  OBVIOUS
<1>2. a \in Named BY <1>1, FieldTypes, SlotsOK
<1>3. PICK u : u = [w EXCEPT !.collapsed = a] OBVIOUS
<1>4. Saves(w, u) /\ u \in Workspaces BY <1>2, <1>3, CollapsedOK, SavesWorks
<1>5. PICK l \in Layouts : l = NextAvailableLayout(u, "single") BY NextLayoutOK DEF Layouts
<1>6. \/ v = No(u)
      \/ \E x \in RebuildSecondary(u, l, a) :
            \/ v = [(IF x.focus THEN x ELSE Select(x, "primary")) EXCEPT !.target = "primary"]
            \/ \E y \in Abandoned(x) : v = No([y EXCEPT !.target = "primary"])
  BY <1>1, <1>3, <1>5 DEF OpenSecondary, Either
<1>7. "primary" \in Slots /\ "primary" \in Pages BY SlotFacts
<1>8. CASE v = No(u) BY <1>4, <1>8, YesNoSaves, SavesThrough
<1>9. ASSUME NEW x \in RebuildSecondary(u, l, a)
      PROVE  Saves(w, x) /\ x \in Workspaces
  BY <1>2, <1>4, <1>9, RebuildSecondaryOK, SavesThrough, SavesWorks
<1>10. ASSUME NEW x \in RebuildSecondary(u, l, a),
              v = [(IF x.focus THEN x ELSE Select(x, "primary")) EXCEPT !.target = "primary"]
       PROVE  Saves(w, v)
  <2>1. PICK z : z = IF x.focus THEN x ELSE Select(x, "primary") OBVIOUS
  <2>2. Saves(x, z) /\ z \in Workspaces BY <1>7, <1>9, <2>1, SelectSaves, SavesWorks
  <2>3. v = [z EXCEPT !.target = "primary"] BY <1>10, <2>1
  <2>4. Saves(z, v) BY <1>7, <2>2, <2>3, TargetOK
  <2>5. QED BY <1>9, <2>2, <2>4, SavesThrough
<1>11. ASSUME NEW x \in RebuildSecondary(u, l, a), NEW y \in Abandoned(x),
              v = No([y EXCEPT !.target = "primary"])
       PROVE  Saves(w, v)
  <2>1. Saves(x, y) /\ y \in Workspaces BY <1>9, <1>11, AbandonedOK, SavesWorks
  <2>2. PICK z : z = [y EXCEPT !.target = "primary"] OBVIOUS
  <2>3. Saves(y, z) /\ z \in Workspaces BY <1>7, <2>1, <2>2, TargetOK, SavesWorks
  <2>4. Saves(z, v) BY <1>11, <2>2, <2>3, YesNoSaves
  <2>5. QED BY <1>9, <2>1, <2>3, <2>4, SavesThrough
<1>12. QED BY <1>6, <1>8, <1>10, <1>11

\* What turning the split leaves when the new orientation fails.
TurnBack(w, a, v, o) ==
    \E x \in Abandoned(v) : \E y \in RebuildSecondary(x, w.layout, a) :
       \/ o = No(y)
       \/ \E z \in Abandoned(y) : o = No([z EXCEPT !.target = "primary"])

TurnedTo(w, x) == {IF w.active = "sidebar" THEN [x EXCEPT !.target = w.target]
                   ELSE [Select(x, w.active) EXCEPT !.target = w.active]}
TurningBack(w, a, x) ==
    UNION {IF y.ok THEN {No(y)}
           ELSE {No([z EXCEPT !.target = "primary"]) : z \in Abandoned(y)} :
             y \in UNION {RebuildSecondary(z, w.layout, a) : z \in Abandoned(x)}}
Turning(w, l, a) ==
    UNION {IF p.ok
           THEN UNION {IF x.ok THEN TurnedTo(w, x) ELSE TurningBack(w, a, x) :
                         x \in RebuildSecondary([p EXCEPT !.layout = "single"], l, a)}
           ELSE {p} : p \in CloseSlot(w, "secondary")}

LEMMA TurnBackOK ==
    ASSUME NEW w \in Workspaces, NEW a \in Named, NEW v \in Workspaces, NEW o,
           TurnBack(w, a, v, o)
    PROVE  Saves(v, o)
<1>0. PICK x \in Abandoned(v) : \E y \in RebuildSecondary(x, w.layout, a) :
         \/ o = No(y)
         \/ \E z \in Abandoned(y) : o = No([z EXCEPT !.target = "primary"])
  BY DEF TurnBack
<1>1. PICK y \in RebuildSecondary(x, w.layout, a) :
         \/ o = No(y)
         \/ \E z \in Abandoned(y) : o = No([z EXCEPT !.target = "primary"])
  BY <1>0
<1>2. Saves(v, x) /\ x \in Workspaces BY <1>0, AbandonedOK, SavesWorks
<1>3. Saves(x, y) /\ y \in Workspaces BY <1>1, <1>2, FieldTypes, RebuildSecondaryOK, SavesWorks
<1>4. Saves(v, y) BY <1>2, <1>3, SavesThrough
<1>5. ASSUME NEW z \in Abandoned(y), o = No([z EXCEPT !.target = "primary"]) PROVE Saves(y, o)
  <2>1. Saves(y, z) /\ z \in Workspaces BY <1>3, <1>5, AbandonedOK, SavesWorks
  <2>2. PICK t : t = [z EXCEPT !.target = "primary"] OBVIOUS
  <2>3. Saves(z, t) /\ t \in Workspaces BY <2>1, <2>2, SlotFacts, TargetOK, SavesWorks
  <2>4. Saves(t, o) BY <1>5, <2>2, <2>3, YesNoSaves
  <2>5. QED BY <1>3, <2>1, <2>3, <2>4, SavesThrough
<1>6. QED BY <1>1, <1>3, <1>4, <1>5, YesNoSaves, SavesThrough

LEMMA TurnSplitOK ==
    ASSUME NEW w \in Workspaces, NEW v \in TurnSplit(w) PROVE Saves(w, v)
<1>1. PICK l \in Layouts : l = NextAvailableLayout(w, w.layout) BY FieldTypes, NextLayoutOK
<1>2. PICK a \in Named : a = w.slots["secondary"].agent BY FieldTypes, SlotFacts
<1>3. \/ v = No(w) \/ v \in CloseSecondarySplit(w)
      \/ \E p \in CloseSlot(w, "secondary") :
           \/ v = p
           \/ \E x \in RebuildSecondary([p EXCEPT !.layout = "single"], l, a) :
                 \/ v = IF w.active = "sidebar" THEN [x EXCEPT !.target = w.target]
                        ELSE [Select(x, w.active) EXCEPT !.target = w.active]
                 \/ TurnBack(w, a, x, v)
  <2>1. \/ v = No(w) \/ v \in CloseSecondarySplit(w)
        \/ v \in Turning(w, NextAvailableLayout(w, w.layout), w.slots["secondary"].agent)
    <3>1. CASE ~RegionKnown(w) BY <3>1 DEF TurnSplit
    <3>2. CASE RegionKnown(w) /\ NextAvailableLayout(w, w.layout) = "single"
      BY <3>2 DEF TurnSplit
    <3>3. CASE RegionKnown(w) /\ NextAvailableLayout(w, w.layout) # "single"
      BY <3>3, Zenon DEF TurnSplit, Either, Then, Turning, TurnedTo, TurningBack
    <3>4. QED BY <3>1, <3>2, <3>3
  <2>2. ASSUME v \in Turning(w, l, a)
        PROVE  \E p \in CloseSlot(w, "secondary") :
                 \/ v = p
                 \/ \E x \in RebuildSecondary([p EXCEPT !.layout = "single"], l, a) :
                        v \in TurnedTo(w, x) \/ v \in TurningBack(w, a, x)
    BY <2>2 DEF Turning
  <2>3. ASSUME NEW x, v \in TurnedTo(w, x)
        PROVE  v = IF w.active = "sidebar" THEN [x EXCEPT !.target = w.target]
                   ELSE [Select(x, w.active) EXCEPT !.target = w.active]
    BY <2>3 DEF TurnedTo
  <2>4. ASSUME NEW x, v \in TurningBack(w, a, x) PROVE TurnBack(w, a, x, v)
    <3>1. PICK y \in UNION {RebuildSecondary(z, w.layout, a) : z \in Abandoned(x)} :
            v \in IF y.ok THEN {No(y)}
                 ELSE {No([z EXCEPT !.target = "primary"]) : z \in Abandoned(y)}
      BY <2>4 DEF TurningBack
    <3>2. \E z \in Abandoned(x) : y \in RebuildSecondary(z, w.layout, a) BY <3>1
    <3>3. v = No(y) \/ \E z \in Abandoned(y) : v = No([z EXCEPT !.target = "primary"]) BY <3>1
    <3>4. QED BY <3>2, <3>3, Zenon DEF TurnBack
  <2>5. CASE v = No(w) \/ v \in CloseSecondarySplit(w) BY <2>5
  <2>6. CASE v \in Turning(w, l, a)
    <3>1. PICK p \in CloseSlot(w, "secondary") :
                 \/ v = p
                 \/ \E x \in RebuildSecondary([p EXCEPT !.layout = "single"], l, a) :
                        v \in TurnedTo(w, x) \/ v \in TurningBack(w, a, x)
      BY <2>2, <2>6
    <3>2. CASE v = p BY <3>1, <3>2
    <3>3. ASSUME NEW x \in RebuildSecondary([p EXCEPT !.layout = "single"], l, a),
                 v \in TurnedTo(w, x) \/ v \in TurningBack(w, a, x)
          PROVE  \/ v = IF w.active = "sidebar" THEN [x EXCEPT !.target = w.target]
                        ELSE [Select(x, w.active) EXCEPT !.target = w.active]
                 \/ TurnBack(w, a, x, v)
      BY <2>3, <2>4, <3>3
    <3>4. QED BY <3>1, <3>2, <3>3
  <2>7. QED BY <1>1, <1>2, <2>1, <2>5, <2>6
<1>4. CASE v = No(w) \/ v \in CloseSecondarySplit(w) BY <1>4, YesNoSaves, UnsplitSaving
<1>5. ASSUME NEW p \in CloseSlot(w, "secondary")
      PROVE  Saves(w, p) /\ p \in Workspaces
  BY <1>5, SlotFacts, CloseSlotOK, WorkedSaves, SavesWorks
<1>6. ASSUME NEW p \in CloseSlot(w, "secondary"),
             NEW x \in RebuildSecondary([p EXCEPT !.layout = "single"], l, a)
      PROVE  Saves(w, x) /\ x \in Workspaces
  <2>1. PICK o : o = [p EXCEPT !.layout = "single"] OBVIOUS
  <2>2. Saves(p, o) /\ o \in Workspaces BY <1>5, <2>1, SingledOK, SingledSaves, SavesWorks
  <2>3. Saves(o, x) /\ x \in Workspaces BY <1>6, <2>1, <2>2, RebuildSecondaryOK, SavesWorks
  <2>4. QED BY <1>5, <2>2, <2>3, SavesThrough
<1>7. ASSUME NEW x \in Workspaces,
             v = IF w.active = "sidebar" THEN [x EXCEPT !.target = w.target]
                 ELSE [Select(x, w.active) EXCEPT !.target = w.active]
      PROVE  Saves(x, v)
  <2>1. CASE w.active = "sidebar" BY <1>7, <2>1, FieldTypes, TargetOK
  <2>2. CASE w.active # "sidebar"
    <3>1. w.active \in Slots /\ w.active \in Pages BY <2>2, FieldTypes DEF Pages
    <3>2. PICK u : u = Select(x, w.active) OBVIOUS
    <3>3. Saves(x, u) /\ u \in Workspaces BY <3>1, <3>2, SelectOK, MovedSaves, SavesWorks
    <3>4. v = [u EXCEPT !.target = w.active] BY <1>7, <2>2, <3>2
    <3>5. Saves(u, v) BY <3>1, <3>3, <3>4, TargetOK
    <3>6. QED BY <3>3, <3>5, SavesThrough
  <2>3. QED BY <2>1, <2>2
<1>8. ASSUME NEW p \in CloseSlot(w, "secondary"),
             NEW x \in RebuildSecondary([p EXCEPT !.layout = "single"], l, a),
             \/ v = IF w.active = "sidebar" THEN [x EXCEPT !.target = w.target]
                    ELSE [Select(x, w.active) EXCEPT !.target = w.active]
             \/ TurnBack(w, a, x, v)
      PROVE  Saves(w, v)
  BY <1>6, <1>7, <1>8, TurnBackOK, SavesThrough
<1>9. QED BY <1>3, <1>4, <1>5, <1>8

LEMMA RotateOK ==
    ASSUME NEW w \in Workspaces, NEW v \in RotateSplit(w) PROVE Later(w, v)
<1>1. PICK n \in View : n = NoView BY NoViewOK
<1>2. PICK u : u = [w EXCEPT !.adaptive = n] OBVIOUS
<1>3. u \in Workspaces BY <1>2 DEF Workspaces
<1>4. /\ u.slots = w.slots /\ u.alive = w.alive /\ u.faults = w.faults
      /\ u.profile = w.profile
  BY <1>2, <1>3, Zenon DEF Workspaces
<1>5. PICK f \in Nat : f = w.faults BY FaultFacts
<1>6. f >= f BY <1>5
<1>7. Later(w, u) BY <1>3, <1>4, <1>5, <1>6 DEF Later, Once, Lively
<1>8. PICK x \in RotateSplitAttempt(u) :
         v \in RestoreCompactPage(IF x.ok THEN [x EXCEPT !.profile = "none"] ELSE x)
  BY <1>1, <1>2 DEF RotateSplit, Then
<1>9. \/ x \in CloseSecondarySplit(u) \/ x \in OpenSecondary(u) \/ x \in TurnSplit(u)
      \/ x = No([u EXCEPT !.layout = "single"])
  BY <1>3, <1>8, FieldTypes DEF RotateSplitAttempt, Layouts
<1>10. Saves(u, x)
  <2>1. CASE x = No([u EXCEPT !.layout = "single"])
    <3>1. PICK o : o = [u EXCEPT !.layout = "single"] OBVIOUS
    <3>2. Saves(u, o) /\ o \in Workspaces BY <1>3, <3>1, SingledOK, SingledSaves, SavesWorks
    <3>3. QED BY <1>3, <2>1, <3>1, <3>2, YesNoSaves, SavesThrough
  <2>2. QED BY <1>3, <1>9, <2>1, UnsplitSaving, OpenSecondaryOK, TurnSplitOK
<1>11. x \in Workspaces /\ Later(w, x) BY <1>3, <1>7, <1>10, LaterThrough DEF Saves, Later
<1>12. PICK y : y = IF x.ok THEN [x EXCEPT !.profile = "none"] ELSE x OBVIOUS
<1>13. Later(w, y)
  <2>1. CASE ~x.ok BY <1>11, <1>12, <2>1
  <2>2. CASE x.ok
    <3>1. y = [x EXCEPT !.profile = "none"] BY <1>12, <2>2
    <3>2. /\ y \in Workspaces /\ y.profile = "none"
          /\ y.alive = x.alive /\ y.faults = x.faults /\ y.slots = x.slots
      BY <1>11, <3>1, GivenUpOK
    <3>3. QED BY <1>11, <3>2 DEF Later, Once, Lively
  <2>3. QED BY <2>1, <2>2
<1>14. y \in Workspaces BY <1>13 DEF Later
<1>15. Moved(y, v) BY <1>8, <1>12, <1>14, RestoreCompactPageOK
<1>16. QED BY <1>13, <1>14, <1>15, MovedLater, LaterThrough

-----------------------------------------------------------------------------

\* A step of the refresh: with no failing call and no profile applied the layout stays.
Stays(w, v) == Saves(w, v) /\ (Calm(w, v) => v.layout = w.layout)

LEMMA StaysThrough ==
    ASSUME NEW w \in Workspaces, NEW x, NEW v, Stays(w, x), Stays(x, v) PROVE Stays(w, v)
BY SavesThrough, LaterThrough DEF Stays, Saves

LEMMA MovedStays == ASSUME NEW w \in Workspaces, NEW v, Moved(w, v) PROVE Stays(w, v)
BY MovedSaves DEF Stays, Moved, Kept
LEMMA WorkedStays ==
    ASSUME NEW w \in Workspaces, NEW s \in Slots, NEW v, Worked(w, s, v) PROVE Stays(w, v)
BY WorkedSaves DEF Stays, Worked, Kept
LEMMA StaysWorks == ASSUME NEW w, NEW v, Stays(w, v) PROVE v \in Workspaces
BY SavesWorks DEF Stays
LEMMA AttachStays ==
    ASSUME NEW w \in Workspaces, NEW s \in Slots, NEW a \in Agents, NEW v \in Attach(w, s, a)
    PROVE  Stays(w, v)
BY AttachOK DEF Stays, Worked, Kept

\* A lost pane goes on with an agent that was not read as gone, or with none.
LEMMA ReopenOK ==
    ASSUME NEW w \in Workspaces, NEW slot \in Slot, NEW dead
    PROVE  SlotReopenTarget(w, slot, dead) \in (Agents \ dead) \cup {None}
<1>1. w.running \subseteq Agents BY FieldTypes
<1>2. QED BY <1>1 DEF SlotReopenTarget

Refilled(v, s, a) == IF a = None THEN {v} ELSE Attach(v, s, a)

LEMMA RefilledOK ==
    ASSUME NEW w \in Workspaces, NEW s \in Slots, NEW a \in w.alive \cup {None},
           NEW v \in Refilled(w, s, a)
    PROVE  /\ Stays(w, v)
           /\ Calm(w, v) => v.slots[Other(s)] = w.slots[Other(s)]
           /\ Calm(w, v) /\ Live(w, s) => Live(v, s)
<1>1. CASE a = None
  <2>1. v = w BY <1>1 DEF Refilled
  <2>2. QED BY <2>1, KeptSelf, MovedStays
<1>2. CASE a # None
  <2>1. a \in Agents /\ a \in w.alive BY <1>2, FieldTypes
  <2>2. v \in Attach(w, s, a) BY <1>2 DEF Refilled
  <2>3. QED BY <2>1, <2>2, AttachOK, AttachStays DEF Worked
<1>3. QED BY <1>1, <1>2

\* Losing the only pane.
LEMMA LosePrimaryAloneOK ==
    ASSUME NEW w \in Workspaces, NEW a \in w.alive \cup {None},
           NEW v \in LosePrimaryAlone(w, a)
    PROVE  Stays(w, v)
<1>1. "primary" \in Slots /\ "primary" \in Pages BY SlotFacts
<1>2. PICK x : x = SetSlot(w, "primary", Closed) OBVIOUS
<1>3. Stays(w, x) /\ x \in Workspaces BY <1>1, <1>2, SlotsOK, SetSlotOK, FitForms, WorkedStays,
         StaysWorks
<1>4. PICK y : y = [x EXCEPT !.target = "primary"] OBVIOUS
<1>5. Moved(x, y)
  <2>1. "sidebar" \in Pages /\ TRUE \in BOOLEAN /\ None \in Named /\ None \in Sizes \cup {None}
    BY DEF Pages, Named
  <2>2. QED BY <1>1, <1>3, <1>4, <2>1, Edits
<1>6. Stays(w, y) /\ y \in Workspaces BY <1>3, <1>5, MovedStays, StaysThrough, StaysWorks
<1>7. y.alive = w.alive BY <1>6 DEF Stays, Saves, Later
<1>8. PICK z \in IF a = None \/ ~w.slots["primary"].history THEN {y}
                 ELSE Attach(y, "primary", a) :
         v = [(IF w.focus THEN z ELSE Select(z, "primary"))
                 EXCEPT !.focus = w.focus \/ z.slots["primary"].pane = "none"]
  BY <1>2, <1>4 DEF LosePrimaryAlone, Then
<1>9. Stays(y, z) /\ z \in Workspaces
  <2>1. CASE z = y BY <1>6, <2>1, KeptSelf, MovedStays
  <2>2. CASE a # None /\ z \in Attach(y, "primary", a)
    <3>1. a \in Agents BY <2>2, FieldTypes
    <3>2. QED BY <1>1, <1>6, <2>2, <3>1, AttachStays, StaysWorks
  <2>3. QED BY <1>8, <2>1, <2>2
<1>10. PICK u : u = IF w.focus THEN z ELSE Select(z, "primary") OBVIOUS
<1>11. u \in Workspaces /\ Moved(z, u) BY <1>1, <1>9, <1>10, SelectKeeps
<1>12. PICK b \in BOOLEAN : b = (w.focus \/ z.slots["primary"].pane = "none") BY FieldTypes
<1>13. v = [u EXCEPT !.focus = b] BY <1>8, <1>10, <1>12
<1>14. Moved(u, v)
  <2>1. None \in Named /\ None \in Sizes \cup {None} BY SlotsOK
  <2>2. QED BY <1>1, <1>11, <1>12, <1>13, <2>1, Edits
<1>15. QED BY <1>6, <1>9, <1>11, <1>14, MovedStays, StaysThrough

-----------------------------------------------------------------------------

\* Both panes again, with what they go on with.
Aimed(w, v) == IF w.focus THEN v ELSE Select(v, v.target)
Readied(w, target, second, v) ==
    {Aimed(w, [x EXCEPT !.collapsed = None, !.target = target]) :
       x \in Refilled(v, "secondary", second)}
Degrading(w, second, v) ==
    {Aimed(w, [x EXCEPT !.target = "primary",
                        !.collapsed = IF w.layout = "single" THEN second
                                      ELSE IF @ \in v.alive THEN @ ELSE None]) :
       x \in Abandoned(v)}
Pairing(w, layout, target, second, v) ==
    UNION {IF x.ok THEN Readied(w, target, second, x) ELSE Degrading(w, second, x) :
             x \in CreateSecondary(v, layout)}

LEMMA AimedOK ==
    ASSUME NEW w \in Workspaces, NEW v \in Workspaces, NEW o, o = Aimed(w, v) PROVE Moved(v, o)
<1>1. v.target \in Pages BY FieldTypes, SlotFacts
<1>2. QED BY <1>1, SelectKeeps DEF Aimed

LEMMA ReadiedOK ==
    ASSUME NEW w \in Workspaces, NEW v \in Workspaces, NEW target \in Slots,
           NEW second \in v.alive \cup {None}, NEW o \in Readied(w, target, second, v)
    PROVE  Stays(v, o)
<1>1. PICK x \in Refilled(v, "secondary", second) :
         o = Aimed(w, [x EXCEPT !.collapsed = None, !.target = target])
  BY DEF Readied
<1>2. Stays(v, x) /\ x \in Workspaces BY <1>1, SlotFacts, RefilledOK, StaysWorks
<1>3. PICK y : y = [x EXCEPT !.collapsed = None, !.target = target] OBVIOUS
<1>4. Moved(x, y)
  <2>1. TRUE \in BOOLEAN OBVIOUS
  <2>2. QED BY <1>2, <1>3, <2>1, SlotsOK, AimEdits
<1>5. y \in Workspaces BY <1>4 DEF Moved, Kept
<1>6. Moved(y, o) BY <1>1, <1>3, <1>5, AimedOK
<1>7. QED BY <1>2, <1>4, <1>5, <1>6, MovedStays, StaysThrough

LEMMA DegradingOK ==
    ASSUME NEW w \in Workspaces, NEW v \in Workspaces, NEW second \in Named,
           NEW o \in Degrading(w, second, v)
    PROVE  Saves(v, o)
<1>1. PICK x \in Abandoned(v) :
         o = Aimed(w, [x EXCEPT !.target = "primary",
                                !.collapsed = IF w.layout = "single" THEN second
                                              ELSE IF x.collapsed \in v.alive
                                              THEN x.collapsed ELSE None])
  BY DEF Degrading
<1>2. Saves(v, x) /\ x \in Workspaces BY <1>1, AbandonedOK, SavesWorks
<1>3. PICK c \in Named : c = IF w.layout = "single" THEN second
                             ELSE IF x.collapsed \in v.alive THEN x.collapsed ELSE None
  BY <1>2, FieldTypes, SlotsOK
<1>4. PICK y : y = [x EXCEPT !.target = "primary", !.collapsed = c] OBVIOUS
<1>5. Moved(x, y)
  <2>1. TRUE \in BOOLEAN /\ "primary" \in Slots BY SlotFacts
  <2>2. QED BY <1>2, <1>4, <2>1, AimEdits
<1>6. y \in Workspaces BY <1>5 DEF Moved, Kept
<1>7. o = Aimed(w, y) BY <1>1, <1>3, <1>4
<1>8. Moved(y, o) BY <1>6, <1>7, AimedOK
<1>9. QED BY <1>2, <1>5, <1>6, <1>8, MovedSaves, SavesThrough

LEMMA PairingOK ==
    ASSUME NEW w \in Workspaces, NEW v \in Workspaces, NEW layout \in Layouts,
           NEW target \in Slots, NEW second \in v.alive \cup {None},
           NEW o \in Pairing(w, layout, target, second, v)
    PROVE  /\ Saves(v, o)
           /\ Calm(v, o) /\ Live(v, "primary") /\ ~Live(v, "secondary") => o.layout = layout
<1>1. PICK x \in CreateSecondary(v, layout) :
        o \in IF x.ok THEN Readied(w, target, second, x) ELSE Degrading(w, second, x)
  BY DEF Pairing
<1>2. Built(v, layout, x) BY <1>1, CreateSecondaryOK
<1>3. Saves(v, x) /\ x \in Workspaces BY <1>2, BuiltSaves, SavesWorks
<1>4. x.alive = v.alive /\ v.alive \subseteq Agents BY <1>2, FieldTypes DEF Built
<1>5. second \in x.alive \cup {None} /\ second \in Named BY <1>4 DEF Named
<1>6. CASE x.ok
  <2>1. Stays(x, o) BY <1>1, <1>3, <1>5, <1>6, ReadiedOK
  <2>2. Saves(v, o) BY <1>3, <2>1, SavesThrough DEF Stays
  <2>3. Calm(v, o) => Calm(x, o) BY <1>3, <2>1, LaterThrough DEF Stays, Saves
  <2>4. ~Live(v, "secondary") => x.layout = layout BY <1>2, <1>6 DEF Built
  <2>5. QED BY <2>1, <2>2, <2>3, <2>4 DEF Stays
<1>7. CASE ~x.ok
  <2>1. Saves(x, o) BY <1>1, <1>3, <1>5, <1>7, DegradingOK
  <2>2. Saves(v, o) BY <1>3, <2>1, SavesThrough
  <2>3. Calm(v, o) => Calm(v, x) BY <1>3, <2>1, LaterThrough DEF Saves
  <2>4. Live(v, "primary") => x.faults # v.faults BY <1>2, <1>7 DEF Built
  <2>5. QED BY <2>2, <2>3, <2>4 DEF Calm
<1>8. QED BY <1>6, <1>7

\* The rebuild: the layout asked for, unless a call failed.
LEMMA RebuildOK ==
    ASSUME NEW w \in Workspaces, ~Live(w, "secondary"), NEW layout \in Layouts,
           NEW target \in Slots, NEW first \in w.alive \cup {None},
           NEW second \in w.alive \cup {None}, NEW o \in Rebuild(w, layout, target, first, second)
    PROVE  Saves(w, o) /\ (Calm(w, o) => o.layout = layout)
<1>1. \/ Live(w, "primary") /\ o \in Pairing(w, layout, target, second, w)
      \/ /\ ~Live(w, "primary")
         /\ \E x \in CreatePrimary(w) :
              \/ x.ok /\ \E y \in Refilled(x, "primary", first) :
                            o \in Pairing(w, layout, target, second, y)
              \/ ~x.ok /\ o \in Degrading(w, second, x)
  <2>1. CASE Live(w, "primary")
    BY <2>1, Zenon DEF Rebuild, Either, Pairing, Readied, Degrading, Aimed, Refilled
  <2>2. CASE ~Live(w, "primary")
    <3>1. o \in UNION {IF x.ok THEN UNION {Pairing(w, layout, target, second, y) :
                                             y \in Refilled(x, "primary", first)}
                       ELSE Degrading(w, second, x) : x \in CreatePrimary(w)}
      BY <2>2, Zenon DEF Rebuild, Either, Then, Pairing, Readied, Degrading, Aimed, Refilled
    <3>2. QED BY <2>2, <3>1
  <2>3. QED BY <2>1, <2>2
<1>2. CASE Live(w, "primary") /\ o \in Pairing(w, layout, target, second, w)
  BY <1>2, PairingOK
<1>3. "primary" \in Slots /\ "secondary" \in Slots /\ Other("primary") = "secondary"
      /\ "secondary" # "sidebar"
  BY SlotFacts
<1>4. ASSUME NEW x \in CreatePrimary(w)
      PROVE  /\ Worked(w, "primary", x) /\ Saves(w, x) /\ x \in Workspaces
             /\ x.alive = w.alive /\ ~Live(x, "secondary")
             /\ x.faults = w.faults => x.ok
             /\ x.ok => Live(x, "primary")
  <2>1. /\ Worked(w, "primary", x) /\ (x.faults = w.faults => x.ok)
        /\ x.ok => Live(x, "primary")
    BY <1>4, CreatePrimaryOK
  <2>2. Saves(w, x) /\ x \in Workspaces BY <1>3, <2>1, WorkedSaves, SavesWorks
  <2>3. x.slots["secondary"] = w.slots["secondary"] /\ x.alive = w.alive
    BY <1>3, <2>1 DEF Worked, Kept
  <2>4. ~Live(x, "secondary") BY <1>3, <2>3 DEF Live
  <2>5. QED BY <2>1, <2>2, <2>3, <2>4
<1>5. ASSUME NEW x \in CreatePrimary(w), x.ok, NEW y \in Refilled(x, "primary", first),
             o \in Pairing(w, layout, target, second, y)
      PROVE  Saves(w, o) /\ (Calm(w, o) => o.layout = layout)
  <2>1. /\ Stays(x, y)
        /\ Calm(x, y) => y.slots["secondary"] = x.slots["secondary"]
        /\ Calm(x, y) => Live(y, "primary")
    BY <1>3, <1>4, <1>5, RefilledOK
  <2>2. y \in Workspaces /\ Saves(x, y) /\ y.alive = w.alive
    BY <1>4, <1>5, <2>1 DEF Stays, Saves, Later
  <2>3. /\ Saves(y, o)
        /\ Calm(y, o) /\ Live(y, "primary") /\ ~Live(y, "secondary") => o.layout = layout
    BY <1>5, <2>2, PairingOK
  <2>4. Saves(x, o) /\ Saves(w, o) BY <1>4, <1>5, <2>2, <2>3, SavesThrough
  <2>5. ASSUME Calm(w, o) PROVE o.layout = layout
    <3>1. Calm(x, o) BY <1>4, <1>5, <2>4, <2>5, LaterThrough DEF Saves
    <3>2. Calm(x, y) /\ Calm(y, o) BY <1>4, <1>5, <2>2, <2>3, <3>1, LaterThrough DEF Saves
    <3>3. Live(y, "primary") /\ y.slots["secondary"] = x.slots["secondary"] BY <2>1, <3>2
    <3>4. ~Live(y, "secondary") BY <1>3, <1>4, <1>5, <3>3 DEF Live
    <3>5. QED BY <2>3, <3>2, <3>3, <3>4
  <2>6. QED BY <2>4, <2>5
<1>6. ASSUME NEW x \in CreatePrimary(w), ~x.ok, o \in Degrading(w, second, x)
      PROVE  Saves(w, o) /\ (Calm(w, o) => o.layout = layout)
  <2>1. second \in Named BY FieldTypes DEF Named
  <2>2. Saves(x, o) BY <1>4, <1>6, <2>1, DegradingOK
  <2>3. Saves(w, o) /\ (Calm(w, o) => Calm(w, x))
    BY <1>4, <1>6, <2>2, SavesThrough, LaterThrough DEF Saves
  <2>4. x.faults # w.faults BY <1>4, <1>6
  <2>5. QED BY <2>3, <2>4 DEF Calm
<1>7. QED BY <1>1, <1>2, <1>5, <1>6

-----------------------------------------------------------------------------

\* A pane whose agent is gone is killed: its slot keeps the name.
Killing(w, b, s) == IF b THEN Lose(w, s, [w.slots[s] EXCEPT !.pane = "dead"]) ELSE {w}

LEMMA DeadEdits ==
    ASSUME NEW x \in Slot, NEW y, y = [x EXCEPT !.pane = "dead"]
    PROVE  y \in Slot /\ y.agent = x.agent /\ y.pane = "dead"
BY DEF Slot

LEMMA KillingOK ==
    ASSUME NEW w \in Workspaces, NEW b, NEW s \in Slots, NEW v \in Killing(w, b, s)
    PROVE  Worked(w, s, v) /\ v \in Workspaces /\ v.alive = w.alive
<1>1. PICK x : x = [w.slots[s] EXCEPT !.pane = "dead"] OBVIOUS
<1>2. x \in Slot /\ x.agent = w.slots[s].agent BY <1>1, FieldTypes, DeadEdits
<1>3. v = w \/ v \in Lose(w, s, x) BY <1>1 DEF Killing
<1>6. Fit(w, s, x) BY <1>1, FieldTypes, DeadEdits, FitForms
<1>4. Worked(w, s, v) BY <1>2, <1>3, <1>6, LoseOK, WorkSelf
<1>5. QED BY <1>4 DEF Worked, Kept

\* Both slots are given up before they are rebuilt.
Bared(v) == [SetSlot(SetSlot(v, "primary", Closed), "secondary", Closed)
               EXCEPT !.layout = "single", !.target = "primary"]

LEMMA BaredOK ==
    ASSUME NEW v \in Workspaces, NEW u, u = Bared(v)
    PROVE  Saves(v, u) /\ u \in Workspaces /\ u.alive = v.alive /\ ~Live(u, "secondary")
<1>1. PICK x : x = SetSlot(v, "primary", Closed) OBVIOUS
<1>2. Saves(v, x) /\ x \in Workspaces
  BY <1>1, SlotFacts, SlotsOK, SetSlotOK, FitForms, WorkedSaves, SavesWorks
<1>3. PICK y : y = SetSlot(x, "secondary", Closed) OBVIOUS
<1>4. Worked(x, "secondary", y) /\ y.slots["secondary"] = Closed
  BY <1>2, <1>3, SlotFacts, SlotsOK, SetSlotOK, FitForms
<1>5. Saves(x, y) /\ y \in Workspaces BY <1>2, <1>4, SlotFacts, WorkedSaves, SavesWorks
<1>6. PICK z : z = [y EXCEPT !.layout = "single"] OBVIOUS
<1>7. Singled(y, z) BY <1>5, <1>6, SingledOK
<1>8. Saves(y, z) /\ z \in Workspaces /\ z.slots = y.slots
  BY <1>5, <1>7, SingledSaves DEF Singled
<1>9. u = [z EXCEPT !.target = "primary"] BY <1>1, <1>3, <1>6, Zenon DEF Bared
<1>10. PICK t : t = [z EXCEPT !.target = "primary"] OBVIOUS
<1>11. Moved(z, t)
  <2>1. "sidebar" \in Pages /\ "primary" \in Slots /\ TRUE \in BOOLEAN /\ None \in Named
        /\ None \in Sizes \cup {None}
    BY DEF Pages, Slots, Named
  <2>2. QED BY <1>8, <1>10, <2>1, Edits
<1>12. Saves(z, u) /\ u.slots = z.slots BY <1>8, <1>9, <1>10, <1>11, MovedSaves DEF Moved
<1>13. Saves(v, u) BY <1>2, <1>5, <1>8, <1>12, SavesThrough
<1>14. u.slots["secondary"] = Closed BY <1>4, <1>8, <1>12
<1>15. QED BY <1>13, <1>14, SlotsOK, SlotFacts DEF Saves, Later, Live

-----------------------------------------------------------------------------

\* The three ways a lost pane is dealt with.
LEMMA BothLostOK ==
    ASSUME NEW w \in Workspaces, NEW v \in Workspaces, Stays(w, v), v.alive = w.alive,
           NEW target \in Slots, NEW first \in w.alive \cup {None},
           NEW second \in w.alive \cup {None},
           NEW c \in CloseSlot(v, "secondary") \cup {Yes(v)}, NEW o,
           \/ o = c /\ ~c.ok
           \/ o \in Rebuild(Bared(c), w.layout, target, first, second)
    PROVE  Stays(w, o)
<1>1. "secondary" \in Slots BY SlotFacts
<1>2. Worked(v, "secondary", c) BY <1>1, CloseSlotOK, WorkSelf, WorkDone
<1>3. Stays(v, c) /\ c \in Workspaces /\ c.alive = v.alive
  BY <1>1, <1>2, WorkedStays DEF Worked, Kept
<1>4. Stays(w, c) BY <1>3, StaysThrough
<1>5. CASE o \in Rebuild(Bared(c), w.layout, target, first, second)
  <2>1. PICK u : u = Bared(c) OBVIOUS
  <2>2. Saves(c, u) /\ u \in Workspaces /\ u.alive = w.alive /\ ~Live(u, "secondary")
    BY <1>3, <2>1, BaredOK
  <2>3. w.layout \in Layouts BY FieldTypes
  <2>4. Saves(u, o) /\ (Calm(u, o) => o.layout = w.layout)
    BY <1>5, <2>1, <2>2, <2>3, RebuildOK
  <2>5. Saves(w, u) BY <1>3, <1>4, <2>2, SavesThrough DEF Stays
  <2>6. Saves(w, o) /\ (Calm(w, o) => Calm(u, o))
    BY <2>2, <2>4, <2>5, SavesThrough, LaterThrough DEF Saves
  <2>7. QED BY <2>4, <2>6 DEF Stays
<1>6. QED BY <1>4, <1>5

LEMMA SecondLostOK ==
    ASSUME NEW w \in Workspaces, NEW v \in Workspaces, Stays(w, v), v.alive = w.alive,
           NEW target \in Slots, NEW second \in w.alive \cup {None},
           NEW o \in Rebuild(SetSlot(v, "secondary", Closed), w.layout, target, None, second)
    PROVE  Stays(w, o)
<1>1. PICK u : u = SetSlot(v, "secondary", Closed) OBVIOUS
<1>2. Worked(v, "secondary", u) /\ u.slots["secondary"] = Closed
  BY <1>1, SlotFacts, SlotsOK, SetSlotOK, FitForms
<1>3. Saves(v, u) /\ u \in Workspaces /\ u.alive = w.alive
  BY <1>2, SlotFacts, WorkedSaves DEF Worked, Kept
<1>4. ~Live(u, "secondary") BY <1>2, SlotsOK, SlotFacts DEF Live
<1>5. w.layout \in Layouts BY FieldTypes
<1>6. Saves(u, o) /\ (Calm(u, o) => o.layout = w.layout)
  BY <1>1, <1>3, <1>4, <1>5, RebuildOK
<1>7. Saves(w, u) BY <1>3, SavesThrough DEF Stays
<1>8. Saves(w, o) /\ (Calm(w, o) => Calm(u, o))
  BY <1>3, <1>6, <1>7, SavesThrough, LaterThrough DEF Saves
<1>9. QED BY <1>6, <1>8 DEF Stays

\* The slots against what tmux shows: when the sessions read as gone are all that are,
\* nothing but a failing call changes the layout.
LEMMA ReconcileLostOK ==
    ASSUME NEW w \in Workspaces, NEW dead \in SUBSET Agents, Agents \ w.alive \subseteq dead,
           NEW deferred, NEW o \in ReconcileLost(w, dead, deferred)
    PROVE  Stays(w, o)
<1> DEFINE DA(s) == w.slots[s].agent \in dead
           LO == {s \in Slots \ deferred : IF w.slots[s].pane = "none" THEN w.layout # "single"
                                ELSE DA(s) \/ w.slots[s].pane = "dead"}
           RE(s) == IF w.slots[s].pane = "none" THEN None
                    ELSE SlotReopenTarget(w, w.slots[s], dead)
           TA == [s \in Slots |-> IF DA(s) THEN None ELSE RE(s)]
           KI(v, s) == Killing(v, s \in LO /\ DA(s) /\ Live(v, s), s)
           KD == UNION {KI(v, "secondary") : v \in KI(w, "primary")}
<1>1. "primary" \in Slots /\ "secondary" \in Slots BY SlotFacts
<1>2. PICK first, second, kept : /\ first = TA["primary"] /\ second = RE("secondary")
                                 /\ kept = TA["secondary"]
  OBVIOUS
<1>3. /\ first \in w.alive \cup {None} /\ second \in w.alive \cup {None}
      /\ kept \in w.alive \cup {None}
  <2>1. \A s \in Slots : w.slots[s] \in Slot BY FieldTypes
  <2>2. \A s \in Slots : RE(s) \in (Agents \ dead) \cup {None} BY <2>1, ReopenOK
  <2> HIDE DEF RE
  <2>3. \A s \in Slots : TA[s] \in {None, RE(s)} OBVIOUS
  <2>4. QED BY <1>1, <1>2, <2>2, <2>3
<1>4. PICK K : K = KD OBVIOUS
<1>5. ASSUME NEW v \in K PROVE Stays(w, v) /\ v \in Workspaces /\ v.alive = w.alive
  <2>1. PICK x \in KI(w, "primary") : v \in KI(x, "secondary") BY <1>4, <1>5
  <2>2. Worked(w, "primary", x) /\ x \in Workspaces /\ x.alive = w.alive
    BY <1>1, <2>1, KillingOK
  <2>3. Worked(x, "secondary", v) /\ v \in Workspaces /\ v.alive = x.alive
    BY <1>1, <2>1, <2>2, KillingOK
  <2>4. Stays(w, x) /\ Stays(x, v) BY <1>1, <2>2, <2>3, WorkedStays
  <2>5. QED BY <2>2, <2>3, <2>4, StaysThrough
<1>6. PICK target \in Slots : target = w.target BY FieldTypes
<1>7. \/ o = w
      \/ \E v \in K : o \in LosePrimaryAlone(v, first)
      \/ \E v \in K : \E c \in CloseSlot(v, "secondary") \cup {Yes(v)} :
            \/ o = c /\ ~c.ok
            \/ o \in Rebuild(Bared(c), w.layout, target, first, second)
      \/ \E v \in K : o \in Rebuild(SetSlot(v, "secondary", Closed), w.layout, target, None,
                                    kept)
  <2>1. CASE LO = {} BY <2>1 DEF ReconcileLost
  <2>2. CASE LO # {} /\ "primary" \in LO /\ w.layout = "single"
    BY <2>2, <1>2, <1>4 DEF ReconcileLost, Then, Killing
  <2>3. CASE LO # {} /\ "primary" \in LO /\ w.layout # "single"
    <3>1. o \in UNION {IF c.ok THEN Rebuild(Bared(c), w.layout, w.target, TA["primary"],
                                          RE("secondary")) ELSE {c} :
                        c \in UNION {IF v.slots["secondary"].pane = "none" THEN {Yes(v)}
                                    ELSE CloseSlot(v, "secondary") : v \in KD}}
      BY <2>3 DEF ReconcileLost, Then, Either, Killing, Bared
    <3>2. PICK v \in K : \E c \in IF v.slots["secondary"].pane = "none" THEN {Yes(v)}
                                 ELSE CloseSlot(v, "secondary") :
             o \in IF c.ok THEN Rebuild(Bared(c), w.layout, target, first, second) ELSE {c}
      <4>1. \E c \in UNION {IF v.slots["secondary"].pane = "none" THEN {Yes(v)}
                           ELSE CloseSlot(v, "secondary") : v \in K} :
               o \in IF c.ok THEN Rebuild(Bared(c), w.layout, target, first, second) ELSE {c}
        BY <1>2, <1>4, <1>6, <3>1
      <4>2. QED BY <4>1
    <3>3. QED BY <3>2
  <2>4. CASE LO # {} /\ "primary" \notin LO
    BY <2>4, <1>2, <1>4, <1>6 DEF ReconcileLost, Then, Killing
  <2>5. QED BY <2>1, <2>2, <2>3, <2>4
<1>8. CASE o = w BY <1>8, KeptSelf, MovedStays
<1>9. ASSUME NEW v \in K, o \in LosePrimaryAlone(v, first) PROVE Stays(w, o)
  <2>1. Stays(v, o) BY <1>3, <1>5, <1>9, LosePrimaryAloneOK
  <2>2. QED BY <1>5, <1>9, <2>1, StaysThrough
<1>10. ASSUME NEW v \in K, NEW c \in CloseSlot(v, "secondary") \cup {Yes(v)},
              \/ o = c /\ ~c.ok
              \/ o \in Rebuild(Bared(c), w.layout, target, first, second)
       PROVE  Stays(w, o)
  BY <1>3, <1>5, <1>10, BothLostOK
<1>11. ASSUME NEW v \in K, o \in Rebuild(SetSlot(v, "secondary", Closed), w.layout, target,
                                         None, kept)
       PROVE  Stays(w, o)
  BY <1>3, <1>5, <1>11, SecondLostOK
<1>12. QED BY <1>7, <1>8, <1>9, <1>10, <1>11

LEMMA ReconcileDisplaySlotsOK ==
    ASSUME NEW w \in Workspaces, NEW dead \in SUBSET Agents, Agents \ w.alive \subseteq dead,
           NEW o \in ReconcileDisplaySlots(w, dead)
    PROVE  Stays(w, o)
<1>1. PICK deferred : o \in ReconcileLost(w, dead, deferred) BY DEF ReconcileDisplaySlots
<1>2. QED BY <1>1, ReconcileLostOK

-----------------------------------------------------------------------------

\* The panes of the layout are there when a handler runs.
Known(w) == w.layout = "single" \/ RegionKnown(w)

\* The refresh in its steps: the registry as it is read, and the sessions read as gone.
Showing(v) == {a \in v.alive : \E s \in Slots : v.slots[s].agent = a}
Listing(v) == {[v EXCEPT !.running = @ \cup back] : back \in {{}, Showing(v)}}
Going(v) == {<<v, Agents \ v.alive>>}
            \cup UNION {{<<x, (Agents \ x.alive) \cup {a}>> : a \in x.alive} : x \in Fail(v)}
Reconciling(v) ==
    UNION {ReconcileDisplaySlots([g[1] EXCEPT !.running = @ \ g[2]], g[2]) : g \in Going(v)}

LEMMA ListingOK ==
    ASSUME NEW w \in Workspaces, NEW v \in Listing(w) PROVE Relisted(w, v)
<1>1. PICK back \in {{}, Showing(w)} : v = [w EXCEPT !.running = w.running \cup back]
  BY DEF Listing
<1>2. PICK r \in SUBSET Agents : r = w.running \cup back
  BY <1>1, FieldTypes DEF Showing
<1>3. v = [w EXCEPT !.running = r] BY <1>1, <1>2
<1>4. QED BY <1>2, <1>3, RunningOK

\* A reconciliation starts from the registry without the sessions read as gone, and these
\* are more than the dead only when the query fails.
Gone(w, x, dead, y) ==
    /\ Moved(w, x) /\ Relisted(x, y)
    /\ dead \subseteq Agents /\ Agents \ x.alive \subseteq dead
    /\ (x = w /\ dead = Agents \ w.alive) \/ x.faults = w.faults + 1

LEMMA ReconcilingFrom ==
    ASSUME NEW w \in Workspaces, NEW o \in Reconciling(w)
    PROVE  \E x, dead, y : Gone(w, x, dead, y) /\ o \in ReconcileDisplaySlots(y, dead)
<1>1. PICK g \in Going(w) :
         o \in ReconcileDisplaySlots([g[1] EXCEPT !.running = g[1].running \ g[2]], g[2])
  BY DEF Reconciling
<1>2. PICK x, dead : x = g[1] /\ dead = g[2] OBVIOUS
<1>3. w.alive \subseteq Agents BY FieldTypes
<1>4. /\ Moved(w, x) /\ dead \subseteq Agents /\ Agents \ x.alive \subseteq dead
      /\ (x = w /\ dead = Agents \ w.alive) \/ x.faults = w.faults + 1
  <2>1. CASE g = <<w, Agents \ w.alive>> BY <1>2, <2>1, KeptSelf
  <2>2. ASSUME NEW y \in Fail(w), NEW a \in y.alive,
               g = <<y, (Agents \ y.alive) \cup {a}>>
        PROVE  /\ Moved(w, x) /\ dead \subseteq Agents /\ Agents \ x.alive \subseteq dead
               /\ x.faults = w.faults + 1
    <3>1. x = y /\ dead = (Agents \ y.alive) \cup {a} BY <1>2, <2>2
    <3>2. Moved(w, y) /\ y.faults = w.faults + 1 BY <2>2, FailOK
    <3>3. y.alive = w.alive BY <3>2 DEF Moved, Kept
    <3>4. QED BY <1>3, <2>2, <3>1, <3>2, <3>3
  <2>3. QED BY <1>1, <2>1, <2>2 DEF Going
<1>5. x \in Workspaces BY <1>4 DEF Moved, Kept
<1>6. PICK r \in SUBSET Agents : r = x.running \ dead BY <1>5, FieldTypes
<1>7. PICK y : y = [x EXCEPT !.running = r] OBVIOUS
<1>8. Relisted(x, y) BY <1>5, <1>6, <1>7, RunningOK
<1>9. o \in ReconcileDisplaySlots(y, dead) BY <1>1, <1>2, <1>6, <1>7
<1>10. QED BY <1>4, <1>8, <1>9 DEF Gone

LEMMA ReconcilingOK ==
    ASSUME NEW w \in Workspaces, NEW o \in Reconciling(w) PROVE Stays(w, o)
<1>1. PICK x, dead, y : Gone(w, x, dead, y) /\ o \in ReconcileDisplaySlots(y, dead)
  BY ReconcilingFrom
<1>2. /\ Moved(w, x) /\ x \in Workspaces /\ Relisted(x, y) /\ y \in Workspaces
      /\ y.alive = x.alive /\ dead \in SUBSET Agents /\ Agents \ x.alive \subseteq dead
  BY <1>1 DEF Gone, Moved, Kept, Relisted
<1>3. Stays(y, o) BY <1>1, <1>2, ReconcileDisplaySlotsOK
<1>4. Stays(x, y)
  <2>1. Turned(x, y) BY <1>2, RelistedTurned
  <2>2. QED BY <1>2, <2>1 DEF Stays, Saves, Turned, Relisted
<1>5. QED BY <1>2, <1>3, <1>4, MovedStays, StaysThrough

LEMMA StaysLogical ==
    ASSUME NEW w \in Workspaces, NEW v, Stays(w, v)
    PROVE  Later(w, v) /\ (Calm(w, v) => Logical(v) = Logical(w))
BY DEF Stays, Saves, Logical, Hidden

\* The steps of a refresh: the size poll or nothing, the focus, the guards, the registry,
\* and the reconciliation.
LEMMA RefreshFrom ==
    ASSUME NEW w \in Workspaces, size \in Sizes, NEW polled \in BOOLEAN,
           NEW o \in RefreshImpl(w, polled)
    PROVE  \E c, f, r, v : /\ c = w \/ c \in CheckTerminalSize(w)
                           /\ Moved(c, f) /\ Relisted(f, r) /\ Relisted(r, v)
                           /\ o \in Reconciling(v)
<1>1. PICK C : C = IF polled THEN CheckTerminalSize(w) ELSE {w} OBVIOUS
<1>2. o \in UNION {Reconciling(v) :
                     v \in UNION {Listing(RepairAdaptiveRunningGuards(f)) :
                                    f \in UNION {ReconcileFocusFromTmux(c) : c \in C}}}
  <2>1. o \in UNION {Reconciling(v) :
              v \in UNION {Listing(RepairAdaptiveRunningGuards(f)) :
                 f \in UNION {ReconcileFocusFromTmux(c) :
                    c \in IF polled THEN CheckTerminalSize(w) ELSE {w}}}}
    BY Zenon DEF RefreshImpl, Then, Reconciling, Listing, Showing, Going
  <2>2. QED BY <1>1, <2>1
<1>3. PICK v \in UNION {Listing(RepairAdaptiveRunningGuards(f)) :
                          f \in UNION {ReconcileFocusFromTmux(c) : c \in C}} :
         o \in Reconciling(v)
  BY <1>2
<1>4. PICK f \in UNION {ReconcileFocusFromTmux(c) : c \in C} :
         v \in Listing(RepairAdaptiveRunningGuards(f))
  BY <1>3
<1>5. PICK c \in C : f \in ReconcileFocusFromTmux(c) BY <1>4
<1>6. c = w \/ c \in CheckTerminalSize(w) BY <1>1, <1>5
<1>7. c \in Workspaces BY <1>6, CheckTerminalSizeOK DEF Later
<1>8. Moved(c, f) BY <1>5, <1>7, ReconcileFocusOK
<1>9. f \in Workspaces BY <1>8 DEF Moved, Kept
<1>10. PICK r : r = RepairAdaptiveRunningGuards(f) OBVIOUS
<1>11. Relisted(f, r) BY <1>9, <1>10, RepairOK
<1>12. r \in Workspaces BY <1>11 DEF Relisted
<1>13. Relisted(r, v) BY <1>4, <1>10, <1>12, ListingOK
<1>14. QED BY <1>3, <1>6, <1>8, <1>11, <1>13

LEMMA RefreshImplOK ==
    ASSUME NEW w \in Workspaces, size \in Sizes, NEW polled \in BOOLEAN,
           NEW o \in RefreshImpl(w, polled)
    PROVE  Later(w, o) /\ (Calm(w, o) /\ Known(w) => Logical(o) = Logical(w))
<1>1. PICK c, f, r, v : /\ c = w \/ c \in CheckTerminalSize(w)
                        /\ Moved(c, f) /\ Relisted(f, r) /\ Relisted(r, v)
                        /\ o \in Reconciling(v)
  BY RefreshFrom
<1>2. Later(w, c) /\ (Calm(w, c) /\ Known(w) => Logical(c) = Logical(w))
  BY <1>1, CheckTerminalSizeOK, KeptSelf, MovedLater DEF Known
<1>3. c \in Workspaces /\ f \in Workspaces /\ r \in Workspaces /\ v \in Workspaces
  BY <1>1, <1>2 DEF Later, Moved, Kept, Relisted
<1>4. Stays(v, o) BY <1>1, <1>3, ReconcilingOK
<1>5. /\ Later(c, f) /\ Logical(f) = Logical(c)
      /\ Later(f, r) /\ Logical(r) = Logical(f)
      /\ Later(r, v) /\ Logical(v) = Logical(r)
      /\ Later(v, o) /\ (Calm(v, o) => Logical(o) = Logical(v))
  BY <1>1, <1>3, <1>4, MovedLater, LogicalKept, RelistedTurned, StaysLogical DEF Moved, Turned
<1>6. Later(c, r) /\ Later(c, v) BY <1>3, <1>5, LaterThrough
<1>7. Later(c, o) /\ (Calm(c, o) => Calm(v, o)) BY <1>3, <1>5, <1>6, LaterThrough
<1>8. Later(w, o) /\ (Calm(w, o) => Calm(w, c) /\ Calm(c, o)) BY <1>2, <1>3, <1>7, LaterThrough
<1>9. QED BY <1>2, <1>5, <1>7, <1>8

-----------------------------------------------------------------------------

\* What a handler other than F8 leaves: a workspace with no agent in both slots when
\* there was none, and, when it met no failure and applied no profile, the same layout.
Goes(w, v) ==
    /\ v \in Workspaces /\ v.faults >= w.faults /\ v.profile \in {w.profile, "none"}
    /\ Once(w) => Once(v)
Steady(w, v) == Goes(w, v) /\ (Calm(w, v) /\ Known(w) => Logical(v) = Logical(w))

LEMMA LaterGoes == ASSUME NEW w, NEW v, Later(w, v) PROVE Goes(w, v)
BY DEF Later, Goes
LEMMA StaysSteady ==
    ASSUME NEW w \in Workspaces, NEW v, Stays(w, v) PROVE Steady(w, v) /\ Later(w, v)
BY StaysLogical, LaterGoes DEF Steady
LEMMA MovedSteady ==
    ASSUME NEW w \in Workspaces, NEW v, Moved(w, v) PROVE Steady(w, v) /\ Later(w, v)
BY MovedStays, StaysSteady

LEMMA GoesThrough ==
    ASSUME NEW w \in Workspaces, NEW x, NEW v, Goes(w, x), Goes(x, v)
    PROVE  Goes(w, v) /\ (Calm(w, v) => Calm(w, x) /\ Calm(x, v))
<1>1. w.faults \in Nat /\ x.faults \in Nat /\ v.faults \in Nat BY FaultFacts DEF Goes
<1>2. QED BY <1>1 DEF Goes, Calm

LEMMA SteadyYes ==
    ASSUME NEW w \in Workspaces, NEW v, Steady(w, v) PROVE Steady(w, Yes(v))
<1>1. v \in Workspaces BY DEF Steady, Goes
<1>2. PICK y : y = Yes(v) OBVIOUS
<1>3. Moved(v, y) /\ y.faults = v.faults BY <1>1, <1>2, YesOK
<1>4. Goes(v, y) /\ Logical(y) = Logical(v) /\ Calm(v, y)
  BY <1>1, <1>3, MovedLater, LaterGoes, LogicalKept DEF Moved, Kept, Calm
<1>5. Goes(w, y) /\ (Calm(w, y) => Calm(w, v)) BY <1>4, GoesThrough DEF Steady
<1>6. Steady(w, y) BY <1>4, <1>5 DEF Steady
<1>7. QED BY <1>2, <1>6

LEMMA HandledSteady ==
    ASSUME ws \in Workspaces, NEW S, \A v \in S : Steady(ws, v), Handle(S)
    PROVE  Steady(ws, ws')
BY SteadyYes DEF Handle

LEMMA HandledLater ==
    ASSUME ws \in Workspaces, NEW S, \A v \in S : Steady(ws, v) /\ Later(ws, v), Handle(S)
    PROVE  Steady(ws, ws') /\ Later(ws, ws')
<1>1. PICK v \in S : ws' = Yes(v) BY DEF Handle
<1>2. Later(ws, v) /\ v \in Workspaces BY DEF Later
<1>3. PICK y : y = Yes(v) OBVIOUS
<1>4. Later(v, y) BY <1>2, <1>3, YesOK, MovedLater
<1>5. Later(ws, y) BY <1>2, <1>4, LaterThrough
<1>6. QED BY <1>1, <1>3, <1>5, HandledSteady

\* Losing a pane: its slot keeps the agent it names.
LEMMA DeadPaneOK ==
    ASSUME NEW w \in Workspaces, NEW s \in Slots,
           NEW v \in Lose(w, s, [w.slots[s] EXCEPT !.pane = "dead"])
    PROVE  Worked(w, s, v)
<1>1. PICK x : x = [w.slots[s] EXCEPT !.pane = "dead"] OBVIOUS
<1>2. x \in Slot /\ x.agent = w.slots[s].agent BY <1>1, FieldTypes, DeadEdits
<1>3. Fit(w, s, x) BY <1>1, FieldTypes, DeadEdits, FitForms
<1>4. QED BY <1>1, <1>2, <1>3, LoseOK

\* An agent goes: nothing else of the workspace does.
LEMMA GoneEdits ==
    ASSUME NEW w \in Workspaces, NEW r \in SUBSET Agents, NEW l \in SUBSET Agents
    PROVE  /\ [w EXCEPT !.alive = l] \in Workspaces
           /\ [w EXCEPT !.running = r, !.alive = l] \in Workspaces
BY DEF Workspaces

Bereft(w, v) ==
    /\ v \in Workspaces /\ v.layout = w.layout /\ v.adaptive = w.adaptive
    /\ v.slots = w.slots /\ v.profile = w.profile /\ v.faults = w.faults

LEMMA BereftOK ==
    ASSUME NEW w \in Workspaces, NEW r \in SUBSET Agents, NEW l \in SUBSET Agents
    PROVE  /\ Bereft(w, [w EXCEPT !.alive = l])
           /\ Bereft(w, [w EXCEPT !.running = r, !.alive = l])
BY GoneEdits, Zenon DEF Bereft, Workspaces

LEMMA BereftSteady ==
    ASSUME NEW w \in Workspaces, NEW v, Bereft(w, v)
    PROVE  Steady(w, v) /\ Calm(w, v) /\ Logical(v) = Logical(w) /\ (Known(w) => Known(v))
<1>1. w.faults \in Nat BY FaultFacts
<1>2. v.faults >= w.faults BY <1>1 DEF Bereft
<1>3. Logical(v) = Logical(w) BY DEF Bereft, Logical, Hidden
<1>4. Known(w) => Known(v) BY DEF Bereft, Known, RegionKnown, Live
<1>5. QED BY <1>2, <1>3, <1>4 DEF Bereft, Steady, Goes, Calm, Once

LEMMA AgentExitsSteady ==
    ASSUME ws \in Workspaces, NEW a \in Agents, AgentExits(a) PROVE Steady(ws, ws')
<1>1. PICK l \in SUBSET Agents : l = ws.alive \ {a} BY FieldTypes
<1>2. PICK w : w = [ws EXCEPT !.alive = l] OBVIOUS
<1>3. PICK r : r = ws.running OBVIOUS
<1>4. Bereft(ws, w) BY <1>1, <1>2, <1>3, FieldTypes, BereftOK
<1>5. w \in Workspaces BY <1>4 DEF Bereft
<1>6. /\ Steady(ws, w) /\ Calm(ws, w) /\ Logical(w) = Logical(ws) BY <1>4, BereftSteady
<1>7. \/ ws' = w
      \/ \E s \in Slots : Handle(Lose(w, s, [w.slots[s] EXCEPT !.pane = "dead"]))
  BY <1>1, <1>2 DEF AgentExits
<1>8. ASSUME NEW s \in Slots, NEW v \in Lose(w, s, [w.slots[s] EXCEPT !.pane = "dead"])
      PROVE  Steady(ws, v)
  <2>1. Stays(w, v) BY <1>5, <1>8, DeadPaneOK, WorkedStays
  <2>2. Goes(w, v) /\ (Calm(w, v) => Logical(v) = Logical(w))
    BY <1>5, <2>1, StaysLogical, LaterGoes
  <2>3. Goes(ws, v) /\ (Calm(ws, v) => Calm(w, v)) BY <1>6, <2>2, GoesThrough DEF Steady
  <2>4. QED BY <1>6, <2>2, <2>3 DEF Steady
<1>9. QED BY <1>6, <1>7, <1>8, HandledSteady

LEMMA PaneDiesSteady ==
    ASSUME ws \in Workspaces, NEW s \in Slots, PaneDies(s)
    PROVE  Steady(ws, ws') /\ Later(ws, ws')
<1>1. PICK S : S = Lose(ws, s, [ws.slots[s] EXCEPT !.pane = "dead"]) OBVIOUS
<1>2. \A v \in S : Steady(ws, v) /\ Later(ws, v)
  BY <1>1, DeadPaneOK, WorkedStays, StaysSteady
<1>3. Handle(S) BY <1>1 DEF PaneDies
<1>4. QED BY <1>2, <1>3, HandledLater

LEMMA FocusMovesSteady ==
    ASSUME ws \in Workspaces, NEW p \in Pages, FocusMoves(p)
    PROVE  Steady(ws, ws') /\ Later(ws, ws')
<1>1. PICK z \in {FALSE, ws.zoomed} : ws' = [ws EXCEPT !.active = p, !.zoomed = z]
  BY DEF FocusMoves
<1>2. z \in BOOLEAN BY FieldTypes
<1>3. PICK y : y = [ws EXCEPT !.active = p, !.zoomed = z] OBVIOUS
<1>4. Moved(ws, y) BY <1>2, <1>3, PaneEdits
<1>5. QED BY <1>1, <1>3, <1>4, MovedSteady

LEMMA PreviewSteady ==
    ASSUME ws \in Workspaces, OnSessionPreview PROVE Steady(ws, ws') /\ Later(ws, ws')
<1>1. PICK s \in Slots : s = ws.target BY FieldTypes
<1>2. PICK under : /\ under = IF ws.slots[s].history THEN ws.slots[s].under
                              ELSE IF ws.slots[s].pane = "live" /\ ws.slots[s].agent \in ws.alive
                              THEN ws.slots[s].agent ELSE None
  OBVIOUS
<1>3. under \in Named BY <1>1, <1>2, FieldTypes, SlotsOK
<1>4. PICK S : S = ShowTranscript(ws, s, under) OBVIOUS
<1>5. \A v \in S : Steady(ws, v) /\ Later(ws, v)
  BY <1>3, <1>4, ShowTranscriptOK, WorkedStays, StaysSteady
<1>6. Handle(S) BY <1>1, <1>2, <1>4 DEF OnSessionPreview
<1>7. QED BY <1>5, <1>6, HandledLater

LEMMA WindowResizedSteady ==
    ASSUME ws \in Workspaces, size \in Sizes, WindowResized
    PROVE  Steady(ws, ws') /\ Later(ws, ws')
<1>1. \A v \in CheckTerminalSize(ws) : Steady(ws, v) /\ Later(ws, v)
  BY CheckTerminalSizeOK, LaterGoes DEF Steady, Known
<1>2. QED BY <1>1, HandledLater DEF WindowResized

LEMMA RefreshImplSteady ==
    ASSUME NEW w \in Workspaces, size \in Sizes, NEW polled \in BOOLEAN,
           NEW v \in RefreshImpl(w, polled)
    PROVE  Steady(w, v) /\ Later(w, v)
BY RefreshImplOK, LaterGoes DEF Steady

LEMMA RefreshSteady ==
    ASSUME ws \in Workspaces, size \in Sizes, NEW polled \in BOOLEAN, Refresh(polled)
    PROVE  Steady(ws, ws') /\ Later(ws, ws')
<1>1. \A v \in RefreshImpl(ws, polled) : Steady(ws, v) /\ Later(ws, v)
  BY RefreshImplSteady
<1>2. QED BY <1>1, HandledLater DEF Refresh

-----------------------------------------------------------------------------

\* A row of Running: the slot forgets a preview, takes the agent and is focused.
Taking(v, s, stealFocus) ==
    IF ~stealFocus THEN {v}
    ELSE IF v.presentation = "compact"
         THEN SelectWorkspacePage([Select(v, s) EXCEPT !.focus = FALSE], s)
         ELSE {[Select(v, s) EXCEPT !.focus = FALSE]}

LEMMA TakingOK ==
    ASSUME NEW w \in Workspaces, NEW s \in Slots, NEW b, NEW v \in Taking(w, s, b)
    PROVE  Moved(w, v)
<1>1. s \in Pages BY SlotFacts
<1>2. PICK x : x = Select(w, s) OBVIOUS
<1>3. Moved(w, x) /\ x \in Workspaces BY <1>1, <1>2, SelectOK DEF Moved, Kept
<1>4. PICK y : y = [x EXCEPT !.focus = FALSE] OBVIOUS
<1>5. Moved(x, y)
  <2>1. FALSE \in BOOLEAN /\ None \in Named /\ None \in Sizes \cup {None} BY SlotsOK
  <2>2. QED BY <1>1, <1>3, <1>4, <2>1, Edits
<1>6. Moved(w, y) /\ y \in Workspaces BY <1>3, <1>5, MovedThrough DEF Moved, Kept
<1>7. v = w \/ v = y \/ v \in SelectWorkspacePage(y, s) BY <1>2, <1>4 DEF Taking
<1>8. QED BY <1>1, <1>6, <1>7, KeptSelf, SelectWorkspacePageOK, MovedThrough

LEMMA ForgetOK ==
    ASSUME NEW w \in Workspaces, NEW s \in Slots, NEW v,
           v = [w EXCEPT !.target = s, !.slots[s].history = FALSE, !.slots[s].under = None]
    PROVE  Worked(w, s, v) /\ v \in Workspaces
<1>1. PICK x : x = [w.slots[s] EXCEPT !.history = FALSE] OBVIOUS
<1>2. PICK y : y = [x EXCEPT !.under = None] OBVIOUS
<1>3. y \in Slot /\ y.agent = w.slots[s].agent /\ y.pane = w.slots[s].pane
  <2>1. w.slots[s] \in Slot BY FieldTypes
  <2>2. x \in Slot /\ x.agent = w.slots[s].agent /\ x.pane = w.slots[s].pane
    BY <1>1, <2>1 DEF Slot
  <2>3. QED BY <1>2, <2>2, SlotsOK DEF Slot
<1>4. PICK u : u = SetSlot(w, s, y) OBVIOUS
<1>5. Worked(w, s, u) /\ u \in Workspaces BY <1>3, <1>4, SetSlotOK, FitForms DEF Kept
<1>6. PICK z : z = [u EXCEPT !.target = s] OBVIOUS
<1>7. Moved(u, z)
  <2>1. "sidebar" \in Pages /\ TRUE \in BOOLEAN /\ None \in Named /\ None \in Sizes \cup {None}
    BY DEF Pages, Named
  <2>2. QED BY <1>5, <1>6, <2>1, Edits
<1>8. Worked(w, s, z) /\ z \in Workspaces
  BY <1>5, <1>7, MovedWorks, WorkedThrough DEF Moved, Kept
<1>9. v = z
  <2>1. w.slots \in [Slots -> Slot] /\ w.slots[s] \in Slot BY FieldTypes
  <2>2. PICK f : f = [w.slots EXCEPT ![s] = y] OBVIOUS
  <2>3. z = [w EXCEPT !.slots = f, !.target = s]
    BY <1>4, <1>6, <2>2 DEF SetSlot, Workspaces
  <2>4. [[w.slots EXCEPT ![s].history = FALSE] EXCEPT ![s].under = None] = f
    BY <1>1, <1>2, <2>1, <2>2
  <2>5. v = [[w EXCEPT !.target = s]
                EXCEPT !.slots = [[w.slots EXCEPT ![s].history = FALSE] EXCEPT ![s].under = None]]
    BY DEF Workspaces
  <2>6. QED BY <2>3, <2>4, <2>5 DEF Workspaces
<1>10. QED BY <1>8, <1>9

LEMMA OnRunningSelectSteady ==
    ASSUME ws \in Workspaces, NEW a \in Agents, NEW steal \in BOOLEAN,
           OnRunningSelect(a, steal)
    PROVE  Steady(ws, ws') /\ Later(ws, ws')
<1> DEFINE shown == {s \in Slots : ws.slots[s].agent = a}
           SS == IF shown = {} THEN ws.target ELSE CHOOSE t \in shown : TRUE
<1>1. PICK s \in Slots : s = SS BY FieldTypes
<1>2. PICK w : w = [ws EXCEPT !.target = s, !.slots[s].history = FALSE, !.slots[s].under = None]
  OBVIOUS
<1>3. Worked(ws, s, w) /\ w \in Workspaces BY <1>2, ForgetOK
<1>4. Stays(ws, w) BY <1>3, WorkedStays
<1>5. PICK S : S = UNION {IF v.ok THEN Taking(v, s, steal) ELSE {v} : v \in Attach(w, s, a)}
  OBVIOUS
<1>6. ASSUME NEW o \in S PROVE Steady(ws, o) /\ Later(ws, o)
  <2>1. PICK v \in Attach(w, s, a) : o = v \/ o \in Taking(v, s, steal) BY <1>5, <1>6
  <2>2. Stays(w, v) /\ v \in Workspaces BY <1>3, <2>1, AttachStays, StaysWorks
  <2>3. Moved(v, o) BY <2>1, <2>2, KeptSelf, TakingOK
  <2>4. Stays(w, o) BY <1>3, <2>2, <2>3, MovedStays, StaysThrough
  <2>5. QED BY <1>3, <1>4, <2>4, StaysThrough, StaysSteady
<1>7. Handle(S)
  <2>1. Handle(UNION {IF v.ok THEN Taking(v, SS, steal) ELSE {v} :
                        v \in Attach([ws EXCEPT !.target = SS, !.slots[SS].history = FALSE,
                                               !.slots[SS].under = None], SS, a)})
    BY Zenon DEF OnRunningSelect, Taking, Either
  <2>2. QED BY <1>1, <1>2, <1>5, <2>1
<1>8. QED BY <1>6, <1>7, HandledLater

-----------------------------------------------------------------------------

\* Killing an agent: it leaves its slot, then the refresh runs without it.
LEMMA ReadyOK ==
    ASSUME NEW w \in Workspaces, NEW s \in Slots,
           NEW v \in IF Live(w, s) THEN ResetSlot(w, s) ELSE {Yes(SetSlot(w, s, Closed))}
    PROVE  Worked(w, s, v) /\ v \in Workspaces /\ (v.ok /\ Known(w) => Known(v))
<1>1. CASE Live(w, s)
  <2>1. /\ Worked(w, s, v) /\ (v.ok => v.slots[s] = Empty) BY <1>1, ResetSlotOK
  <2>2. v \in Workspaces /\ v.layout = w.layout /\ v.slots[Other(s)] = w.slots[Other(s)]
    BY <2>1 DEF Worked, Kept
  <2>3. ASSUME v.ok, Known(w) PROVE Known(v)
    <3>1. CASE w.layout = "single" BY <2>2, <3>1 DEF Known
    <3>2. CASE w.slots["primary"].pane = "live" /\ w.slots["secondary"].pane = "live"
      <4>1. v.slots[s].pane = "live" BY <2>1, <2>3, SlotsOK
      <4>2. v.slots[Other(s)].pane = "live" BY <2>2, <3>2, SlotFacts DEF Slots
      <4>3. v.slots["primary"].pane = "live" /\ v.slots["secondary"].pane = "live"
        BY <4>1, <4>2, SlotFacts
      <4>4. QED BY <4>3 DEF Known, RegionKnown, Live
    <3>3. QED BY <2>3, <3>1, <3>2, SlotFacts DEF Known, RegionKnown, Live
  <2>4. QED BY <2>1, <2>2, <2>3
<1>2. CASE ~Live(w, s)
  <2>1. PICK x : x = SetSlot(w, s, Closed) OBVIOUS
  <2>2. Worked(w, s, x) BY <2>1, SlotsOK, SetSlotOK, FitForms
  <2>3. Worked(w, s, v) BY <1>2, <2>1, <2>2, WorkDone
  <2>4. v \in Workspaces /\ v.layout = w.layout BY <2>3 DEF Worked, Kept
  <2>5. Known(w) => w.layout = "single"
    BY <1>2, SlotFacts DEF Known, RegionKnown, Slots
  <2>6. QED BY <2>3, <2>4, <2>5 DEF Known
<1>3. QED BY <1>1, <1>2

LEMMA KillSessionSteady ==
    ASSUME ws \in Workspaces, size \in Sizes, NEW a \in Agents, KillSession(a)
    PROVE  Steady(ws, ws')
<1> DEFINE Shown == {s \in Slots : ws.slots[s].agent = a}
           RD == IF Shown = {} THEN {Yes(ws)}
                 ELSE UNION {IF Live(ws, s) THEN ResetSlot(ws, s)
                             ELSE {Yes(SetSlot(ws, s, Closed))} : s \in Shown}
           Bare(w) == [w EXCEPT !.running = @ \ {a}, !.alive = @ \ {a}]
           KD(w) == UNION {RefreshImpl(Bare(w), polled) : polled \in BOOLEAN}
           S == UNION {IF w.ok THEN KD(w) \cup Fail(w) ELSE {w} : w \in RD}
<1>1. ASSUME NEW w \in RD
      PROVE  Stays(ws, w) /\ w \in Workspaces /\ (w.ok /\ Known(ws) => Known(w))
  <2>1. CASE w = Yes(ws)
    <3>1. Moved(ws, w) BY <2>1, YesOK
    <3>2. Known(ws) => Known(w) BY <3>1 DEF Known, RegionKnown, Live, Moved, Kept
    <3>3. QED BY <3>1, <3>2, MovedStays, StaysWorks
  <2>2. ASSUME NEW s \in Slots,
               w \in IF Live(ws, s) THEN ResetSlot(ws, s) ELSE {Yes(SetSlot(ws, s, Closed))}
        PROVE  Stays(ws, w) /\ w \in Workspaces /\ (w.ok /\ Known(ws) => Known(w))
    BY <2>2, ReadyOK, WorkedStays
  <2>3. QED BY <1>1, <2>1, <2>2
<1>2. ASSUME NEW o \in S PROVE Steady(ws, o)
  <2>1. PICK w \in RD : o \in IF w.ok THEN KD(w) \cup Fail(w) ELSE {w} BY <1>2
  <2>2. Stays(ws, w) /\ w \in Workspaces /\ (w.ok /\ Known(ws) => Known(w)) BY <1>1, <2>1
  <2>3. CASE o = w BY <2>2, <2>3, StaysSteady
  <2>4. CASE o \in Fail(w)
    <3>1. Stays(w, o) BY <2>2, <2>4, FailOK, MovedStays
    <3>2. QED BY <2>2, <3>1, StaysThrough, StaysSteady
  <2>5. CASE w.ok /\ o \in KD(w)
    <3>1. PICK r, l : r = w.running \ {a} /\ l = w.alive \ {a} OBVIOUS
    <3>2. r \in SUBSET Agents /\ l \in SUBSET Agents BY <2>2, <3>1, FieldTypes
    <3>3. PICK b : b = [w EXCEPT !.running = r, !.alive = l] OBVIOUS
    <3>4. b \in Workspaces /\ Bereft(w, b) BY <2>2, <3>2, <3>3, BereftOK, GoneEdits
    <3>5. Goes(w, b) /\ Calm(w, b) /\ Logical(b) = Logical(w) /\ (Known(w) => Known(b))
      BY <2>2, <3>4, BereftSteady DEF Steady
    <3>6. PICK polled \in BOOLEAN : o \in RefreshImpl(b, polled) BY <2>5, <3>1, <3>3
    <3>7. Steady(b, o) BY <3>4, <3>6, RefreshImplSteady
    <3>8. Goes(b, o) BY <3>7 DEF Steady
    <3>9. Goes(w, o) /\ (Calm(w, o) => Calm(b, o)) BY <2>2, <3>5, <3>8, GoesThrough
    <3>10. Goes(ws, w) /\ (Calm(ws, w) => Logical(w) = Logical(ws))
      BY <2>2, StaysLogical, LaterGoes
    <3>11. Goes(ws, o) /\ (Calm(ws, o) => Calm(ws, w) /\ Calm(w, o))
      BY <3>9, <3>10, GoesThrough
    <3>12. Calm(ws, o) /\ Known(ws) => Logical(o) = Logical(ws)
      BY <2>2, <2>5, <3>5, <3>7, <3>9, <3>10, <3>11 DEF Steady
    <3>13. QED BY <3>11, <3>12 DEF Steady
  <2>6. QED BY <2>1, <2>3, <2>4, <2>5
<1>3. Handle(S) BY Zenon DEF KillSession, Either
<1>4. PICK T : T = S OBVIOUS
<1>5. (\A v \in T : Steady(ws, v)) /\ Handle(T) BY <1>2, <1>3, <1>4
<1>6. QED BY <1>5, HandledSteady

-----------------------------------------------------------------------------

LEMMA TypeForms ==
    TypeOK <=> ws \in Workspaces /\ size \in Sizes /\ events \in 0 .. MaxEvents
BY Zenon DEF TypeOK, Workspaces

LEMMA OnceForms == ShownOnce <=> Once(ws)
BY DEF ShownOnce, Once

LEMMA LayoutInit == Init => TypeOK /\ ShownOnce
<1> SUFFICES ASSUME Init PROVE TypeOK /\ ShownOnce OBVIOUS
<1>1. PICK profile \in Profiles :
        ws = [layout |-> "single", presentation |-> "wide",
              page |-> "sidebar", target |-> "primary",
              slots |-> [s \in Slots |-> Closed], collapsed |-> None,
              adaptive |-> NoView, failedAt |-> None, profile |-> profile,
              focus |-> TRUE, active |-> "sidebar", zoomed |-> FALSE,
              running |-> Agents, alive |-> Agents,
              faults |-> 0, ok |-> TRUE]
  BY DEF Init
<1>2. PICK f \in [Slots -> Slot] : f = [s \in Slots |-> Closed] BY SlotsOK
<1>3. PICK n \in View : n = NoView BY NoViewOK
<1>4. 0 \in 0 .. MaxFaults /\ 0 \in 0 .. MaxEvents BY BoundsAssumption
<1>5. /\ "single" \in Layouts /\ "sidebar" \in Pages /\ "primary" \in Slots /\ None \in Named
  BY SlotFacts, SlotsOK DEF Layouts
<1>6. ws = [layout |-> "single", presentation |-> "wide",
              page |-> "sidebar", target |-> "primary",
              slots |-> f, collapsed |-> None,
              adaptive |-> n, failedAt |-> None, profile |-> profile,
              focus |-> TRUE, active |-> "sidebar", zoomed |-> FALSE,
              running |-> Agents, alive |-> Agents,
              faults |-> 0, ok |-> TRUE]
  BY <1>1, <1>2, <1>3
<1>7. ws \in Workspaces BY <1>4, <1>5, <1>6 DEF Workspaces
<1>8. TypeOK BY <1>4, <1>7, TypeForms DEF Init
<1>9. \A s \in Slots : ws.slots[s].agent = None
  <2>1. ws.slots = f BY <1>6
  <2>2. QED BY <1>2, <2>1, SlotsOK
<1>10. QED BY <1>8, <1>9 DEF ShownOnce

\* One step: everything but F8 is steady; and everything but an agent's end leaves no dead
\* agent in a live pane.
Ending(a) == AgentExits(a) \/ KillSession(a)
LEMMA LayoutSteps ==
    ASSUME TypeOK, [Next]_vars
    PROVE  /\ Steady(ws, ws') \/ (Rotate /\ Later(ws, ws'))
           /\ Later(ws, ws') \/ (\E a \in Agents : Ending(a))
<1>1. ws \in Workspaces /\ size \in Sizes /\ events \in 0 .. MaxEvents BY TypeForms
<1>2. ASSUME ws' = ws PROVE Steady(ws, ws') /\ Later(ws, ws')
  BY <1>1, <1>2, KeptSelf, MovedSteady
<1>3. ASSUME Rotate PROVE Later(ws, ws')
  <2>1. PICK v \in RotateSplit(ws) : ws' = Yes(v) BY <1>3 DEF Rotate, Handle
  <2>2. Later(ws, v) /\ v \in Workspaces BY <1>1, <2>1, RotateOK DEF Later
  <2>3. PICK y : y = Yes(v) OBVIOUS
  <2>4. Moved(v, y) BY <2>2, <2>3, YesOK
  <2>5. Later(v, y) BY <2>2, <2>4, MovedLater
  <2>6. QED BY <1>1, <2>1, <2>2, <2>3, <2>5, LaterThrough
<1>4. CASE UNCHANGED vars BY <1>2, <1>4 DEF vars
<1>5. CASE \E sz \in Sizes : Resize(sz) BY <1>2, <1>5 DEF Resize
<1>6. CASE \E a \in Agents : AgentExits(a) BY <1>1, <1>6, AgentExitsSteady DEF Ending
<1>7. CASE \E a \in Agents : KillSession(a) BY <1>1, <1>7, KillSessionSteady DEF Ending
<1>8. CASE \E s \in Slots : PaneDies(s) BY <1>1, <1>8, PaneDiesSteady
<1>9. CASE \E p \in Pages : FocusMoves(p) BY <1>1, <1>9, FocusMovesSteady
<1>10. CASE \E a \in Agents, steal \in BOOLEAN : OnRunningSelect(a, steal)
  BY <1>1, <1>10, OnRunningSelectSteady
<1>11. CASE Rotate BY <1>3, <1>11
<1>12. CASE OnSessionPreview BY <1>1, <1>12, PreviewSteady
<1>13. CASE WindowResized BY <1>1, <1>13, WindowResizedSteady
<1>14. CASE \E polled \in BOOLEAN : Refresh(polled) BY <1>1, <1>14, RefreshSteady
<1>15. QED
  BY <1>4, <1>5, <1>6, <1>7, <1>8, <1>9, <1>10, <1>11, <1>12, <1>13, <1>14 DEF Next

\* The bounds of the other two variables.
LEMMA LayoutCounts ==
    ASSUME TypeOK, [Next]_vars PROVE size' \in Sizes /\ events' \in 0 .. MaxEvents
<1>1. size \in Sizes /\ events \in 0 .. MaxEvents BY TypeForms
<1>2. CASE UNCHANGED vars BY <1>1, <1>2 DEF vars
<1>3. ASSUME Happens PROVE events' \in 0 .. MaxEvents
  BY <1>1, <1>3, BoundsAssumption DEF Happens
<1>4. CASE Next
  BY <1>1, <1>3, <1>4 DEF Next, Resize, AgentExits, KillSession, PaneDies, FocusMoves,
     OnRunningSelect, Rotate, OnSessionPreview, WindowResized, Refresh
<1>5. QED BY <1>2, <1>4

LEMMA LayoutNext ==
    ASSUME TypeOK, [Next]_vars
    PROVE  TypeOK' /\ (ShownOnce => ShownOnce')
<1>1. ws' \in Workspaces /\ (Once(ws) => Once(ws'))
  BY LayoutSteps DEF Steady, Goes, Later
<1>2. size' \in Sizes /\ events' \in 0 .. MaxEvents BY LayoutCounts
<1>3. TypeOK' <=> ws' \in Workspaces /\ size' \in Sizes /\ events' \in 0 .. MaxEvents
  BY Zenon DEF TypeOK, Workspaces
<1>4. ShownOnce' <=> Once(ws') BY DEF ShownOnce, Once
<1>5. QED BY <1>1, <1>2, <1>3, <1>4, OnceForms

\* Every handler leaves a workspace of the right shape, whatever calls fail in it: the
\* records that the panes, the saved view and the registry keep (ui/workspace.py).
THEOREM WorkspaceTypes == Spec => []TypeOK
<1>1. Init => TypeOK BY LayoutInit
<1>2. TypeOK /\ [Next]_vars => TypeOK' BY LayoutNext
<1>3. QED BY <1>1, <1>2, PTL DEF Spec

\* One agent is never shown in both panes: _can_display asks the other slot before an
\* agent is attached, and no rebuild, swap of panes, rollback or restore goes round it.
THEOREM ShownInOneSlot == Spec => []ShownOnce
<1>1. Init => TypeOK /\ ShownOnce BY LayoutInit
<1>2. TypeOK /\ ShownOnce /\ [Next]_vars => (TypeOK /\ ShownOnce)' BY LayoutNext
<1>3. QED BY <1>1, <1>2, PTL DEF Spec

\* Only F8 or the saved profile changes the layout the user chose, as long as tmux does
\* what it is asked and the panes of the layout are there: the size poll, a refresh, an
\* exit, a kill and a selection all leave the one behind the single view as it was.
THEOREM OnlyF8Commits == Spec => OnlyF8ChoosesWhenLive
<1>1. TypeOK /\ [Next]_vars =>
        [Logical(ws') # Logical(ws) /\ Faultless
         /\ (ws.layout = "single" \/ RegionKnown(ws))
           => Rotate \/ ws'.profile # ws.profile]_vars
  BY LayoutSteps DEF Steady, Calm, Known, Faultless
<1>2. QED BY <1>1, WorkspaceTypes, PTL DEF Spec, OnlyF8ChoosesWhenLive

-----------------------------------------------------------------------------

\* The end of an agent: a slot that named it names a pane that is gone, or nothing.
LEMMA LivelyWithout ==
    ASSUME NEW w \in Workspaces, Lively(w), NEW a \in Agents, NEW b \in Workspaces,
           b.alive = w.alive \ {a}, b.slots = w.slots,
           \A t \in Slots : w.slots[t].agent = a => w.slots[t].pane # "live"
    PROVE  Lively(b)
BY DEF Lively, Sound

LEMMA AgentExitsLively ==
    ASSUME ws \in Workspaces, Once(ws), Lively(ws), NEW a \in Agents, AgentExits(a)
    PROVE  Lively(ws')
<1>1. PICK l \in SUBSET Agents : l = ws.alive \ {a} BY FieldTypes
<1>2. PICK w : w = [ws EXCEPT !.alive = l] OBVIOUS
<1>3. PICK r : r = ws.running OBVIOUS
<1>4. w \in Workspaces /\ w.slots = ws.slots /\ w.alive = ws.alive \ {a}
  BY <1>1, <1>2, GoneEdits DEF Workspaces
<1>5. \/ /\ {s \in Slots : Live(ws, s) /\ ws.slots[s].agent = a} = {}
         /\ ws' = w
      \/ \E s \in Slots : /\ ws.slots[s].agent = a
                          /\ Handle(Lose(w, s, [w.slots[s] EXCEPT !.pane = "dead"]))
  BY <1>1, <1>2 DEF AgentExits
<1>6. CASE /\ {s \in Slots : Live(ws, s) /\ ws.slots[s].agent = a} = {}
           /\ ws' = w
  <2>1. \A t \in Slots : ws.slots[t].agent = a => ws.slots[t].pane # "live"
    BY <1>6, SlotFacts DEF Live
  <2>2. QED BY <1>4, <1>6, <2>1, LivelyWithout
<1>7. ASSUME NEW s \in Slots, ws.slots[s].agent = a,
             Handle(Lose(w, s, [w.slots[s] EXCEPT !.pane = "dead"]))
      PROVE  Lively(ws')
  <2>1. PICK v \in Lose(w, s, [w.slots[s] EXCEPT !.pane = "dead"]) : ws' = Yes(v)
    BY <1>7 DEF Handle
  <2>2. PICK x : x = [w.slots[s] EXCEPT !.pane = "dead"] OBVIOUS
  <2>3. x \in Slot /\ x.pane = "dead" BY <1>4, <2>2, FieldTypes, DeadEdits
  <2>4. Kept(w, v) /\ v.slots[s] = x /\ v.slots[Other(s)] = w.slots[Other(s)]
    BY <1>4, <2>1, <2>2, <2>3, LoseOK
  <2>5. v \in Workspaces /\ v.alive = ws.alive \ {a} BY <1>4, <2>4 DEF Kept
  <2>6. Moved(v, Yes(v)) BY <2>5, YesOK
  <2>7. ws'.slots = v.slots /\ ws'.alive = v.alive BY <2>1, <2>6 DEF Moved, Kept
  <2>8. ws.slots[Other(s)].agent # a BY <1>7, BoundsAssumption DEF Once
  <2>9. ASSUME NEW t \in Slots PROVE Sound(ws'.alive, ws'.slots[t])
    <3>1. CASE t = s BY <2>3, <2>4, <2>7, <3>1 DEF Sound
    <3>2. CASE t = Other(s)
      BY <1>4, <2>4, <2>5, <2>7, <2>8, <3>2, SlotFacts DEF Sound, Lively
    <3>3. QED BY <3>1, <3>2, SlotFacts
  <2>10. QED BY <2>9 DEF Lively
<1>8. QED BY <1>5, <1>6, <1>7

\* A killed agent is named by no slot once its own one let it go.
LEMMA NamedNoMore ==
    ASSUME NEW w \in Workspaces, Once(w), NEW a \in Agents, NEW s \in Slots,
           w.slots[s].agent = a, NEW v,
           v \in IF Live(w, s) THEN ResetSlot(w, s) ELSE {Yes(SetSlot(w, s, Closed))}
    PROVE  v.ok => \A t \in Slots : v.slots[t].agent # a
<1>1. a # None BY BoundsAssumption
<1>2. SUFFICES ASSUME v.ok PROVE v.slots[s].agent # a /\ v.slots[Other(s)].agent # a
  BY SlotFacts
<1>3. w.slots[Other(s)].agent # a BY <1>1 DEF Once
<1>4. CASE Live(w, s)
  BY <1>1, <1>2, <1>3, <1>4, ResetSlotOK, SlotsOK DEF Worked
<1>5. CASE ~Live(w, s)
  <2>1. PICK x : x = SetSlot(w, s, Closed) OBVIOUS
  <2>2. x.slots[s] = Closed /\ x.slots[Other(s)] = w.slots[Other(s)] /\ x \in Workspaces
    BY <2>1, SlotsOK, SetSlotOK DEF Kept
  <2>3. v.slots = x.slots BY <1>5, <2>1, <2>2, YesOK DEF Moved
  <2>4. QED BY <1>1, <1>3, <2>2, <2>3, SlotsOK
<1>6. QED BY <1>4, <1>5

LEMMA KillSessionLively ==
    ASSUME ws \in Workspaces, size \in Sizes, Once(ws), Lively(ws), NEW a \in Agents,
           KillSession(a)
    PROVE  Lively(ws')
<1> DEFINE Shown == {s \in Slots : ws.slots[s].agent = a}
           RD == IF Shown = {} THEN {Yes(ws)}
                 ELSE UNION {IF Live(ws, s) THEN ResetSlot(ws, s)
                             ELSE {Yes(SetSlot(ws, s, Closed))} : s \in Shown}
           Bare(w) == [w EXCEPT !.running = @ \ {a}, !.alive = @ \ {a}]
           KD(w) == UNION {RefreshImpl(Bare(w), polled) : polled \in BOOLEAN}
           S == UNION {IF w.ok THEN KD(w) \cup Fail(w) ELSE {w} : w \in RD}
<1>1. ASSUME NEW w \in RD
      PROVE  /\ w \in Workspaces /\ Lively(w)
             /\ w.ok => \A t \in Slots : w.slots[t].agent # a
  <2>1. CASE Shown = {}
    <3>1. w = Yes(ws) BY <1>1, <2>1
    <3>2. Moved(ws, w) BY <3>1, YesOK
    <3>3. \A t \in Slots : ws.slots[t].agent # a BY <2>1
    <3>4. Later(ws, w) BY <3>2, MovedLater
    <3>5. QED BY <3>2, <3>3, <3>4 DEF Moved, Later
  <2>2. ASSUME NEW s \in Shown,
               w \in IF Live(ws, s) THEN ResetSlot(ws, s) ELSE {Yes(SetSlot(ws, s, Closed))}
        PROVE  /\ w \in Workspaces /\ Lively(w)
               /\ w.ok => \A t \in Slots : w.slots[t].agent # a
    <3>1. s \in Slots /\ ws.slots[s].agent = a OBVIOUS
    <3>2. Worked(ws, s, w) /\ w \in Workspaces BY <2>2, <3>1, ReadyOK
    <3>3. Later(ws, w) BY <3>1, <3>2, WorkedLater
    <3>4. w.ok => \A t \in Slots : w.slots[t].agent # a BY <2>2, <3>1, NamedNoMore
    <3>5. QED BY <3>2, <3>3, <3>4 DEF Later
  <2>3. QED BY <1>1, <2>1, <2>2
<1>2. ASSUME NEW o \in S PROVE o \in Workspaces /\ Lively(o)
  <2>1. PICK w \in RD : o \in IF w.ok THEN KD(w) \cup Fail(w) ELSE {w} BY <1>2
  <2>2. /\ w \in Workspaces /\ Lively(w)
        /\ w.ok => \A t \in Slots : w.slots[t].agent # a
    BY <1>1, <2>1
  <2>3. CASE o = w BY <2>2, <2>3
  <2>4. CASE o \in Fail(w)
    <3>1. Later(w, o) BY <2>2, <2>4, FailOK, MovedLater
    <3>2. QED BY <2>2, <3>1 DEF Later
  <2>5. CASE w.ok /\ o \in KD(w)
    <3>1. PICK r, l : r = w.running \ {a} /\ l = w.alive \ {a} OBVIOUS
    <3>2. r \in SUBSET Agents /\ l \in SUBSET Agents BY <2>2, <3>1, FieldTypes
    <3>3. PICK b : b = [w EXCEPT !.running = r, !.alive = l] OBVIOUS
    <3>4. b \in Workspaces /\ b.slots = w.slots /\ b.alive = w.alive \ {a}
      BY <2>2, <3>1, <3>2, <3>3, GoneEdits DEF Workspaces
    <3>9. \A t \in Slots : w.slots[t].agent = a => w.slots[t].pane # "live" BY <2>2, <2>5
    <3>5. Lively(b)
      <4>1. w \in Workspaces /\ Lively(w) BY <2>2
      <4>2. QED BY <3>4, <3>9, <4>1, LivelyWithout
    <3>6. PICK polled \in BOOLEAN : o \in RefreshImpl(b, polled) BY <2>5, <3>1, <3>3
    <3>7. Later(b, o) BY <3>4, <3>6, RefreshImplSteady
    <3>8. QED BY <3>5, <3>7 DEF Later
  <2>6. QED BY <2>1, <2>3, <2>4, <2>5
<1>3. Handle(S) BY Zenon DEF KillSession, Either
<1>4. PICK T : T = S OBVIOUS
<1>5. (\A v \in T : v \in Workspaces /\ Lively(v)) /\ Handle(T) BY <1>2, <1>3, <1>4
<1>6. PICK v \in T : ws' = Yes(v) BY <1>5 DEF Handle
<1>7. v \in Workspaces /\ Lively(v) BY <1>5
<1>8. Later(v, Yes(v)) BY <1>7, YesOK, MovedLater
<1>9. QED BY <1>6, <1>7, <1>8 DEF Later

\* What every workspace the program can be in satisfies, beyond its shape.
Sane(w) == Once(w) /\ Lively(w)

LEMMA SaneInit == Init => TypeOK /\ Sane(ws)
<1> SUFFICES ASSUME Init PROVE TypeOK /\ Sane(ws) OBVIOUS
<1>1. TypeOK /\ Once(ws) BY LayoutInit, OnceForms
<1>2. ws.slots = [s \in Slots |-> Closed] BY DEF Init
<1>3. Lively(ws) BY <1>2, SlotsOK DEF Lively, Sound
<1>4. QED BY <1>1, <1>3 DEF Sane

LEMMA SaneNext ==
    ASSUME TypeOK, Sane(ws), [Next]_vars PROVE TypeOK' /\ Sane(ws')
<1>1. ws \in Workspaces /\ size \in Sizes BY TypeForms
<1>2. TypeOK' /\ Once(ws')
  BY LayoutNext, OnceForms DEF Sane, ShownOnce, Once
<1>3. Later(ws, ws') => Lively(ws') BY DEF Later, Sane
<1>4. ASSUME NEW a \in Agents, Ending(a) PROVE Lively(ws')
  BY <1>1, <1>4, AgentExitsLively, KillSessionLively DEF Ending, Sane
<1>5. QED BY <1>2, <1>3, <1>4, LayoutSteps DEF Sane

-----------------------------------------------------------------------------

\* Saved content that is back, in a slot that was no preview, and in a pane that lives.
LEMMA ContentBack ==
    ASSUME NEW w \in Workspaces, NEW s \in Slots, NEW c \in Content,
           NEW v \in ReplaceSlotContent(w, s, c),
           v.ok, v.faults = w.faults, ~w.slots[s].history
    PROVE  /\ v.slots[s].pane = "live" /\ v.slots[s].agent = SavedAgent(c)
           /\ v.slots[s].history = (c.kind = "preview")
<1>1. c.kind \in {"empty", "agent", "preview"} BY DEF Content
<1>2. ~No(w).ok /\ w.slots[s].history = FALSE BY YesOK, FieldTypes
<1>3. CASE c.kind = "empty"
  <2>1. v \in ResetSlot(w, s) BY <1>3 DEF ReplaceSlotContent
  <2>2. QED BY <1>3, <2>1, ResetSlotOK, SlotsOK DEF SavedAgent
<1>4. CASE c.kind = "agent"
  <2>1. PICK a \in Agents : /\ a = c.agent /\ a \in w.alive /\ CanDisplay(w, s, a)
                            /\ v \in Display(w, s, a)
    BY <1>2, <1>4, FieldTypes DEF ReplaceSlotContent, AttachQuiet, Represented
  <2>2. /\ v.slots[s].agent = a /\ v.slots[s].pane = "live"
        /\ v.slots[s].history = w.slots[s].history
    BY <2>1, DisplayOK
  <2>3. QED BY <1>2, <1>4, <2>1, <2>2 DEF SavedAgent
<1>5. CASE c.kind = "preview"
  <2>1. PICK under : under = IF Represented(w, c.agent) THEN c.agent ELSE None OBVIOUS
  <2>2. under \in Named BY <2>1, FieldTypes DEF Represented, Named
  <2>3. v \in ShowTranscript(w, s, under) BY <1>2, <1>5, <2>1 DEF ReplaceSlotContent
  <2>4. w.slots[s].pane # "dead" BY <1>2, <2>3 DEF ShowTranscript
  <2>5. PICK x : x = [pane |-> "live", agent |-> None, history |-> TRUE, under |-> under]
    OBVIOUS
  <2>6. v.slots[s] = x BY <2>2, <2>3, <2>4, <2>5, ShowTranscriptOK
  <2>7. x.pane = "live" /\ x.agent = None /\ x.history = TRUE BY <2>5
  <2>8. QED BY <1>5, <2>6, <2>7 DEF SavedAgent
<1>6. QED BY <1>1, <1>3, <1>4, <1>5

-----------------------------------------------------------------------------

\* A single view that can be given back: nothing but an empty Pane 2 was made since.
Vacant(w) ==
    \/ w.slots["secondary"].pane = "none"
    \/ w.slots["secondary"] = Empty /\ w.slots["primary"].pane = "live"
Givable(w) == Hidden(w) /\ ~w.slots["primary"].history /\ Lively(w) /\ Vacant(w)

Paired(v) == v.slots["primary"].pane = "live" /\ v.slots["secondary"].pane = "live"

\* The view is given back in v, with shown as what was visible.
Restored(view, shown, v) ==
    LET left == Other(view.visible)
    IN  /\ v.layout = view.layout
        /\ v.slots[left].agent = SavedAgent(view.slots[left])
        /\ v.slots[left].history = (view.slots[left].kind = "preview")
        /\ v.slots[view.visible].agent = shown
        /\ Paired(v) /\ Lively(v)

\* Pane 2 of a restore, when it is whole.
LEMMA SplitBack ==
    ASSUME NEW u \in Workspaces, NEW layout \in Layouts, NEW c \in Content, Vacant(u),
           NEW x \in CreateSecondary(u, layout), x.ok, x.faults = u.faults,
           NEW y \in ReplaceSlotContent(x, "secondary", c), y.ok, y.faults = x.faults
    PROVE  /\ Paired(y) /\ y.slots["primary"] = u.slots["primary"] /\ y \in Workspaces
           /\ y.slots["secondary"].agent = SavedAgent(c)
           /\ y.slots["secondary"].history = (c.kind = "preview")
<1>1. Built(u, layout, x) BY CreateSecondaryOK
<1>2. x \in Workspaces /\ x.slots["primary"] = u.slots["primary"] BY <1>1 DEF Built
<1>3. x.slots["secondary"] = Empty /\ x.slots["primary"].pane = "live"
  <2>1. CASE u.slots["secondary"].pane = "live"
    <3>1. x.slots = u.slots BY <1>1, <2>1 DEF Built, Live
    <3>2. QED BY <2>1, <3>1 DEF Vacant
  <2>2. CASE u.slots["secondary"].pane # "live"
    <3>1. ~Live(u, "secondary") BY <2>2, SlotFacts DEF Live
    <3>2. Live(x, "primary") /\ x.slots["secondary"] = Empty BY <1>1, <3>1 DEF Built
    <3>3. QED BY <3>2, SlotFacts DEF Live
  <2>3. QED BY <2>1, <2>2
<1>4. ~x.slots["secondary"].history /\ "secondary" \in Slots BY <1>3, SlotsOK, SlotFacts
<1>5. /\ y.slots["secondary"].pane = "live" /\ y.slots["secondary"].agent = SavedAgent(c)
      /\ y.slots["secondary"].history = (c.kind = "preview")
  BY <1>2, <1>4, ContentBack
<1>6. Worked(x, "secondary", y) BY <1>2, <1>4, ReplaceSlotContentOK
<1>7. y.slots["primary"] = x.slots["primary"] /\ y \in Workspaces
  BY <1>6, SlotFacts DEF Worked, Kept
<1>8. QED BY <1>2, <1>3, <1>5, <1>7 DEF Paired

\* The end of a restore changes no slot.
LEMMA WhollySlots ==
    ASSUME NEW w \in Workspaces, NEW view \in View, NEW key \in Slots, NEW u \in Workspaces,
           NEW v, v = Wholly(w, view, key, u)
    PROVE  v.slots = u.slots /\ v.faults = u.faults /\ v.layout = view.layout
<1>1. PICK p \in Pages : p = IF w.focus THEN "sidebar" ELSE key BY SlotFacts
<1>2. PICK z : z = Select(u, p) OBVIOUS
<1>3. z \in Workspaces /\ z.slots = u.slots /\ z.faults = u.faults
  BY <1>1, <1>2, SelectOK DEF Moved, Kept
<1>4. PICK e : e = [z EXCEPT !.layout = view.layout, !.collapsed = None, !.target = key,
                             !.focus = w.focus, !.adaptive = NoView]
  OBVIOUS
<1>5. v = Yes(e) BY <1>1, <1>2, <1>4 DEF Wholly
<1>6. /\ view.layout \in Layouts /\ None \in Named /\ w.focus \in BOOLEAN /\ NoView \in View
  BY FieldTypes, SlotsOK, NoViewOK DEF View
<1>7. e \in Workspaces BY <1>3, <1>4, <1>6 DEF Workspaces
<1>8. e.slots = z.slots /\ e.faults = z.faults /\ e.layout = view.layout
  BY <1>3, <1>4, Zenon DEF Workspaces
<1>9. QED BY <1>3, <1>5, <1>7, <1>8, YesOK DEF Moved, Kept

\* What a restore that meets no failure gives back, when nothing stops it.
LEMMA SplittingBack ==
    ASSUME NEW w \in Workspaces, NEW visible \in Content, NEW view \in View,
           view.layout # "single", NEW key \in Slots,
           NEW u \in Workspaces, u.adaptive = view, Vacant(u),
           NEW v \in Splitting(w, visible, view, key, u), v.faults = u.faults
    PROVE  \/ Hidden(v)
           \/ /\ v.layout = view.layout /\ Paired(v)
              /\ v.slots["primary"] = u.slots["primary"]
              /\ v.slots["secondary"].agent = SavedAgent(view.slots["secondary"])
              /\ v.slots["secondary"].history = (view.slots["secondary"].kind = "preview")
<1>1. "secondary" \in Slots /\ w.focus \in BOOLEAN BY SlotFacts, FieldTypes
<1>2. view.layout \in Layouts /\ view.slots["secondary"] \in Content BY <1>1 DEF View
<1>3. PICK x \in CreateSecondary(u, view.layout) :
        \/ v \in RollbackAdaptiveSingleView(x, visible, w.focus)
        \/ \E y \in ReplaceSlotContent(x, "secondary", view.slots["secondary"]) :
             \/ x.ok /\ y.ok /\ v = Wholly(w, view, key, y)
             \/ v \in RollbackAdaptiveSingleView(y, visible, w.focus)
  BY DEF Splitting
<1>4. x \in Workspaces /\ Turned(u, x) /\ x.adaptive = view
  BY <1>2, <1>3, CreateSecondaryOK, BuiltTurned DEF Built
<1>5. CASE v \in RollbackAdaptiveSingleView(x, visible, w.focus)
  <2>1. v.adaptive = x.adaptive BY <1>1, <1>4, <1>5, RollbackOK
  <2>2. QED BY <1>4, <2>1 DEF Hidden
<1>6. ASSUME NEW y \in ReplaceSlotContent(x, "secondary", view.slots["secondary"]),
             v \in RollbackAdaptiveSingleView(y, visible, w.focus)
      PROVE  Hidden(v)
  <2>1. Worked(x, "secondary", y) BY <1>1, <1>2, <1>4, <1>6, ReplaceSlotContentOK
  <2>2. y \in Workspaces /\ y.adaptive = view BY <1>4, <2>1 DEF Worked, Kept
  <2>3. v.adaptive = y.adaptive BY <1>1, <1>6, <2>2, RollbackOK
  <2>4. QED BY <2>2, <2>3 DEF Hidden
<1>7. ASSUME NEW y \in ReplaceSlotContent(x, "secondary", view.slots["secondary"]),
             x.ok, y.ok, v = Wholly(w, view, key, y)
      PROVE  /\ v.layout = view.layout /\ Paired(v)
             /\ v.slots["primary"] = u.slots["primary"]
             /\ v.slots["secondary"].agent = SavedAgent(view.slots["secondary"])
             /\ v.slots["secondary"].history = (view.slots["secondary"].kind = "preview")
  <2>1. Worked(x, "secondary", y) BY <1>1, <1>2, <1>4, <1>7, ReplaceSlotContentOK
  <2>2. y \in Workspaces BY <2>1 DEF Worked, Kept
  <2>3. v.slots = y.slots /\ v.faults = y.faults /\ v.layout = view.layout
    BY <1>7, <2>2, WhollySlots
  <2>4. u.faults \in Nat /\ x.faults \in Nat /\ y.faults \in Nat BY <1>4, <2>2, FaultFacts
  <2>5. x.faults >= u.faults /\ y.faults >= x.faults
    BY <1>4, <2>1 DEF Turned, Later, Worked, Kept
  <2>6. x.faults = u.faults /\ y.faults = x.faults BY <2>3, <2>4, <2>5
  <2>7. /\ Paired(y) /\ y.slots["primary"] = u.slots["primary"]
        /\ y.slots["secondary"].agent = SavedAgent(view.slots["secondary"])
        /\ y.slots["secondary"].history = (view.slots["secondary"].kind = "preview")
    BY <1>2, <1>3, <1>7, <2>6, SplitBack
  <2>8. QED BY <2>3, <2>7 DEF Paired
<1>8. QED BY <1>3, <1>5, <1>6, <1>7

-----------------------------------------------------------------------------

LEMMA SavedBack ==
    ASSUME NEW x \in Slot, ~x.history PROVE SavedAgent(Saved(x)) = x.agent
BY DEF Saved, SavedAgent, Slot

\* A restore that meets no failure gives the view back, or leaves it saved.
LEMMA RestoreBack ==
    ASSUME NEW w \in Workspaces, Givable(w), NEW v \in RestoreAdaptiveDualView(w),
           v.faults = w.faults
    PROVE  Hidden(v) \/ Restored(w.adaptive, w.slots["primary"].agent, v)
<1>1. PICK visible : visible = Saved(w.slots["primary"]) OBVIOUS
<1>2. PICK view, start : \E key \in Slots : /\ RestoreForms(w, visible, view, start)
                                            /\ v \in Restoring(w, visible, view, key, start)
  BY <1>1, RestoreFrom
<1>3. PICK key \in Slots : /\ RestoreForms(w, visible, view, start)
                           /\ v \in Restoring(w, visible, view, key, start)
  BY <1>2
<1>4. /\ visible \in Content /\ w.focus \in BOOLEAN
      /\ view \in View /\ view.layout = w.adaptive.layout
      /\ view.visible = w.adaptive.visible /\ view.slots[view.visible] = visible
      /\ view.slots[Other(view.visible)] = w.adaptive.slots[Other(w.adaptive.visible)]
      /\ start \in Workspaces /\ start.adaptive = view
      /\ start.slots = w.slots /\ start.faults = w.faults
  BY <1>3 DEF RestoreForms
<1>5. /\ view.layout # "single" /\ Vacant(start) /\ ~start.slots["primary"].history
      /\ Vacant(w) /\ Lively(w)
  BY <1>4 DEF Givable, Hidden, Vacant
<1>6. SavedAgent(visible) = w.slots["primary"].agent
  BY <1>1, SavedBack, FieldTypes, SlotFacts DEF Givable
<1>7. view.visible \in Slots BY <1>4 DEF View
<1>8. Lively(v)
  <2>1. Hidden(w) BY DEF Givable
  <2>2. Later(w, v) BY <2>1, RestoreOK DEF Turned
  <2>3. QED BY <1>5, <2>2 DEF Later
<1>9. CASE view.visible = "primary"
  <2>1. v \in Splitting(w, visible, view, key, start) BY <1>3, <1>9 DEF Restoring
  <2>2. \/ Hidden(v)
        \/ /\ v.layout = view.layout /\ Paired(v)
           /\ v.slots["primary"] = start.slots["primary"]
           /\ v.slots["secondary"].agent = SavedAgent(view.slots["secondary"])
           /\ v.slots["secondary"].history = (view.slots["secondary"].kind = "preview")
    BY <1>4, <1>5, <2>1, SplittingBack
  <2>3. Other(w.adaptive.visible) = "secondary" /\ w.adaptive.visible = "primary"
    BY <1>4, <1>9, SlotFacts
  <2>4. view.slots["secondary"] = w.adaptive.slots["secondary"] BY <1>4, <2>3
  <2>5. QED BY <1>4, <1>8, <2>2, <2>3, <2>4 DEF Restored
<1>10. CASE view.visible # "primary"
  <2>1. view.visible = "secondary" BY <1>7, <1>10, SlotFacts
  <2>2. Other(w.adaptive.visible) = "primary" /\ w.adaptive.visible = "secondary"
    BY <1>4, <2>1, SlotFacts
  <2>3. view.slots["primary"] = w.adaptive.slots["primary"] /\ view.slots["secondary"] = visible
    BY <1>4, <2>2
  <2>4. PICK r \in ReplaceSlotContent(start, "primary", view.slots["primary"]) :
           \/ r.ok /\ v \in Splitting(w, visible, view, key, r)
           \/ v \in RollbackAdaptiveSingleView(r, visible, w.focus)
    BY <1>3, <1>10 DEF Restoring
  <2>5. "primary" \in Slots BY SlotFacts
  <2>6. view.slots["primary"] \in Content BY <1>4, <2>5 DEF View
  <2>7. Worked(start, "primary", r) BY <1>4, <2>4, <2>5, <2>6, ReplaceSlotContentOK
  <2>8. /\ r \in Workspaces /\ r.adaptive = view /\ r.faults >= start.faults
        /\ r.slots["secondary"] = start.slots["secondary"]
    BY <1>4, <2>7, SlotFacts DEF Worked, Kept
  <2>9. CASE v \in RollbackAdaptiveSingleView(r, visible, w.focus)
    <3>1. v.adaptive = r.adaptive BY <1>4, <2>8, <2>9, RollbackOK
    <3>2. QED BY <1>5, <2>8, <3>1 DEF Hidden
  <2>10. CASE r.ok /\ v \in Splitting(w, visible, view, key, r)
    <3>1. Turned(r, v) BY <1>4, <2>8, <2>10, SplittingOK
    <3>2. r.faults = start.faults /\ v.faults = r.faults
      <4>1. v.faults >= r.faults /\ v.faults = start.faults
        BY <1>4, <3>1 DEF Turned, Later
      <4>2. start.faults \in Nat /\ r.faults \in Nat BY <1>4, <2>8, FaultFacts
      <4>3. QED BY <2>8, <4>1, <4>2
    <3>3. /\ r.slots["primary"].pane = "live"
          /\ r.slots["primary"].agent = SavedAgent(view.slots["primary"])
          /\ r.slots["primary"].history = (view.slots["primary"].kind = "preview")
      BY <1>4, <1>5, <2>4, <2>5, <2>6, <2>10, <3>2, ContentBack
    <3>4. Vacant(r) BY <1>5, <2>8, <3>3 DEF Vacant
    <3>5. \/ Hidden(v)
          \/ /\ v.layout = view.layout /\ Paired(v)
             /\ v.slots["primary"] = r.slots["primary"]
             /\ v.slots["secondary"].agent = SavedAgent(view.slots["secondary"])
      BY <1>4, <1>5, <2>8, <2>10, <3>2, <3>4, SplittingBack
    <3>6. QED BY <1>4, <1>6, <1>8, <2>2, <2>3, <3>3, <3>5 DEF Restored
  <2>11. QED BY <2>4, <2>9, <2>10
<1>11. QED BY <1>9, <1>10

-----------------------------------------------------------------------------

\* What a step may do with a view: without a failure, keep it or give it back whole.
Gives(w, v) ==
    /\ v \in Workspaces /\ v.faults >= w.faults
    /\ v.faults = w.faults /\ Givable(w)
         => Hidden(v) \/ Restored(w.adaptive, w.slots["primary"].agent, v)

\* A step on the way to the restore leaves what it needs.
Paves(w, v) ==
    /\ v \in Workspaces /\ v.faults >= w.faults
    /\ v.faults = w.faults /\ Givable(w)
         => /\ Givable(v) /\ v.adaptive = w.adaptive
            /\ v.slots["primary"].agent = w.slots["primary"].agent

\* A step after it keeps what it gave back.
Keeps(w, v) ==
    /\ v \in Workspaces /\ v.faults >= w.faults
    /\ v.faults = w.faults => /\ Hidden(w) => Hidden(v)
                              /\ \A view, shown : Restored(view, shown, w)
                                                    => Restored(view, shown, v)

LEMMA PavesGives ==
    ASSUME NEW w \in Workspaces, NEW x, NEW v, Paves(w, x), Gives(x, v) PROVE Gives(w, v)
<1>1. w.faults \in Nat /\ x.faults \in Nat /\ v.faults \in Nat BY FaultFacts DEF Paves, Gives
<1>2. QED BY <1>1 DEF Paves, Gives
LEMMA PavesPaves ==
    ASSUME NEW w \in Workspaces, NEW x, NEW v, Paves(w, x), Paves(x, v) PROVE Paves(w, v)
<1>1. w.faults \in Nat /\ x.faults \in Nat /\ v.faults \in Nat BY FaultFacts DEF Paves
<1>2. QED BY <1>1 DEF Paves
LEMMA PavesOn ==
    ASSUME NEW w \in Workspaces, NEW v, Paves(w, v) PROVE Gives(w, v)
BY DEF Paves, Gives, Givable
LEMMA GivesKeeps ==
    ASSUME NEW w \in Workspaces, NEW x, NEW v, Gives(w, x), Keeps(x, v) PROVE Gives(w, v)
<1>1. w.faults \in Nat /\ x.faults \in Nat /\ v.faults \in Nat BY FaultFacts DEF Keeps, Gives
<1>2. v.faults >= w.faults /\ (v.faults = w.faults => v.faults = x.faults /\ x.faults = w.faults)
  BY <1>1 DEF Gives, Keeps
<1>3. QED BY <1>2 DEF Gives, Keeps

\* Steps that leave the slots, the layout and the view alone are both.
Same(w, v) ==
    /\ v \in Workspaces /\ v.faults >= w.faults /\ v.slots = w.slots
    /\ v.layout = w.layout /\ v.adaptive = w.adaptive /\ v.alive = w.alive
LEMMA SameOK ==
    ASSUME NEW w \in Workspaces, NEW v, Same(w, v)
    PROVE  Paves(w, v) /\ Keeps(w, v) /\ Gives(w, v)
<1>1. Hidden(v) = Hidden(w) /\ (Lively(w) => Lively(v)) /\ Paired(v) = Paired(w)
      /\ Vacant(v) = Vacant(w)
  BY DEF Same, Hidden, Lively, Paired, Vacant
<1>2. Paves(w, v) BY <1>1 DEF Same, Paves, Givable
<1>3. Keeps(w, v) BY <1>1 DEF Same, Keeps, Restored
<1>4. QED BY <1>2, <1>3, PavesOn
LEMMA MovedSame == ASSUME NEW w \in Workspaces, NEW v, Moved(w, v) PROVE Same(w, v)
BY DEF Moved, Kept, Same
LEMMA RelistedSame == ASSUME NEW w \in Workspaces, NEW v, Relisted(w, v) PROVE Same(w, v)
<1>1. w.faults \in Nat BY FaultFacts
<1>2. v.faults >= w.faults BY <1>1 DEF Relisted
<1>3. QED BY <1>2 DEF Relisted, Same
LEMMA PresentedSame ==
    ASSUME NEW w \in Workspaces, NEW p, NEW v, Presented(w, p, v) PROVE Same(w, v)
<1>1. w.faults \in Nat BY FaultFacts
<1>2. v.faults >= w.faults BY <1>1 DEF Presented
<1>3. QED BY <1>2 DEF Presented, Same
LEMMA RestoreGives ==
    ASSUME NEW w \in Workspaces, Hidden(w), NEW v \in RestoreAdaptiveDualView(w)
    PROVE  Gives(w, v)
BY RestoreBack, RestoreOK DEF Gives, Turned, Later

-----------------------------------------------------------------------------

LEMMA FaultPaves ==
    ASSUME NEW w \in Workspaces, NEW v \in Workspaces, v.faults > w.faults
    PROVE  Paves(w, v) /\ Gives(w, v) /\ Keeps(w, v)
<1>1. w.faults \in Nat /\ v.faults \in Nat BY FaultFacts
<1>2. v.faults >= w.faults /\ v.faults # w.faults BY <1>1
<1>3. QED BY <1>2 DEF Paves, Gives, Keeps

\* Pane 2 that a profile builds is empty, beside a primary pane that lives.
LEMMA BuiltPaves ==
    ASSUME NEW w \in Workspaces, NEW layout, NEW u, Built(w, layout, u) PROVE Paves(w, u)
<1>1. /\ u \in Workspaces /\ u.faults >= w.faults /\ u.adaptive = w.adaptive
      /\ u.slots["primary"] = w.slots["primary"]
  BY DEF Built
<1>2. Hidden(u) = Hidden(w) BY <1>1 DEF Hidden
<1>3. Lively(w) => Lively(u) BY BuiltLater DEF Later
<1>4. ASSUME Vacant(w) PROVE Vacant(u)
  <2>1. CASE u.slots["secondary"] = w.slots["secondary"] BY <1>1, <1>4, <2>1 DEF Vacant
  <2>2. CASE u.slots["secondary"] = Closed BY <2>2, SlotsOK DEF Vacant
  <2>3. CASE u.ok /\ ~Live(w, "secondary")
    <3>1. u.slots["secondary"] = Empty /\ Live(u, "primary") BY <2>3 DEF Built
    <3>2. QED BY <3>1, SlotFacts DEF Vacant, Live
  <2>4. QED BY <2>1, <2>2, <2>3 DEF Built
<1>5. QED BY <1>1, <1>2, <1>3, <1>4 DEF Paves, Givable

LEMMA GivenUpSame ==
    ASSUME NEW w \in Workspaces
    PROVE  Same(w, Yes([w EXCEPT !.profile = "none"])) /\ Same(w, ProfileGivenUp(w))
<1>1. PICK u : u = [w EXCEPT !.profile = "none"] OBVIOUS
<1>2. /\ u \in Workspaces /\ u.adaptive = w.adaptive /\ u.layout = w.layout
      /\ u.alive = w.alive /\ u.faults = w.faults /\ u.slots = w.slots
  BY <1>1, GivenUpOK
<1>3. Moved(u, Yes(u)) /\ Moved(u, No(u)) BY <1>2, YesOK
<1>4. Same(w, Yes(u)) /\ Same(w, No(u)) BY <1>2, <1>3 DEF Moved, Kept, Same
<1>5. QED BY <1>1, <1>4 DEF ProfileGivenUp

LEMMA ProfilePaves ==
    ASSUME NEW w \in Workspaces, NEW v \in ApplyLayoutProfile(w) PROVE Paves(w, v)
<1>1. CASE v = No(w) BY <1>1, YesOK, MovedSame, SameOK
<1>2. CASE v = ProfileGivenUp(w) \/ v = Yes([w EXCEPT !.profile = "none"])
  BY <1>2, GivenUpSame, SameOK
<1>3. ASSUME NEW x \in Fail(w), v = ProfileGivenUp(x) PROVE Paves(w, v)
  <2>1. x \in Workspaces /\ x.faults > w.faults BY <1>3, FailOK DEF Moved, Kept
  <2>2. Same(x, v) BY <1>3, <2>1, GivenUpSame
  <2>3. Paves(w, x) /\ Paves(x, v) BY <2>1, <2>2, FaultPaves, SameOK
  <2>4. QED BY <2>3, PavesPaves
<1>4. ASSUME w.profile # "none", NEW u \in CreateSecondary(w, w.profile),
             \/ v = ProfileGivenUp(u)
             \/ v = Yes([u EXCEPT !.profile = "none"])
             \/ \E y \in Fail(u) : \E x \in CloseSlot(y, "secondary") :
                   v = ProfileGivenUp([x EXCEPT !.layout = "single"])
      PROVE  Paves(w, v)
  <2>1. w.profile \in Layouts BY <1>4, FieldTypes, BoundsAssumption DEF Layouts
  <2>2. Built(w, w.profile, u) BY <1>4, <2>1, CreateSecondaryOK
  <2>3. Paves(w, u) /\ u \in Workspaces BY <2>2, BuiltPaves DEF Paves
  <2>4. CASE v = ProfileGivenUp(u) \/ v = Yes([u EXCEPT !.profile = "none"])
    BY <2>3, <2>4, GivenUpSame, SameOK, PavesPaves
  <2>5. ASSUME NEW y \in Fail(u), NEW x \in CloseSlot(y, "secondary"),
               v = ProfileGivenUp([x EXCEPT !.layout = "single"])
        PROVE  Paves(w, v)
    <3>1. y \in Workspaces /\ y.faults > u.faults BY <2>3, <2>5, FailOK DEF Moved, Kept
    <3>2. x \in Workspaces /\ x.faults >= y.faults
      BY <2>5, <3>1, SlotFacts, CloseSlotOK DEF Worked, Kept
    <3>3. PICK z : z = [x EXCEPT !.layout = "single"] OBVIOUS
    <3>4. z \in Workspaces /\ z.faults = x.faults
      BY <3>2, <3>3, SingledOK DEF Singled
    <3>5. v \in Workspaces /\ v.faults >= z.faults
      BY <2>5, <3>3, <3>4, GivenUpSame DEF Same
    <3>6. v.faults > u.faults
      <4>1. u.faults \in Nat /\ y.faults \in Nat /\ x.faults \in Nat /\ v.faults \in Nat
        BY <2>3, <3>1, <3>2, <3>5, FaultFacts
      <4>2. QED BY <3>1, <3>2, <3>4, <3>5, <4>1
    <3>7. Paves(u, v) BY <2>3, <3>5, <3>6, FaultPaves
    <3>8. QED BY <2>3, <3>7, PavesPaves
  <2>6. QED BY <1>4, <2>4, <2>5
<1>5. ProfileForms(w, v) BY ProfileCases
<1>6. QED BY <1>1, <1>2, <1>3, <1>4, <1>5 DEF ProfileForms

-----------------------------------------------------------------------------

LEMMA FailedAtOK ==
    ASSUME NEW x \in Workspaces, NEW y \in Sizes \cup {None}
    PROVE  Moved(x, [x EXCEPT !.failedAt = y])
<1>1. "sidebar" \in Pages /\ "primary" \in Slots /\ TRUE \in BOOLEAN /\ None \in Named
  BY DEF Pages, Slots, Named
<1>2. QED BY <1>1, Edits

\* The size poll in wide: without a failure it leaves the view or gives it back.
LEMMA SyncGives ==
    ASSUME NEW w \in Workspaces, size \in Sizes, NEW v \in SyncAdaptiveSingleView(w)
    PROVE  Gives(w, v)
<1>1. CASE ~Hidden(w) BY <1>1, SyncOK DEF Gives, Givable, Turned, Later
<1>2. ASSUME Hidden(w) PROVE Gives(w, v)
  <2>1. PICK z \in Sizes \cup {None} : z = None OBVIOUS
  <2>2. PICK u : u = [w EXCEPT !.failedAt = z] OBVIOUS
  <2>3. Moved(w, u) /\ u \in Workspaces BY <2>2, FailedAtOK DEF Moved, Kept
  <2>4. Paves(w, u) BY <2>3, MovedSame, SameOK
  <2>5. CASE v = w BY <2>5, KeptSelf, MovedSame, SameOK
  <2>6. CASE v = u BY <2>4, <2>6, PavesOn
  <2>7. ASSUME NEW x \in RestoreAdaptiveDualView(u),
               v = IF x.ok THEN x ELSE [x EXCEPT !.failedAt = size]
        PROVE  Gives(w, v)
    <3>1. Hidden(u) BY <1>2, <2>3 DEF Moved, Kept, Hidden
    <3>2. Gives(u, x) BY <2>3, <2>7, <3>1, RestoreGives
    <3>3. x \in Workspaces BY <3>2 DEF Gives
    <3>4. Moved(x, v) BY <2>7, <3>3, FailedAtOK, KeptSelf
    <3>5. Keeps(x, v) BY <3>3, <3>4, MovedSame, SameOK
    <3>6. QED BY <2>3, <2>4, <3>2, <3>5, PavesGives, GivesKeeps
  <2>8. \/ v = w \/ v = u
        \/ \E x \in RestoreAdaptiveDualView(u) :
              v = IF x.ok THEN x ELSE [x EXCEPT !.failedAt = size]
    BY <1>2, <2>1, <2>2 DEF SyncAdaptiveSingleView
  <2>9. QED BY <2>5, <2>6, <2>7, <2>8
<1>3. QED BY <1>1, <1>2

LEMMA EnterCompactGives ==
    ASSUME NEW w \in Workspaces, NEW v \in EnterCompact(w) PROVE Gives(w, v)
<1>1. PICK c : c = [w EXCEPT !.presentation = "compact"] OBVIOUS
<1>2. c \in Workspaces
  <2>1. TRUE \in BOOLEAN OBVIOUS
  <2>2. QED BY <1>1, <2>1, PresentedOK
<1>3. Presented(w, "compact", c) BY <1>1, <1>2, Zenon DEF Workspaces, Presented
<1>4. Paves(w, c) BY <1>3, PresentedSame, SameOK
<1>5. PICK u \in IF Hidden(c) THEN RestoreAdaptiveDualView(c) ELSE {c} :
        \E x \in SelectWorkspacePage(u, u.active) :
           v = x \/ v \in SelectWorkspacePage(x, "sidebar")
  BY <1>1 DEF EnterCompact, Then, Either
<1>6. Gives(c, u)
  <2>1. CASE Hidden(c) BY <1>2, <1>5, <2>1, RestoreGives
  <2>2. CASE ~Hidden(c) BY <1>2, <1>5, <2>2, KeptSelf, MovedSame, SameOK
  <2>3. QED BY <2>1, <2>2
<1>7. u \in Workspaces BY <1>6 DEF Gives
<1>8. PICK x \in SelectWorkspacePage(u, u.active) :
           v = x \/ v \in SelectWorkspacePage(x, "sidebar")
  BY <1>5
<1>9. Moved(u, x) BY <1>7, <1>8, FieldTypes, SelectWorkspacePageOK
<1>10. x \in Workspaces BY <1>9 DEF Moved, Kept
<1>11. Moved(u, v)
  <2>1. "sidebar" \in Pages BY SlotFacts
  <2>2. QED BY <1>7, <1>8, <1>9, <1>10, <2>1, SelectWorkspacePageOK, MovedThrough
<1>12. Keeps(u, v) BY <1>7, <1>11, MovedSame, SameOK
<1>13. QED BY <1>2, <1>4, <1>6, <1>7, <1>12, GivesKeeps, PavesGives

LEMMA LeaveCompactPaves ==
    ASSUME NEW w \in Workspaces, NEW v \in LeaveCompact(w) PROVE Paves(w, v)
<1>1. CASE v \in Fail(w) BY <1>1, FailOK, MovedSame, SameOK
<1>2. PICK u : u = [w EXCEPT !.zoomed = FALSE, !.presentation = "wide"] OBVIOUS
<1>3. u \in Workspaces
  <2>1. FALSE \in BOOLEAN OBVIOUS
  <2>2. QED BY <1>2, <2>1, PresentedOK
<1>4. Presented(w, "wide", u) BY <1>2, <1>3, Zenon DEF Workspaces, Presented
<1>5. Paves(w, u) BY <1>4, PresentedSame, SameOK
<1>6. ASSUME NEW a \in ApplyLayoutProfile(u), v \in ReconcileFocusFromTmux(a)
      PROVE  Paves(w, v)
  <2>1. Paves(u, a) /\ a \in Workspaces BY <1>3, <1>6, ProfilePaves DEF Paves
  <2>2. Moved(a, v) BY <1>6, <2>1, ReconcileFocusOK
  <2>3. Paves(a, v) BY <2>1, <2>2, MovedSame, SameOK
  <2>4. QED BY <1>3, <1>5, <2>1, <2>3, PavesPaves
<1>7. v \in Fail(w) \/ \E a \in ApplyLayoutProfile(u) : v \in ReconcileFocusFromTmux(a)
  BY <1>2 DEF LeaveCompact, Then
<1>8. QED BY <1>1, <1>6, <1>7

LEMMA CheckTerminalSizeGives ==
    ASSUME NEW w \in Workspaces, size \in Sizes, NEW v \in CheckTerminalSize(w)
    PROVE  Gives(w, v)
<1>1. PICK p : p = PresentationFor(w.presentation, size) OBVIOUS
<1>2. p \in {"wide", "compact"} BY <1>1 DEF PresentationFor
<1>3. PICK x \in SetWorkspacePresentation(w, p) :
        \E h \in IF x.presentation = "compact" /\ ~x.zoomed THEN RestoreCompactPage(x) ELSE {x} :
           v \in SyncAdaptiveSingleView(h)
  BY <1>1 DEF CheckTerminalSize, Then
<1>4. PICK h \in IF x.presentation = "compact" /\ ~x.zoomed THEN RestoreCompactPage(x) ELSE {x} :
           v \in SyncAdaptiveSingleView(h)
  BY <1>3
<1>5. x \in Workspaces BY <1>2, <1>3, SetPresentationOK DEF Later
<1>6. Moved(x, h) BY <1>4, <1>5, RestoreCompactPageOK, KeptSelf
<1>7. h \in Workspaces /\ h.presentation = x.presentation BY <1>6 DEF Moved, Kept
<1>8. Paves(x, h) /\ Keeps(x, h) BY <1>5, <1>6, MovedSame, SameOK
<1>9. CASE x \in EnterCompact(w)
  <2>1. Gives(w, x) /\ x.presentation = "compact" BY <1>9, EnterCompactGives, EnterCompactOK
  <2>2. v = h BY <1>4, <1>7, <2>1, SyncOK
  <2>3. QED BY <1>8, <2>1, <2>2, GivesKeeps
<1>10. ASSUME Paves(w, x) PROVE Gives(w, v)
  <2>1. Gives(h, v) BY <1>4, <1>7, SyncGives
  <2>2. QED BY <1>5, <1>7, <1>8, <1>10, <2>1, PavesPaves, PavesGives
<1>11. CASE x = w BY <1>10, <1>11, KeptSelf, MovedSame, SameOK
<1>12. CASE x \in LeaveCompact(w) BY <1>10, <1>12, LeaveCompactPaves
<1>13. QED BY <1>3, <1>9, <1>11, <1>12 DEF SetWorkspacePresentation

-----------------------------------------------------------------------------

\* A refresh that meets no failure finds nothing lost in a workspace given back: both
\* panes live, and so do the agents they name.
LEMMA NothingLost ==
    ASSUME NEW w \in Workspaces, Paired(w), Lively(w), NEW dead, dead = Agents \ w.alive,
           NEW o \in ReconcileDisplaySlots(w, dead)
    PROVE  o = w
<1>1. \A s \in Slots : /\ w.slots[s].pane = "live"
                       /\ w.slots[s].agent \notin dead
  <2>1. \A s \in Slots : w.slots[s].pane = "live" BY DEF Paired, Slots
  <2>2. \A s \in Slots : w.slots[s].agent \in w.alive \cup {None}
    BY <2>1 DEF Lively, Sound
  <2>3. None \notin Agents BY BoundsAssumption
  <2>4. QED BY <2>1, <2>2, <2>3
<1>2. PICK deferred : o \in ReconcileLost(w, dead, deferred) BY DEF ReconcileDisplaySlots
<1>3. {s \in Slots \ deferred :
         IF w.slots[s].pane = "none" THEN w.layout # "single"
         ELSE w.slots[s].agent \in dead \/ w.slots[s].pane = "dead"} = {}
  BY <1>1
<1>4. QED BY <1>2, <1>3 DEF ReconcileLost

LEMMA ReconcilingKeeps ==
    ASSUME NEW w \in Workspaces, NEW o \in Reconciling(w) PROVE Keeps(w, o)
<1>1. Stays(w, o) BY ReconcilingOK
<1>2. /\ o \in Workspaces /\ o.faults >= w.faults /\ o.adaptive = w.adaptive
  BY <1>1 DEF Stays, Saves, Later
<1>3. Hidden(o) = Hidden(w) BY <1>2 DEF Hidden
<1>4. PICK x, dead, y : Gone(w, x, dead, y) /\ o \in ReconcileDisplaySlots(y, dead)
  BY ReconcilingFrom
<1>5. /\ x \in Workspaces /\ Relisted(x, y) /\ y \in Workspaces /\ y.alive = x.alive
      /\ dead \in SUBSET Agents /\ Agents \ x.alive \subseteq dead
  BY <1>4 DEF Gone, Moved, Kept, Relisted
<1>6. ASSUME o.faults = w.faults, NEW view, NEW shown, Restored(view, shown, w)
      PROVE  Restored(view, shown, o)
  <2>1. x = w /\ dead = Agents \ w.alive
    <3>1. Stays(y, o) BY <1>4, <1>5, ReconcileDisplaySlotsOK
    <3>2. o.faults >= x.faults BY <1>5, <3>1 DEF Stays, Saves, Later, Relisted
    <3>3. o.faults \in Nat /\ x.faults \in Nat /\ w.faults \in Nat BY <1>2, <1>5, FaultFacts
    <3>4. x.faults # w.faults + 1 BY <1>6, <3>2, <3>3
    <3>5. QED BY <1>4, <3>4 DEF Gone
  <2>2. Same(w, y) BY <1>5, <2>1, RelistedSame
  <2>3. Restored(view, shown, y)
    <3>1. Keeps(w, y) BY <2>2, SameOK
    <3>2. w.faults = y.faults BY <1>5, <2>1 DEF Relisted
    <3>3. QED BY <1>6, <3>1, <3>2 DEF Keeps
  <2>4. Paired(y) /\ Lively(y) /\ dead = Agents \ y.alive
    BY <1>5, <2>1, <2>3 DEF Restored
  <2>5. o = y BY <1>4, <1>5, <2>4, NothingLost
  <2>6. QED BY <2>3, <2>5
<1>7. QED BY <1>2, <1>3, <1>6 DEF Keeps

LEMMA RefreshGives ==
    ASSUME NEW w \in Workspaces, size \in Sizes, NEW polled \in BOOLEAN,
           NEW o \in RefreshImpl(w, polled)
    PROVE  Gives(w, o)
<1>1. PICK c, f, r, v : /\ c = w \/ c \in CheckTerminalSize(w)
                        /\ Moved(c, f) /\ Relisted(f, r) /\ Relisted(r, v)
                        /\ o \in Reconciling(v)
  BY RefreshFrom
<1>2. Gives(w, c)
  <2>1. CASE c = w BY <2>1, KeptSelf, MovedSame, SameOK
  <2>2. CASE c \in CheckTerminalSize(w) BY <2>2, CheckTerminalSizeGives
  <2>3. QED BY <1>1, <2>1, <2>2
<1>3. c \in Workspaces /\ f \in Workspaces /\ r \in Workspaces /\ v \in Workspaces
  BY <1>1, <1>2 DEF Gives, Moved, Kept, Relisted
<1>4. Keeps(c, f) /\ Keeps(f, r) /\ Keeps(r, v)
  BY <1>1, <1>3, MovedSame, RelistedSame, SameOK
<1>5. Keeps(v, o) BY <1>1, <1>3, ReconcilingKeeps
<1>6. Gives(w, f) BY <1>2, <1>4, GivesKeeps
<1>7. Gives(w, r) BY <1>4, <1>6, GivesKeeps
<1>8. Gives(w, v) BY <1>4, <1>7, GivesKeeps
<1>9. QED BY <1>5, <1>8, GivesKeeps

\* The two handlers that no event of the user, the agents or the terminal starts.
LEMMA HandledGives ==
    ASSUME ws \in Workspaces, NEW S, \A v \in S : Gives(ws, v), Handle(S) PROVE Gives(ws, ws')
<1>1. PICK v \in S : ws' = Yes(v) BY DEF Handle
<1>2. Gives(ws, v) /\ v \in Workspaces BY <1>1 DEF Gives
<1>3. PICK y : y = Yes(v) OBVIOUS
<1>4. Keeps(v, y) BY <1>2, <1>3, YesOK, MovedSame, SameOK
<1>5. Gives(ws, y) BY <1>2, <1>4, GivesKeeps
<1>6. QED BY <1>1, <1>3, <1>5

LEMMA LeavingSteps ==
    ASSUME TypeOK, [Next]_vars, Leaves PROVE Gives(ws, ws')
<1>1. ws \in Workspaces /\ size \in Sizes /\ events \in 0 .. MaxEvents BY TypeForms
<1>2. events \in Nat BY <1>1, BoundsAssumption
<1>3. ~Happens BY <1>2 DEF Happens, Leaves
<1>4. CASE UNCHANGED vars BY <1>4 DEF Leaves, vars
<1>5. CASE WindowResized
  BY <1>1, <1>5, CheckTerminalSizeGives, HandledGives DEF WindowResized
<1>6. ASSUME NEW polled \in BOOLEAN, Refresh(polled) PROVE Gives(ws, ws')
  BY <1>1, <1>6, RefreshGives, HandledGives DEF Refresh
<1>7. QED
  BY <1>3, <1>4, <1>5, <1>6 DEF Next, Resize, AgentExits, KillSession, PaneDies, FocusMoves,
     OnRunningSelect, Rotate, OnSessionPreview

LEMMA ReturnsStep ==
    ASSUME TypeOK, Sane(ws), [Next]_vars, Leaves, ~ws.slots["primary"].history,
           ws.slots["secondary"].pane = "none"
    PROVE  LET v == ws.adaptive
               left == Other(v.visible)
               back == ws'.slots[left]
           IN  /\ ws'.layout = v.layout
               /\ back.agent = SavedAgent(v.slots[left])
               /\ back.history = (v.slots[left].kind = "preview")
               /\ ws'.slots[v.visible].agent = ws.slots["primary"].agent
<1>1. Gives(ws, ws') BY LeavingSteps
<1>2. Givable(ws) BY DEF Leaves, Givable, Vacant, Sane
<1>3. Restored(ws.adaptive, ws.slots["primary"].agent, ws')
  BY <1>1, <1>2 DEF Gives, Leaves, Faultless
<1>4. QED BY <1>3 DEF Restored

\* Leaving the single view without F8 gives the whole dual workspace back, when no call
\* fails: _restore_adaptive_dual_view fills the slot that was hidden and moves what was
\* visible to its own, and the refresh that follows finds neither pane lost.
THEOREM ReturnsAll == Spec => ReturnsWhole
<1>1. Init => TypeOK /\ Sane(ws) BY SaneInit
<1>2. TypeOK /\ Sane(ws) /\ [Next]_vars => (TypeOK /\ Sane(ws))'
  <2>1. (Sane(ws))' <=> Sane(ws') BY DEF Sane, Once, Lively, Sound
  <2>2. QED BY <2>1, SaneNext
<1>3. TypeOK /\ Sane(ws) /\ [Next]_vars =>
        [LET v == ws.adaptive
             left == Other(v.visible)
             back == ws'.slots[left]
         IN  Leaves /\ ~ws.slots["primary"].history
             /\ ws.slots["secondary"].pane = "none"
             => /\ ws'.layout = v.layout
                /\ back.agent = SavedAgent(v.slots[left])
                /\ back.history = (v.slots[left].kind = "preview")
                /\ ws.slots["primary"].agent \in ws'.alive =>
                      ws'.slots[v.visible].agent = ws.slots["primary"].agent]_vars
  BY ReturnsStep
<1>4. QED BY <1>1, <1>2, <1>3, PTL DEF Spec, ReturnsWhole

=============================================================================
