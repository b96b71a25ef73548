------------------------- MODULE RemoteDisplay_proofs -------------------------
(***************************************************************************)
(* Proofs about RemoteDisplay: the types, who holds the attach lock and who *)
(* is attached, that a takeover is alone at the session, that a soft quit   *)
(* is final, that nobody is replaced unasked, and that an installation      *)
(* never puts an older version on the host.                                 *)
(*                                                                         *)
(* The invariant says, beside the types, what a helper has at each place    *)
(* (HelperOK), who holds a lock (LocksOK), what a client knows of the       *)
(* helper it waits for (ClientOK), and that nothing is attached where there *)
(* is no session (ServerOK).  Three more extend it: what a helper knows of  *)
(* the end of its session (QuitInvariant), what the client of a takeover    *)
(* has asked (ConsentInvariant), and what the two ends know of the version  *)
(* on the host (VersionInvariant).                                          *)
(***************************************************************************)
EXTENDS RemoteDisplay, TLAPS

-----------------------------------------------------------------------------
(* The invariant *)

Numbers == 0 .. MaxSessions
Servers == 0 .. MaxServers
Viewers == SUBSET (Holders \cup {"local"})
Servings == [up : BOOLEAN, srv : 1 .. MaxServers, sid : Numbers,
             born : Sids, ctl : BOOLEAN, others : BOOLEAN,
             quit : {"no", "soft", "unrecorded", "left", "hard", "kill"},
             frozen : BOOLEAN]
Places == {"free", "install", "hello", "start", "go", "starting", "lock", "held",
           "swept", "attached", "accepted", "serve", "classify", "ended"}
HelperStates ==
    [own : Clients \cup {None}, rep : BOOLEAN, cut : BOOLEAN, at : Places,
     want : Versions, said : {"none", "hello", "accepted", "busy"},
     pkg : Package \cup {None}, srv : Servers, sid : Numbers, code : Codes,
     ended : {"none", "soft", "hard"}]
ClientStates ==
    [at : {"idle", "probe", "askLocal", "askInstall", "askVenv", "hello",
           "status", "askTakeover", "live", "backoff", "done"},
     h : Helpers \cup {None},
     phase : {"first", "user", "venv", "retry", "replace", "auto"},
     want : Versions, painted : BOOLEAN, late : BOOLEAN]
Launchers == [at : {"off", "on", "lost"}, srv : Servers, sid : Numbers]

HostTypes ==
    /\ pkg \in Package /\ tm \in Servings /\ attached \in Viewers
    /\ lock \in [Sids -> Holders \cup {None}]
    /\ soft \in Sentinel \cup {None} /\ clean \in Sentinel \cup {None}
    /\ local \in Launchers
Types ==
    /\ HostTypes
    /\ helper \in [Helpers -> HelperStates] /\ cli \in [Clients -> ClientStates]

ServerOK == tm.sid = 0 => attached = {} /\ ~tm.ctl /\ tm.quit = "no"

\* A helper's lock is that of the session it validated; who is attached is at
\* the session there is; a takeover under the lock is alone there.
Holding == {"held", "swept", "attached"}
HelperOK(h, r) ==
    /\ r.said = "hello" => r.pkg # None
    /\ r.at \in Holding \cup {"lock"} => r.sid # 0
    /\ r.at \in Holding => lock[r.sid] = h
    /\ h \in attached => r.at \in {"attached", "accepted", "serve"} /\ r.sid = tm.sid
    /\ r.rep /\ r.at \in {"swept", "attached"} /\ r.sid = tm.sid
         => attached \cap Holders \subseteq {h}

LocksOK ==
    \A s \in Sids : lock[s] \in Helpers =>
        helper[lock[s]].at \in Holding /\ helper[lock[s]].sid = s

\* A client's helper is its own, whatever it waits for.
ClientOK(c, k) ==
    /\ k.at \in {"probe", "askLocal", "hello", "status", "live"} => k.h # None
    /\ k.h # None => helper[k.h].own = c /\ helper[k.h].at # "free"
    /\ k.at = "askLocal" => helper[k.h].pkg # None

RemoteInv ==
    /\ Types /\ ServerOK /\ LocksOK
    /\ \A h \in Helpers : HelperOK(h, helper[h])
    /\ \A c \in Clients : ClientOK(c, cli[c])

-----------------------------------------------------------------------------
(* Steps of a helper *)

LEMMA InvFacts ==
    ASSUME RemoteInv
    PROVE  /\ HostTypes /\ ServerOK
           /\ helper \in [Helpers -> HelperStates] /\ cli \in [Clients -> ClientStates]
           /\ \A h \in Helpers : helper[h] \in HelperStates /\ HelperOK(h, helper[h])
           /\ \A c \in Clients : cli[c] \in ClientStates /\ ClientOK(c, cli[c])
BY DEF RemoteInv, Types

LEMMA NameFacts ==
    /\ None \notin Helpers /\ None \notin Clients /\ None \notin Package
    /\ "legacy" \notin Helpers /\ "local" \notin Helpers /\ "local" \notin Holders
BY NoneAssumption DEF Holders

LEMMA BoundFacts ==
    /\ 1 \in Sids /\ 0 \in Numbers /\ 1 \in Numbers /\ 0 \in Servers /\ 1 \in Servers
    /\ \A n \in Numbers : n # 0 <=> n \in Sids
    /\ \A n \in 1 .. MaxServers : n \in Servers
BY BoundAssumption DEF Sids, Numbers, Servers

LEMMA VersionFacts ==
    0 \in Versions /\ Local \in Versions /\ Protocol \in Protocols
BY VersionAssumption DEF Versions, Protocols

\* What remains of a helper that steps is of use to the client that has it.
Keeps(h, r) ==
    \/ /\ r.own = helper[h].own /\ r.at # "free"
       /\ helper[h].pkg # None => r.pkg # None
    \/ \A c \in Clients : cli[c].h # h

LEMMA HelperMoves ==
    ASSUME RemoteInv, NEW h \in Helpers, NEW r \in HelperStates,
           helper' = [helper EXCEPT ![h] = r], cli' = cli,
           HostTypes', ServerOK', HelperOK(h, r)',
           \A g \in Helpers \ {h} : HelperOK(g, helper[g])',
           \A s \in Sids : lock'[s] \in Helpers =>
               \/ lock'[s] = h /\ r.at \in Holding /\ r.sid = s
               \/ lock'[s] # h /\ lock'[s] = lock[s],
           Keeps(h, r)
    PROVE  RemoteInv'
<1>1. helper' \in [Helpers -> HelperStates] /\ helper'[h] = r
  BY InvFacts
<1>2. Types' BY <1>1, InvFacts DEF Types
<1>3. \A g \in Helpers : HelperOK(g, helper[g])' BY <1>1
<1>4. LocksOK' BY <1>1, InvFacts DEF LocksOK, RemoteInv
<1>5. ASSUME NEW c \in Clients PROVE ClientOK(c, cli[c])'
  <2>1. ClientOK(c, cli[c]) /\ cli[c] \in ClientStates BY InvFacts
  <2>2. CASE cli[c].h # h
    <3>1. cli[c].h # None => helper'[cli[c].h] = helper[cli[c].h]
      BY <2>1, <2>2, InvFacts DEF ClientStates
    <3>2. QED BY <2>1, <3>1 DEF ClientOK
  <2>3. CASE cli[c].h = h
    <3>1. /\ r.own = helper[h].own /\ r.at # "free"
          /\ helper[h].pkg # None => r.pkg # None
      BY <2>3 DEF Keeps
    <3>2. QED BY <1>1, <2>1, <2>3, <3>1 DEF ClientOK
  <2>4. QED BY <2>2, <2>3
<1>6. QED BY <1>2, <1>3, <1>4, <1>5 DEF RemoteInv

\* A step that changes nothing at the host but the package.
LEMMA QuietMoves ==
    ASSUME RemoteInv, NEW h \in Helpers, NEW r \in HelperStates,
           helper' = [helper EXCEPT ![h] = r],
           pkg' \in Package, UNCHANGED <<tm, attached, lock, soft, clean, local, cli>>,
           HelperOK(h, r), Keeps(h, r),
           helper[h].at \in Holding => r.at \in Holding /\ r.sid = helper[h].sid
    PROVE  RemoteInv'
<1>1. HostTypes' /\ ServerOK' BY InvFacts DEF HostTypes, ServerOK
<1>2. HelperOK(h, r)' BY DEF HelperOK
<1>3. \A g \in Helpers \ {h} : HelperOK(g, helper[g])' BY InvFacts DEF HelperOK
<1>4. \A s \in Sids : lock'[s] \in Helpers =>
         \/ lock'[s] = h /\ r.at \in Holding /\ r.sid = s
         \/ lock'[s] # h /\ lock'[s] = lock[s]
  BY DEF RemoteInv, LocksOK
<1>5. QED BY <1>1, <1>2, <1>3, <1>4, HelperMoves

\* The exit of a helper.
LEMMA EndFacts ==
    ASSUME RemoteInv, NEW h \in Helpers, NEW code \in Codes, NEW r, r = Ended(h, code)
    PROVE  /\ r \in HelperStates /\ Keeps(h, r) /\ r.at \in {"free", "ended"}
           /\ r.said = "hello" => r.pkg # None
<1>1. PICK a : a = helper[h] OBVIOUS
<1>2. a \in HelperStates /\ HelperOK(h, a) BY <1>1, InvFacts
<1>3. CASE r = Free /\ cli[a.own].h # h
  <2>1. \A c \in Clients : cli[c].h # h
    BY <1>1, <1>3, InvFacts, NameFacts DEF ClientOK
  <2>2. Free \in HelperStates /\ Free.at = "free" /\ Free.said = "none"
    BY BoundFacts, VersionFacts DEF HelperStates, Free, Places, Codes
  <2>3. QED BY <1>3, <2>1, <2>2 DEF Keeps
<1>4. CASE r = [a EXCEPT !.at = "ended", !.code = code]
  <2>1. /\ r \in HelperStates /\ r.at = "ended" /\ r.own = a.own
        /\ r.pkg = a.pkg /\ r.said = a.said
    BY <1>2, <1>4 DEF HelperStates, Places
  <2>2. QED BY <1>1, <1>2, <2>1 DEF Keeps, HelperOK
<1>5. QED BY <1>1, <1>3, <1>4 DEF Ended

LEMMA Leaves ==
    ASSUME RemoteInv, NEW h \in Helpers, NEW code \in Codes, End(h, code),
           attached' \subseteq attached, h \notin attached',
           lock' = Unlocked(h) \/ (lock' = lock /\ helper[h].at \notin Holding),
           pkg' \in Package, soft' \in Sentinel \cup {None},
           clean' \in Sentinel \cup {None}, UNCHANGED <<tm, local, cli>>
    PROVE  RemoteInv'
<1>1. PICK r : r = Ended(h, code) OBVIOUS
<1>2. /\ r \in HelperStates /\ Keeps(h, r) /\ r.at \in {"free", "ended"}
      /\ r.said = "hello" => r.pkg # None
  BY <1>1, EndFacts
<1>3. helper' = [helper EXCEPT ![h] = r] BY <1>1 DEF End
<1>4. lock \in [Sids -> Holders \cup {None}] BY InvFacts DEF HostTypes
<1>5. /\ lock' \in [Sids -> Holders \cup {None}]
      /\ \A s \in Sids : lock'[s] = lock[s] \/ (lock'[s] = None /\ lock[s] = h)
  BY <1>4 DEF Unlocked
<1>6. \A s \in Sids : lock'[s] # h
  BY <1>4, NameFacts DEF Unlocked, RemoteInv, LocksOK
<1>7. attached' \in Viewers BY InvFacts DEF HostTypes, Viewers
<1>8. HostTypes' /\ ServerOK' BY <1>5, <1>7, InvFacts DEF HostTypes, ServerOK
<1>9. HelperOK(h, r)' BY <1>2 DEF HelperOK, Holding
<1>10. ASSUME NEW g \in Helpers \ {h} PROVE HelperOK(g, helper[g])'
  <2>1. helper'[g] = helper[g] BY <1>3, InvFacts
  <2>2. PICK a : a = helper[g] OBVIOUS
  <2>3. a \in HelperStates /\ HelperOK(g, a) BY <2>2, InvFacts
  <2>4. a.at \in Holding => lock'[a.sid] = g
    BY <1>5, <2>3, BoundFacts DEF HelperOK, HelperStates
  <2>5. HelperOK(g, a)' BY <2>3, <2>4 DEF HelperOK
  <2>6. QED BY <2>1, <2>2, <2>5
<1>11. QED
  BY <1>2, <1>3, <1>5, <1>6, <1>8, <1>9, <1>10, HelperMoves, NameFacts

LEMMA InstallInv == ASSUME RemoteInv, NEW h \in Helpers, Install(h) PROVE RemoteInv'
<1>1. helper[h].at = "install" /\ UNCHANGED <<tm, attached, lock, soft, clean, local, cli>>
  BY DEF Install, remote
<1>2. PICK a : a = helper[h] OBVIOUS
<1>3. a \in HelperStates /\ HelperOK(h, a) /\ h \notin attached /\ a.at = "install"
  BY <1>1, <1>2, InvFacts DEF HelperOK
<1>4. CASE End(h, "ERROR") /\ pkg' = pkg
  BY <1>1, <1>3, <1>4, Leaves, InvFacts DEF HostTypes, Codes, Holding
<1>5. CASE /\ pkg' = [pkg EXCEPT !.hello = TRUE, !.ver = a.want, !.ready = TRUE,
                        !.proto = IF a.want = Local THEN Protocol ELSE @]
           /\ helper' = [helper EXCEPT ![h] = [a EXCEPT !.at = "hello", !.want = 0]]
  <2>1. pkg' \in Package
    <3>1. a.want \in Versions BY <1>3 DEF HelperStates
    <3>2. PICK p \in Package : p = pkg BY InvFacts DEF HostTypes
    <3>3. PICK x \in Protocols : x = IF a.want = Local THEN Protocol ELSE p.proto
      BY <3>2, VersionFacts DEF Package
    <3>4. pkg' = [p EXCEPT !.hello = TRUE, !.ver = a.want, !.ready = TRUE, !.proto = x]
      BY <1>5, <3>2, <3>3
    <3>5. QED BY <3>1, <3>2, <3>4 DEF Package
  <2>2. PICK r : r = [a EXCEPT !.at = "hello", !.want = 0] OBVIOUS
  <2>3. /\ r \in HelperStates /\ r.at = "hello" /\ r.own = a.own /\ r.pkg = a.pkg
        /\ r.said = a.said
    BY <1>3, <2>2, VersionFacts DEF HelperStates, Places
  <2>4. HelperOK(h, r) /\ Keeps(h, r)
    BY <1>2, <1>3, <2>3 DEF HelperOK, Keeps, Holding
  <2>5. QED BY <1>1, <1>2, <1>3, <1>5, <2>1, <2>2, <2>3, <2>4, QuietMoves DEF Holding
<1>6. QED BY <1>2, <1>4, <1>5 DEF Install

LEMMA HelloInv == ASSUME RemoteInv, NEW h \in Helpers, Hello(h) PROVE RemoteInv'
<1>1. helper[h].at = "hello" /\ UNCHANGED <<pkg, tm, attached, lock, soft, clean, local, cli>>
  BY DEF Hello, remote
<1>2. PICK a : a = helper[h] OBVIOUS
<1>3. /\ a \in HelperStates /\ HelperOK(h, a) /\ h \notin attached /\ a.at = "hello"
      /\ pkg \in Package
  BY <1>1, <1>2, InvFacts DEF HelperOK, HostTypes
<1>4. ASSUME NEW code \in Codes, End(h, code) PROVE RemoteInv'
  BY <1>1, <1>2, <1>3, <1>4, Leaves, InvFacts DEF HostTypes, Holding
<1>5. ASSUME NEW at \in {"start", "ended"}, NEW code \in Codes, NEW r,
             helper' = [helper EXCEPT ![h] = r],
             r = [a EXCEPT !.said = "hello", !.pkg = pkg, !.at = at, !.code = code]
      PROVE  RemoteInv'
  <2>1. /\ r \in HelperStates /\ r.at = at /\ r.own = a.own /\ r.pkg = pkg
    BY <1>3, <1>5 DEF HelperStates, Places
  <2>2. HelperOK(h, r) /\ Keeps(h, r)
    BY <1>2, <1>3, <2>1, NameFacts DEF HelperOK, Keeps, Holding
  <2>3. QED BY <1>1, <1>2, <1>3, <1>5, <2>1, <2>2, QuietMoves DEF Holding
<1> DEFINE told == [a EXCEPT !.said = "hello", !.pkg = pkg]
<1>6. \/ \E code \in {"MISSING", "ERROR"} : End(h, code)
      \/ helper' = [helper EXCEPT ![h] = [told EXCEPT !.at = "start"]]
      \/ helper' = [helper EXCEPT ![h] = [told EXCEPT !.at = "ended", !.code = "ERROR"]]
  BY <1>2 DEF Hello, End
<1>7. /\ [told EXCEPT !.at = "start"] =
           [a EXCEPT !.said = "hello", !.pkg = pkg, !.at = "start", !.code = a.code]
      /\ [told EXCEPT !.at = "ended", !.code = "ERROR"] =
           [a EXCEPT !.said = "hello", !.pkg = pkg, !.at = "ended", !.code = "ERROR"]
      /\ a.code \in Codes
  BY <1>3 DEF HelperStates
<1>8. QED BY <1>4, <1>5, <1>6, <1>7 DEF Codes

LEMMA NoStartInv == ASSUME RemoteInv, NEW h \in Helpers, NoStart(h) PROVE RemoteInv'
<1>1. /\ helper[h].at = "start" /\ End(h, "ERROR")
      /\ UNCHANGED <<pkg, tm, attached, lock, soft, clean, local, cli>>
  BY DEF NoStart, remote
<1>2. h \notin attached BY <1>1, InvFacts DEF HelperOK
<1>3. QED BY <1>1, <1>2, Leaves, InvFacts DEF HostTypes, Holding, Codes

\* A helper that goes on to another place, for session s.
Walked(h, s, at) == [helper[h] EXCEPT !.sid = s, !.at = at]
LEMMA WalkOK ==
    ASSUME RemoteInv, NEW h \in Helpers, NEW at \in Places, NEW s \in Numbers,
           at # "free", NEW r,
           r = Walked(h, s, at)
    PROVE  /\ r \in HelperStates /\ r.at = at /\ r.sid = s /\ r.rep = helper[h].rep
           /\ Keeps(h, r) /\ (r.said = "hello" => r.pkg # None)
<1>1. PICK a : a = helper[h] OBVIOUS
<1>2. a \in HelperStates /\ HelperOK(h, a) BY <1>1, InvFacts
<1>3. /\ r \in HelperStates /\ r.at = at /\ r.sid = s /\ r.rep = a.rep
      /\ r.own = a.own /\ r.pkg = a.pkg /\ r.said = a.said
  BY <1>1, <1>2 DEF HelperStates, Walked
<1>4. QED BY <1>1, <1>2, <1>3 DEF Keeps, HelperOK

\* A new session, where there was none, has nobody attached.
LEMMA SessionFacts ==
    ASSUME RemoteInv, MayStart
    PROVE  /\ NewSession \in Servings /\ NewSession.sid # 0
           /\ tm.sid = 0 /\ attached = {}
<1>1. PICK t \in Servings : t = tm BY InvFacts DEF HostTypes
<1>2. CASE t.up
  <2>1. t.born + 1 \in Sids /\ t.born + 1 \in Numbers /\ t.born + 1 # 0
    BY <1>1, <1>2, BoundAssumption DEF MayStart, Servings, Sids, Numbers
  <2>2. NewSession = [t EXCEPT !.sid = t.born + 1, !.born = t.born + 1, !.ctl = FALSE,
                               !.quit = "no"]
    BY <1>1, <1>2 DEF NewSession
  <2>3. NewSession \in Servings /\ NewSession.sid = t.born + 1
    BY <1>1, <2>1, <2>2 DEF Servings
  <2>4. QED BY <2>1, <2>3, InvFacts DEF MayStart, ServerOK
<1>3. CASE ~t.up
  <2>1. t.srv + 1 \in 1 .. MaxServers
    BY <1>1, <1>3, BoundAssumption DEF MayStart, Servings
  <2>2. NewSession = [up |-> TRUE, srv |-> t.srv + 1, sid |-> 1, born |-> 1,
                      ctl |-> FALSE, others |-> FALSE, quit |-> "no", frozen |-> FALSE]
    BY <1>1, <1>3 DEF NewSession
  <2>3. 1 \in Sids /\ 1 \in Numbers BY BoundAssumption DEF Sids, Numbers
  <2>4. NewSession \in Servings /\ NewSession.sid = 1 BY <2>1, <2>2, <2>3 DEF Servings
  <2>5. QED BY <2>4, InvFacts DEF MayStart, ServerOK
<1>4. QED BY <1>2, <1>3

LEMMA EnsureInv == ASSUME RemoteInv, NEW h \in Helpers, Ensure(h) PROVE RemoteInv'
<1>1. /\ helper[h].at = "go"
      /\ UNCHANGED <<pkg, attached, lock, soft, clean, local, cli>>
  BY DEF Ensure
<1>2. PICK a : a = helper[h] OBVIOUS
<1>3. /\ a \in HelperStates /\ HelperOK(h, a) /\ h \notin attached /\ a.at = "go"
      /\ tm \in Servings
  BY <1>1, <1>2, InvFacts DEF HelperOK, HostTypes
<1>4. CASE /\ tm.sid # 0 /\ tm' = tm
           /\ helper' = [helper EXCEPT ![h].sid = tm.sid, ![h].at = "lock"]
  <2>1. tm.sid \in Numbers BY <1>3 DEF Servings
  <2>2. PICK r : r = Walked(h, tm.sid, "lock") OBVIOUS
  <2>3. /\ r \in HelperStates /\ r.at = "lock" /\ r.sid = tm.sid /\ Keeps(h, r)
        /\ r.said = "hello" => r.pkg # None
    BY <1>2, <2>1, <2>2, WalkOK DEF Places
  <2>4. helper' = [helper EXCEPT ![h] = r] BY <1>2, <1>4, <2>2 DEF Walked
  <2>5. HelperOK(h, r) BY <1>3, <1>4, <2>3 DEF HelperOK, Holding
  <2>6. QED
    BY <1>1, <1>2, <1>3, <1>4, <2>3, <2>4, <2>5, QuietMoves, InvFacts DEF HostTypes, Holding
<1>5. CASE /\ MayStart /\ tm' = NewSession
           /\ helper' = [helper EXCEPT ![h].at = "starting"]
  <2>1. /\ tm' \in Servings /\ tm'.sid # 0 /\ attached = {}
    BY <1>5, SessionFacts
  <2>2. PICK r : r = Walked(h, a.sid, "starting") OBVIOUS
  <2>3. /\ r \in HelperStates /\ r.at = "starting" /\ Keeps(h, r)
        /\ r.said = "hello" => r.pkg # None
    BY <1>2, <1>3, <2>2, WalkOK DEF Places, HelperStates
  <2>4. helper' = [helper EXCEPT ![h] = r] BY <1>2, <1>3, <1>5, <2>2 DEF HelperStates, Walked
  <2>5. HostTypes' /\ ServerOK' BY <1>1, <2>1, InvFacts DEF HostTypes, ServerOK
  <2>6. HelperOK(h, r)' BY <1>1, <2>1, <2>3 DEF HelperOK, Holding
  <2>7. \A g \in Helpers \ {h} : HelperOK(g, helper[g])'
    BY <1>1, <2>1, <2>4, InvFacts DEF HelperOK
  <2>8. \A s \in Sids : lock'[s] # h
    BY <1>1 DEF RemoteInv, LocksOK, Holding
  <2>9. QED BY <1>1, <2>3, <2>4, <2>5, <2>6, <2>7, <2>8, HelperMoves
<1>6. CASE End(h, "ERROR") /\ tm' = tm
  BY <1>1, <1>2, <1>3, <1>6, Leaves, InvFacts DEF HostTypes, Holding, Codes
<1>7. QED BY <1>4, <1>5, <1>6 DEF Ensure

LEMMA StartingInv == ASSUME RemoteInv, NEW h \in Helpers, Starting(h) PROVE RemoteInv'
<1>1. /\ helper[h].at = "starting"
      /\ UNCHANGED <<pkg, tm, attached, lock, soft, clean, local, cli>>
  BY DEF Starting, remote
<1>2. PICK a : a = helper[h] OBVIOUS
<1>3. /\ a \in HelperStates /\ HelperOK(h, a) /\ h \notin attached /\ a.at = "starting"
      /\ tm \in Servings
  BY <1>1, <1>2, InvFacts DEF HelperOK, HostTypes
<1>4. CASE /\ tm.sid # 0
           /\ helper' = [helper EXCEPT ![h].sid = tm.sid, ![h].at = "lock"]
  <2>1. tm.sid \in Numbers BY <1>3 DEF Servings
  <2>2. PICK r : r = Walked(h, tm.sid, "lock") OBVIOUS
  <2>3. /\ r \in HelperStates /\ r.at = "lock" /\ r.sid = tm.sid /\ Keeps(h, r)
        /\ r.said = "hello" => r.pkg # None
    BY <1>2, <2>1, <2>2, WalkOK DEF Places
  <2>4. helper' = [helper EXCEPT ![h] = r] BY <1>2, <1>4, <2>2 DEF Walked
  <2>5. HelperOK(h, r) BY <1>3, <1>4, <2>3 DEF HelperOK, Holding
  <2>6. QED
    BY <1>1, <1>2, <1>3, <2>3, <2>4, <2>5, QuietMoves, InvFacts DEF HostTypes, Holding
<1>5. CASE End(h, "ERROR")
  BY <1>1, <1>2, <1>3, <1>5, Leaves, InvFacts DEF HostTypes, Holding, Codes
<1>6. QED BY <1>4, <1>5 DEF Starting

\* A helper steps to a place of its own; it alone may come or go at the session.
LEMMA FirstSweepInv ==
    ASSUME RemoteInv, NEW h \in Helpers, FirstSweep(h) PROVE RemoteInv'
<1>1. /\ helper[h].at = "go" /\ UNCHANGED <<pkg, tm, lock, soft, clean, local, cli>>
  BY DEF FirstSweep
<1>2. PICK a : a = helper[h] OBVIOUS
<1>3. /\ a \in HelperStates /\ HelperOK(h, a) /\ h \notin attached /\ a.at = "go"
      /\ tm \in Servings
  BY <1>1, <1>2, InvFacts DEF HelperOK, HostTypes
<1>4. CASE /\ tm.sid # 0 /\ attached' = {}
           /\ helper' = [helper EXCEPT ![h].sid = tm.sid, ![h].at = "lock"]
  <2>1. tm.sid \in Numbers BY <1>3 DEF Servings
  <2>2. PICK r : r = Walked(h, tm.sid, "lock") OBVIOUS
  <2>3. /\ r \in HelperStates /\ r.at = "lock" /\ r.sid = tm.sid /\ Keeps(h, r)
        /\ r.said = "hello" => r.pkg # None
    BY <1>2, <2>1, <2>2, WalkOK DEF Places
  <2>4. helper' = [helper EXCEPT ![h] = r] BY <1>2, <1>4, <2>2 DEF Walked
  <2>5. HostTypes' /\ ServerOK' BY <1>1, <1>4, InvFacts DEF HostTypes, ServerOK, Viewers
  <2>6. HelperOK(h, r)' BY <1>1, <1>4, <2>3 DEF HelperOK, Holding
  <2>7. \A g \in Helpers \ {h} : HelperOK(g, helper[g])'
    BY <1>1, <1>4, <2>4, InvFacts DEF HelperOK
  <2>8. \A s \in Sids : lock'[s] # h
    BY <1>1 DEF RemoteInv, LocksOK, Holding
  <2>9. QED BY <1>1, <2>3, <2>4, <2>5, <2>6, <2>7, <2>8, HelperMoves
<1>5. CASE End(h, "ERROR") /\ attached' = attached
  BY <1>1, <1>2, <1>3, <1>5, Leaves, InvFacts DEF HostTypes, Holding, Codes
<1>6. QED BY <1>4, <1>5 DEF FirstSweep, Swept

LEMMA LockInv == ASSUME RemoteInv, NEW h \in Helpers, Lock(h) PROVE RemoteInv'
<1>1. helper[h].at = "lock" /\ UNCHANGED <<pkg, tm, attached, soft, clean, local, cli>>
  BY DEF Lock
<1>2. PICK a : a = helper[h] OBVIOUS
<1>3. /\ a \in HelperStates /\ HelperOK(h, a) /\ h \notin attached /\ a.at = "lock"
      /\ a.sid \in Sids /\ a.sid \in Numbers /\ a.sid # 0
      /\ lock \in [Sids -> Holders \cup {None}]
  BY <1>1, <1>2, InvFacts, BoundFacts DEF HelperOK, HostTypes, HelperStates
<1>4. CASE /\ lock[a.sid] = None /\ lock' = [lock EXCEPT ![a.sid] = h]
           /\ helper' = [helper EXCEPT ![h].at = "held"]
  <2>1. PICK r : r = Walked(h, a.sid, "held") OBVIOUS
  <2>2. /\ r \in HelperStates /\ r.at = "held" /\ r.sid = a.sid /\ Keeps(h, r)
        /\ r.said = "hello" => r.pkg # None
    BY <1>2, <1>3, <2>1, WalkOK DEF Places
  <2>3. helper' = [helper EXCEPT ![h] = r]
    BY <1>2, <1>3, <1>4, <2>1 DEF Walked, HelperStates
  <2>4. /\ lock' \in [Sids -> Holders \cup {None}] /\ lock'[a.sid] = h
        /\ \A s \in Sids \ {a.sid} : lock'[s] = lock[s]
    BY <1>3, <1>4 DEF Holders
  <2>5. HostTypes' /\ ServerOK' BY <1>1, <2>4, InvFacts DEF HostTypes, ServerOK
  <2>6. HelperOK(h, r)' BY <1>1, <1>3, <2>2, <2>4 DEF HelperOK, Holding
  <2>7. ASSUME NEW g \in Helpers \ {h} PROVE HelperOK(g, helper[g])'
    <3>1. helper'[g] = helper[g] BY <2>3, InvFacts
    <3>2. PICK b : b = helper[g] OBVIOUS
    <3>3. b \in HelperStates /\ HelperOK(g, b) BY <3>2, InvFacts
    <3>4. b.at \in Holding => b.sid \in Sids /\ b.sid # a.sid /\ lock[b.sid] = g
      BY <1>4, <3>3, BoundFacts, NameFacts DEF HelperOK, HelperStates
    <3>5. HelperOK(g, b)' BY <1>1, <2>4, <3>3, <3>4 DEF HelperOK
    <3>6. QED BY <3>1, <3>2, <3>5
  <2>8. \A s \in Sids : lock'[s] \in Helpers =>
           \/ lock'[s] = h /\ r.at \in Holding /\ r.sid = s
           \/ lock'[s] # h /\ lock'[s] = lock[s]
    BY <1>1, <2>2, <2>4 DEF RemoteInv, LocksOK, Holding
  <2>9. QED BY <1>1, <2>2, <2>3, <2>5, <2>6, <2>7, <2>8, HelperMoves
<1>5. CASE /\ lock' = lock
           /\ helper' = [helper EXCEPT ![h] =
                           [Ended(h, "ERROR") EXCEPT !.said =
                              IF a.cut THEN "none" ELSE "busy"]]
  <2>1. PICK e : e = Ended(h, "ERROR") OBVIOUS
  <2>2. e \in HelperStates /\ Keeps(h, e) /\ e.at \in {"free", "ended"}
    BY <2>1, EndFacts DEF Codes
  <2>3. PICK x \in {"none", "busy"} : x = IF a.cut THEN "none" ELSE "busy" OBVIOUS
  <2>4. PICK r : r = [e EXCEPT !.said = x] OBVIOUS
  <2>5. /\ r \in HelperStates /\ r.at = e.at /\ r.own = e.own /\ r.pkg = e.pkg
        /\ r.said = x
    BY <2>2, <2>4 DEF HelperStates
  <2>6. HelperOK(h, r) /\ Keeps(h, r)
    BY <1>3, <2>2, <2>5 DEF HelperOK, Keeps, Holding
  <2>7. helper' = [helper EXCEPT ![h] = r] BY <1>5, <2>1, <2>3, <2>4
  <2>8. QED
    BY <1>1, <1>5, <2>2, <2>5, <2>6, <2>7, QuietMoves, InvFacts DEF HostTypes, Holding
<1>6. QED BY <1>2, <1>4, <1>5 DEF Lock

\* A helper under the lock keeps it, while others stay where they are.
LEMMA UnderLock ==
    ASSUME RemoteInv, NEW h \in Helpers, helper[h].at \in Holding,
           NEW r \in HelperStates, r.at \in Holding, r.sid = helper[h].sid,
           Keeps(h, r), r.said = "hello" => r.pkg # None,
           helper' = [helper EXCEPT ![h] = r],
           attached' \in Viewers, attached' \subseteq attached \cup {h},
           h \in attached' => r.at = "attached" /\ r.sid = tm.sid /\ tm.sid # 0,
           r.rep /\ r.at \in {"swept", "attached"} /\ r.sid = tm.sid
             => attached' \cap Holders \subseteq {h},
           UNCHANGED <<pkg, tm, lock, soft, clean, local, cli>>
    PROVE  RemoteInv'
<1>1. /\ HelperOK(h, helper[h]) /\ helper[h] \in HelperStates
      /\ lock \in [Sids -> Holders \cup {None}]
  BY InvFacts DEF HostTypes
<1>2. r.sid \in Sids /\ r.sid # 0 /\ lock[r.sid] = h
  BY <1>1, BoundFacts DEF HelperOK, HelperStates
<1>3. HostTypes' BY InvFacts DEF HostTypes
<1>4. ServerOK'
  <2>1. tm.sid = 0 => attached = {} /\ h \notin attached' BY InvFacts DEF ServerOK
  <2>2. QED BY <2>1, InvFacts DEF ServerOK
<1>5. HelperOK(h, r)' BY <1>2 DEF HelperOK
<1>6. ASSUME NEW g \in Helpers \ {h} PROVE HelperOK(g, helper[g])'
  <2>1. helper'[g] = helper[g] BY InvFacts
  <2>2. PICK b : b = helper[g] OBVIOUS
  <2>3. b \in HelperStates /\ HelperOK(g, b) BY <2>2, InvFacts
  <2>4. b.at \in {"swept", "attached"} /\ b.sid = tm.sid => h \notin attached'
    BY <1>2, <2>3 DEF HelperOK, Holding
  <2>5. HelperOK(g, b)' BY <2>3, <2>4 DEF HelperOK, Holding
  <2>6. QED BY <2>1, <2>2, <2>5
<1>7. \A s \in Sids : lock'[s] \in Helpers =>
         \/ lock'[s] = h /\ r.at \in Holding /\ r.sid = s
         \/ lock'[s] # h /\ lock'[s] = lock[s]
  BY DEF RemoteInv, LocksOK
<1>8. QED BY <1>3, <1>4, <1>5, <1>6, <1>7, HelperMoves

LEMMA AbortInv ==
    ASSUME RemoteInv, NEW h \in Helpers, Abort(h),
           UNCHANGED <<pkg, tm, soft, clean, local, cli>>
    PROVE  RemoteInv'
BY Leaves, InvFacts DEF Abort, HostTypes, Codes

LEMMA ValidateInv == ASSUME RemoteInv, NEW h \in Helpers, Validate(h) PROVE RemoteInv'
<1>1. helper[h].at = "held" /\ UNCHANGED <<pkg, tm, soft, clean, local, cli>>
  BY DEF Validate
<1>2. PICK a : a = helper[h] OBVIOUS
<1>3. /\ a \in HelperStates /\ HelperOK(h, a) /\ h \notin attached /\ a.at = "held"
      /\ a.sid \in Numbers /\ attached \in Viewers
  BY <1>1, <1>2, InvFacts DEF HelperOK, HelperStates, HostTypes
<1>4. CASE /\ attached' = SecondSweep(h) /\ lock' = lock
           /\ helper' = [helper EXCEPT ![h].at = "swept"]
  <2>1. PICK r : r = Walked(h, a.sid, "swept") OBVIOUS
  <2>2. /\ r \in HelperStates /\ r.at = "swept" /\ r.sid = a.sid /\ r.rep = a.rep
        /\ Keeps(h, r) /\ (r.said = "hello" => r.pkg # None)
    BY <1>2, <1>3, <2>1, WalkOK DEF Places
  <2>3. helper' = [helper EXCEPT ![h] = r]
    BY <1>2, <1>3, <1>4, <2>1 DEF Walked, HelperStates
  <2>4. attached' = IF a.rep THEN {} ELSE attached
    BY <1>2, <1>4 DEF SecondSweep, Swept
  <2>5. /\ attached' \in Viewers /\ attached' \subseteq attached
        /\ h \notin attached' /\ (r.rep => attached' = {})
    BY <1>3, <2>2, <2>4 DEF Viewers
  <2>6. QED BY <1>1, <1>2, <1>4, <2>2, <2>3, <2>5, UnderLock DEF Holding
<1>5. QED BY <1>1, <1>4, AbortInv DEF Validate

LEMMA AttachInv == ASSUME RemoteInv, NEW h \in Helpers, Attach(h) PROVE RemoteInv'
<1>1. helper[h].at = "swept" /\ UNCHANGED <<pkg, tm, soft, clean, local, cli>>
  BY DEF Attach
<1>2. PICK a : a = helper[h] OBVIOUS
<1>3. /\ a \in HelperStates /\ HelperOK(h, a) /\ a.at = "swept"
      /\ a.sid \in Numbers /\ attached \in Viewers /\ a.sid # 0
  BY <1>1, <1>2, InvFacts DEF HelperOK, HelperStates, HostTypes, Holding
<1>4. CASE /\ Exists(a.sid) /\ attached' = attached \cup {h} /\ lock' = lock
           /\ helper' = [helper EXCEPT ![h].at = "attached"]
  <2>1. PICK r : r = Walked(h, a.sid, "attached") OBVIOUS
  <2>2. /\ r \in HelperStates /\ r.at = "attached" /\ r.sid = a.sid /\ r.rep = a.rep
        /\ Keeps(h, r) /\ (r.said = "hello" => r.pkg # None)
    BY <1>2, <1>3, <2>1, WalkOK DEF Places
  <2>3. helper' = [helper EXCEPT ![h] = r]
    BY <1>2, <1>3, <1>4, <2>1 DEF Walked, HelperStates
  <2>4. attached' \in Viewers BY <1>3, <1>4 DEF Viewers, Holders
  <2>5. tm.sid = a.sid BY <1>4 DEF Exists
  <2>6. r.rep /\ r.sid = tm.sid => attached' \cap Holders \subseteq {h}
    BY <1>3, <1>4, <2>2 DEF HelperOK
  <2>7. QED
    BY <1>1, <1>2, <1>3, <1>4, <2>2, <2>3, <2>4, <2>5, <2>6, UnderLock DEF Holding
<1>5. QED BY <1>1, <1>2, <1>4, AbortInv DEF Attach

LEMMA AcceptInv == ASSUME RemoteInv, NEW h \in Helpers, Accept(h) PROVE RemoteInv'
<1>1. helper[h].at = "attached" /\ UNCHANGED <<pkg, tm, soft, clean, local, cli>>
  BY DEF Accept
<1>2. PICK a : a = helper[h] OBVIOUS
<1>3. /\ a \in HelperStates /\ HelperOK(h, a) /\ a.at = "attached"
      /\ lock \in [Sids -> Holders \cup {None}]
  BY <1>1, <1>2, InvFacts DEF HostTypes
<1>4. CASE /\ attached' = attached /\ lock' = Unlocked(h)
           /\ helper' = [helper EXCEPT ![h].at = "accepted", ![h].said =
                           IF helper[h].cut THEN "none" ELSE "accepted"]
  <2>1. PICK x \in {"none", "accepted"} : x = IF a.cut THEN "none" ELSE "accepted"
    OBVIOUS
  <2>2. PICK r : r = [a EXCEPT !.at = "accepted", !.said = x] OBVIOUS
  <2>3. /\ r \in HelperStates /\ r.at = "accepted" /\ r.own = a.own /\ r.pkg = a.pkg
        /\ r.said = x /\ r.sid = a.sid
    BY <1>3, <2>2 DEF HelperStates, Places
  <2>4. helper' = [helper EXCEPT ![h] = r] BY <1>2, <1>4, <2>1, <2>2
  <2>5. Keeps(h, r) BY <1>2, <2>3 DEF Keeps
  <2>6. /\ lock' \in [Sids -> Holders \cup {None}]
        /\ \A s \in Sids : lock'[s] = lock[s] \/ (lock'[s] = None /\ lock[s] = h)
        /\ \A s \in Sids : lock'[s] # h
    BY <1>3, <1>4, NameFacts DEF Unlocked
  <2>7. HostTypes' /\ ServerOK' BY <1>1, <1>4, <2>6, InvFacts DEF HostTypes, ServerOK
  <2>8. HelperOK(h, r)' BY <1>1, <1>3, <1>4, <2>3 DEF HelperOK, Holding
  <2>9. ASSUME NEW g \in Helpers \ {h} PROVE HelperOK(g, helper[g])'
    <3>1. helper'[g] = helper[g] BY <2>4, InvFacts
    <3>2. PICK b : b = helper[g] OBVIOUS
    <3>3. b \in HelperStates /\ HelperOK(g, b) BY <3>2, InvFacts
    <3>4. b.at \in Holding => lock'[b.sid] = g
      BY <2>6, <3>3, BoundFacts DEF HelperOK, HelperStates
    <3>5. HelperOK(g, b)' BY <1>1, <1>4, <3>3, <3>4 DEF HelperOK
    <3>6. QED BY <3>1, <3>2, <3>5
  <2>10. QED
    BY <1>1, <2>3, <2>4, <2>5, <2>6, <2>7, <2>8, <2>9, HelperMoves, NameFacts
<1>5. QED BY <1>1, <1>4, AbortInv DEF Accept

\* A helper that displays is no longer under the lock.
LEMMA DiscoverInv == ASSUME RemoteInv, NEW h \in Helpers, Discover(h) PROVE RemoteInv'
<1>1. /\ helper[h].at = "accepted"
      /\ UNCHANGED <<pkg, tm, lock, soft, clean, local, cli>>
  BY DEF Discover
<1>2. PICK a : a = helper[h] OBVIOUS
<1>3. a \in HelperStates /\ HelperOK(h, a) /\ a.at = "accepted" /\ tm \in Servings
  BY <1>1, <1>2, InvFacts DEF HostTypes
<1>4. CASE /\ attached' = attached
           /\ helper' = [helper EXCEPT ![h].at = "serve", ![h].srv = tm.srv,
                                       ![h].rep = FALSE]
  <2>1. tm.srv \in Servers BY <1>3, BoundFacts DEF Servings
  <2>2. PICK r : r = [a EXCEPT !.at = "serve", !.srv = tm.srv, !.rep = FALSE] OBVIOUS
  <2>3. /\ r \in HelperStates /\ r.at = "serve" /\ r.own = a.own /\ r.pkg = a.pkg
        /\ r.said = a.said /\ r.sid = a.sid
    BY <1>3, <2>1, <2>2 DEF HelperStates, Places
  <2>4. helper' = [helper EXCEPT ![h] = r] BY <1>2, <1>4, <2>2
  <2>5. HelperOK(h, r) /\ Keeps(h, r) BY <1>2, <1>3, <2>3 DEF HelperOK, Keeps, Holding
  <2>6. QED
    BY <1>1, <1>2, <1>3, <1>4, <2>3, <2>4, <2>5, QuietMoves, InvFacts
    DEF HostTypes, Holding
<1>5. CASE attached' = attached \ {h} /\ End(h, "ERROR")
  BY <1>1, <1>5, Leaves, InvFacts DEF HostTypes, Holding, Codes
<1>6. QED BY <1>4, <1>5 DEF Discover

LEMMA SoftCheckInv == ASSUME RemoteInv, NEW h \in Helpers, SoftCheck(h) PROVE RemoteInv'
<1>1. /\ helper[h].at = "serve" /\ h \notin attached
      /\ UNCHANGED <<pkg, tm, attached, lock, soft, clean, local, cli>>
  BY DEF SoftCheck, remote
<1>2. PICK a : a = helper[h] OBVIOUS
<1>3. a \in HelperStates /\ HelperOK(h, a) /\ a.at = "serve" /\ a.sid \in Numbers
  BY <1>1, <1>2, InvFacts DEF HelperStates
<1>4. CASE helper' = [helper EXCEPT ![h].at = "classify"]
  <2>1. PICK r : r = Walked(h, a.sid, "classify") OBVIOUS
  <2>2. /\ r \in HelperStates /\ r.at = "classify" /\ r.sid = a.sid /\ Keeps(h, r)
        /\ r.said = "hello" => r.pkg # None
    BY <1>2, <1>3, <2>1, WalkOK DEF Places
  <2>3. helper' = [helper EXCEPT ![h] = r]
    BY <1>2, <1>3, <1>4, <2>1 DEF Walked, HelperStates
  <2>4. HelperOK(h, r) BY <1>1, <2>2 DEF HelperOK, Holding
  <2>5. QED
    BY <1>1, <1>2, <2>2, <2>3, <2>4, QuietMoves, InvFacts DEF HostTypes, Holding
<1>5. CASE End(h, "SOFT")
  BY <1>1, <1>5, Leaves, InvFacts DEF HostTypes, Holding, Codes, Terminal
<1>6. QED BY <1>4, <1>5 DEF SoftCheck

LEMMA ClassifyInv == ASSUME RemoteInv, NEW h \in Helpers, Classify(h) PROVE RemoteInv'
<1>1. /\ helper[h].at = "classify" /\ (clean' = clean \/ clean' = None)
      /\ UNCHANGED <<pkg, tm, attached, lock, soft, local, cli>>
      /\ \E code \in {"DETACHED", "SOFT", "HARD", "ERROR"} : End(h, code)
  BY DEF Classify
<1>2. h \notin attached BY <1>1, InvFacts DEF HelperOK
<1>3. {"DETACHED", "SOFT", "HARD", "ERROR"} \subseteq Codes BY DEF Codes, Terminal
<1>4. QED BY <1>1, <1>2, <1>3, Leaves, InvFacts DEF HostTypes, Holding

LEMMA LosesInv ==
    ASSUME RemoteInv, NEW h \in Helpers, InputEnds(h) \/ Watchdog(h)
    PROVE  RemoteInv'
<1>1. /\ helper[h].at = "serve" /\ attached' = attached \ {h}
      /\ UNCHANGED <<pkg, tm, lock, soft, clean, local, cli>>
      /\ \E code \in {"ZERO", "ERROR"} : End(h, code)
  BY DEF InputEnds, Watchdog
<1>2. {"ZERO", "ERROR"} \subseteq Codes BY DEF Codes
<1>3. QED BY <1>1, <1>2, Leaves, InvFacts DEF HostTypes, Holding

LEMMA CutInv == ASSUME RemoteInv, NEW h \in Helpers, Cut(h) PROVE RemoteInv'
<1>1. /\ helper[h].at # "free" /\ helper' = [helper EXCEPT ![h].cut = TRUE, ![h].said = "none"]
      /\ UNCHANGED <<pkg, tm, attached, lock, soft, clean, local, cli>>
  BY DEF Cut, remote
<1>2. PICK a : a = helper[h] OBVIOUS
<1>3. a \in HelperStates /\ HelperOK(h, a) BY <1>2, InvFacts
<1>4. PICK r : r = [a EXCEPT !.cut = TRUE, !.said = "none"] OBVIOUS
<1>5. /\ r \in HelperStates /\ r.at = a.at /\ r.own = a.own /\ r.pkg = a.pkg
      /\ r.said = "none" /\ r.sid = a.sid /\ r.rep = a.rep
  BY <1>3, <1>4 DEF HelperStates
<1>6. HelperOK(h, r) /\ Keeps(h, r) BY <1>1, <1>2, <1>3, <1>5 DEF HelperOK, Keeps
<1>7. helper' = [helper EXCEPT ![h] = r] BY <1>1, <1>2, <1>4
<1>8. QED BY <1>1, <1>2, <1>5, <1>6, <1>7, QuietMoves, InvFacts DEF HostTypes

LEMMA HelperInv ==
    ASSUME RemoteInv, NEW h \in Helpers, HelperStep(h) PROVE RemoteInv'
BY InstallInv, HelloInv, NoStartInv, EnsureInv, StartingInv, FirstSweepInv, LockInv,
   ValidateInv, AttachInv, AcceptInv, DiscoverInv, SoftCheckInv, ClassifyInv, LosesInv
DEF HelperStep

-----------------------------------------------------------------------------
(* Steps of a client *)

\* A client touches no helper that displays or is under the lock but to cut it.
Early == {"free", "install", "hello", "start", "go", "ended"}
Harmless(a, r) ==
    /\ r.said = "hello" => r.pkg # None
    /\ \/ r.at = a.at /\ r.sid = a.sid /\ r.rep = a.rep
       \/ a.at \in Early /\ r.at \in Early

LEMMA ClientMoves ==
    ASSUME RemoteInv, NEW c \in Clients, NEW k \in ClientStates,
           cli' = [cli EXCEPT ![c] = k], helper' \in [Helpers -> HelperStates],
           \A g \in Helpers : Harmless(helper[g], helper'[g]),
           \A d \in Clients \ {c} :
               cli[d].h # None => helper'[cli[d].h] = helper[cli[d].h],
           ClientOK(c, k)', UNCHANGED <<pkg, remote>>
    PROVE  RemoteInv'
<1>1. UNCHANGED <<pkg, tm, attached, lock, soft, clean, local>> BY DEF remote
<1>2. HostTypes' /\ ServerOK' BY <1>1, InvFacts DEF HostTypes, ServerOK
<1>3. cli' \in [Clients -> ClientStates] /\ cli'[c] = k BY InvFacts
<1>4. ASSUME NEW g \in Helpers PROVE HelperOK(g, helper[g])'
  <2>1. PICK a, r : a = helper[g] /\ r = helper'[g] OBVIOUS
  <2>2. HelperOK(g, a) /\ Harmless(a, r) BY <2>1, InvFacts
  <2>3. HelperOK(g, r)' BY <1>1, <2>2 DEF HelperOK, Harmless, Early, Holding
  <2>4. QED BY <2>1, <2>3
<1>5. LocksOK'
  BY <1>1 DEF RemoteInv, LocksOK, Harmless, Early, Holding
<1>6. ASSUME NEW d \in Clients PROVE ClientOK(d, cli[d])'
  <2>1. CASE d = c BY <1>3, <2>1
  <2>2. CASE d # c
    <3>1. cli'[d] = cli[d] /\ ClientOK(d, cli[d]) BY <2>2, InvFacts
    <3>2. cli[d].h # None => helper'[cli[d].h] = helper[cli[d].h] BY <2>2
    <3>3. QED BY <3>1, <3>2 DEF ClientOK
  <2>3. QED BY <2>1, <2>2
<1>7. QED BY <1>2, <1>3, <1>4, <1>5, <1>6 DEF RemoteInv, Types

LEMMA SameHarmless ==
    ASSUME RemoteInv, NEW g \in Helpers PROVE Harmless(helper[g], helper[g])
BY InvFacts DEF Harmless, HelperOK

\* Only one client has a helper.
LEMMA OneOwner ==
    ASSUME RemoteInv, NEW c \in Clients, NEW d \in Clients, c # d, cli[c].h # None
    PROVE  cli[c].h # cli[d].h
BY InvFacts DEF ClientOK

\* What a client leaves of the helper it had.
LEMMA WithoutOK ==
    ASSUME RemoteInv, NEW c \in Clients, NEW hs, hs = Without(cli[c].h)
    PROVE  /\ hs \in [Helpers -> HelperStates]
           /\ \A g \in Helpers : Harmless(helper[g], hs[g])
           /\ \A g \in Helpers : g # cli[c].h => hs[g] = helper[g]
           /\ \A g \in Helpers : hs[g].at = "free" => helper[g].at \in Early
<1>1. PICK x \in Helpers \cup {None} : x = cli[c].h BY InvFacts DEF ClientStates
<1>2. CASE x = None
  <2>1. hs = helper BY <1>1, <1>2 DEF Without
  <2>2. QED BY <1>1, <2>1, InvFacts, SameHarmless DEF Early
<1>3. CASE x # None
  <2>1. PICK a : a = helper[x] OBVIOUS
  <2>2. x \in Helpers /\ a \in HelperStates /\ HelperOK(x, a) BY <1>3, <2>1, InvFacts
  <2>3. PICK r : r = IF a.at = "ended" THEN Free
                     ELSE [a EXCEPT !.cut = TRUE, !.said = "none", !.pkg = None]
    OBVIOUS
  <2>4. hs = [helper EXCEPT ![x] = r] BY <1>1, <1>3, <2>1, <2>3 DEF Without
  <2>5. r \in HelperStates /\ Harmless(a, r)
    <3>1. CASE a.at = "ended"
      <4>1. r = Free BY <2>3, <3>1
      <4>2. Free \in HelperStates /\ Free.at = "free" /\ Free.said = "none"
        BY BoundFacts, VersionFacts DEF HelperStates, Free, Places, Codes
      <4>3. QED BY <3>1, <4>1, <4>2 DEF Harmless, Early
    <3>2. CASE a.at # "ended"
      <4>1. r = [a EXCEPT !.cut = TRUE, !.said = "none", !.pkg = None] BY <2>3, <3>2
      <4>2. /\ r \in HelperStates /\ r.at = a.at /\ r.sid = a.sid /\ r.rep = a.rep
            /\ r.said = "none"
        BY <2>2, <4>1 DEF HelperStates
      <4>3. QED BY <4>2 DEF Harmless
    <3>3. QED BY <3>1, <3>2
  <2>6. r.at = "free" => a.at \in Early BY <2>5 DEF Harmless, Early
  <2>7. /\ hs \in [Helpers -> HelperStates] /\ hs[x] = r
        /\ \A g \in Helpers : g # x => hs[g] = helper[g]
    BY <2>2, <2>4, <2>5, InvFacts
  <2>8. \A g \in Helpers : Harmless(helper[g], hs[g])
    BY <2>1, <2>5, <2>7, SameHarmless
  <2>9. \A g \in Helpers : hs[g].at = "free" => helper[g].at \in Early
    BY <2>1, <2>6, <2>7 DEF Early
  <2>10. QED BY <1>1, <2>7, <2>8, <2>9
<1>4. QED BY <1>2, <1>3

\* A client without a helper asks, waits or is done.
LEMMA Drops ==
    ASSUME RemoteInv, NEW c \in Clients, NEW k \in ClientStates,
           cli' = [cli EXCEPT ![c] = k], helper' = Without(cli[c].h), k.h = None,
           k.at \in {"askInstall", "askVenv", "askTakeover", "backoff", "done"},
           UNCHANGED <<pkg, remote>>
    PROVE  RemoteInv'
<1>1. ClientOK(c, k)' BY DEF ClientOK
<1>2. \A d \in Clients \ {c} :
          cli[d].h # None => helper'[cli[d].h] = helper[cli[d].h]
  <2>1. \A d \in Clients : cli[d].h \in Helpers \cup {None} BY InvFacts DEF ClientStates
  <2>2. QED BY <2>1, OneOwner, WithoutOK
<1>3. QED BY <1>1, <1>2, ClientMoves, WithoutOK

LEMMA StopInv ==
    ASSUME RemoteInv, NEW c \in Clients, Stop(c), UNCHANGED <<pkg, remote>>
    PROVE  RemoteInv'
<1>1. PICK k : k = [at |-> "done", h |-> None, phase |-> "first", want |-> 0,
                    painted |-> FALSE, late |-> FALSE]
  OBVIOUS
<1>2. k \in ClientStates /\ k.h = None /\ k.at = "done"
  BY <1>1, VersionFacts DEF ClientStates
<1>3. cli' = [cli EXCEPT ![c] = k] /\ helper' = Without(cli[c].h)
  BY <1>1 DEF Stop, Update
<1>4. QED BY <1>2, <1>3, Drops

\* A client that stands without a helper at another place.
Left(c, at, phase, want) ==
    [cli[c] EXCEPT !.at = at, !.h = None, !.phase = phase, !.want = want]
LEMMA LeftInv ==
    ASSUME RemoteInv, NEW c \in Clients,
           NEW at \in {"askInstall", "askVenv", "askTakeover", "backoff", "done"},
           NEW phase \in {"first", "user", "venv", "retry", "replace", "auto"},
           NEW want \in Versions, cli' = [cli EXCEPT ![c] = Left(c, at, phase, want)],
           helper' = Without(cli[c].h), UNCHANGED <<pkg, remote>>
    PROVE  RemoteInv'
<1>1. PICK k : k = Left(c, at, phase, want) OBVIOUS
<1>2. k \in ClientStates /\ k.h = None /\ k.at = at
  BY <1>1, InvFacts DEF ClientStates, Left
<1>3. QED BY <1>1, <1>2, Drops

LEMMA LaunchInv ==
    ASSUME RemoteInv, NEW c \in Clients, NEW at \in {"probe", "hello"},
           NEW phase \in {"first", "user", "venv", "retry", "replace", "auto"},
           NEW rep \in BOOLEAN, NEW first \in {"hello", "install"},
           Launch(c, at, phase, rep, first), UNCHANGED <<pkg, remote>>
    PROVE  RemoteInv'
<1>1. PICK hs : hs = Without(cli[c].h) OBVIOUS
<1>2. /\ hs \in [Helpers -> HelperStates]
      /\ \A g \in Helpers : Harmless(helper[g], hs[g])
      /\ \A g \in Helpers : g # cli[c].h => hs[g] = helper[g]
      /\ \A g \in Helpers : hs[g].at = "free" => helper[g].at \in Early
  BY <1>1, WithoutOK
<1>3. PICK h : h = CHOOSE x \in Slot(hs) : TRUE OBVIOUS
<1>4. PICK k, r : k = [cli[c] EXCEPT !.at = at, !.phase = phase, !.h = h]
                  /\ r = Fresh(c, rep, first)
  OBVIOUS
<1>5. /\ Slot(hs) # {} /\ helper' = [hs EXCEPT ![h] = r]
      /\ cli' = [cli EXCEPT ![c] = k]
  BY <1>1, <1>3, <1>4, Zenon DEF Launch, Update
<1>6. h \in Helpers /\ hs[h].at = "free" BY <1>3, <1>5 DEF Slot
<1>7. k \in ClientStates /\ k.h = h /\ k.at = at
  BY <1>4, <1>6, InvFacts DEF ClientStates
<1>8. r \in HelperStates /\ r.at = first /\ r.own = c /\ r.said = "none"
  <2>1. cli[c].want \in Versions BY InvFacts DEF ClientStates
  <2>2. Free \in HelperStates /\ Free.said = "none"
    BY BoundFacts, VersionFacts DEF HelperStates, Free, Places, Codes
  <2>3. QED BY <1>4, <2>1, <2>2 DEF Fresh, HelperStates, Places
<1>9. helper' \in [Helpers -> HelperStates] /\ helper'[h] = r
  BY <1>2, <1>5, <1>6, <1>8
<1>10. ASSUME NEW g \in Helpers PROVE Harmless(helper[g], helper'[g])
  <2>1. CASE g # h BY <1>2, <1>5, <1>6, <2>1
  <2>2. CASE g = h BY <1>2, <1>6, <1>8, <1>9, <2>2 DEF Harmless, Early
  <2>3. QED BY <2>1, <2>2
<1>11. ASSUME NEW d \in Clients \ {c}, cli[d].h # None
       PROVE  helper'[cli[d].h] = helper[cli[d].h]
  <2>1. PICK x \in Helpers : x = cli[d].h BY <1>11, InvFacts DEF ClientStates
  <2>2. cli[d].h # cli[c].h BY <1>11, OneOwner
  <2>3. hs[x] = helper[x] BY <1>2, <2>1, <2>2
  <2>4. ClientOK(d, cli[d]) BY <1>11, InvFacts
  <2>5. helper[x].at # "free" BY <1>11, <2>1, <2>4 DEF ClientOK
  <2>6. x # h BY <1>6, <2>3, <2>5
  <2>7. helper'[x] = hs[x] BY <1>2, <1>5, <2>6
  <2>8. QED BY <2>1, <2>3, <2>7
<1>12. ClientOK(c, k)' BY <1>6, <1>7, <1>8, <1>9, NameFacts DEF ClientOK
<1>13. QED BY <1>5, <1>7, <1>9, <1>10, <1>11, <1>12, ClientMoves

\* A client that goes on with the helper it has.
LEMMA OwnMoves ==
    ASSUME RemoteInv, NEW c \in Clients, NEW k \in ClientStates, NEW r \in HelperStates,
           cli[c].h # None, cli' = [cli EXCEPT ![c] = k],
           helper' = [helper EXCEPT ![cli[c].h] = r],
           Harmless(helper[cli[c].h], r), r.own = helper[cli[c].h].own, r.at # "free",
           k.h = cli[c].h, k.at = "askLocal" => r.pkg # None, UNCHANGED <<pkg, remote>>
    PROVE  RemoteInv'
<1>1. PICK x \in Helpers : x = cli[c].h BY InvFacts DEF ClientStates
<1>2. helper' \in [Helpers -> HelperStates] /\ helper'[x] = r BY <1>1, InvFacts
<1>3. \A g \in Helpers : Harmless(helper[g], helper'[g])
  BY <1>1, <1>2, InvFacts, SameHarmless
<1>4. ClientOK(c, k)' BY <1>1, <1>2, InvFacts DEF ClientOK
<1>5. \A d \in Clients \ {c} :
          cli[d].h # None => helper'[cli[d].h] = helper[cli[d].h]
  <2>1. \A d \in Clients : cli[d].h \in Helpers \cup {None} BY InvFacts DEF ClientStates
  <2>2. QED BY <1>1, <2>1, InvFacts, OneOwner
<1>6. QED BY <1>2, <1>3, <1>4, <1>5, ClientMoves

LEMMA MineFacts ==
    ASSUME RemoteInv, NEW c \in Clients,
           cli[c].at \in {"probe", "askLocal", "hello", "status", "live"}
    PROVE  /\ cli[c].h \in Helpers /\ cli[c].h # None /\ Mine(c) \in HelperStates
           /\ Mine(c).at # "free" /\ HelperOK(cli[c].h, Mine(c))
           /\ Mine(c).said = "hello" \/ cli[c].at = "askLocal" => Mine(c).pkg \in Package
<1>1. cli[c].h # None /\ cli[c].h \in Helpers
  BY InvFacts DEF ClientOK, ClientStates
<1>2. Mine(c) \in HelperStates /\ HelperOK(cli[c].h, Mine(c))
  BY <1>1, InvFacts DEF Mine
<1>3. Mine(c).at # "free" /\ (cli[c].at = "askLocal" => Mine(c).pkg # None)
  BY <1>1, InvFacts DEF ClientOK, Mine
<1>4. QED BY <1>1, <1>2, <1>3 DEF HelperOK, HelperStates

\* The client reads what its helper said, and may ask its user.
LEMMA ReadsInv ==
    ASSUME RemoteInv, NEW c \in Clients,
           cli[c].at \in {"probe", "askLocal", "hello", "status", "live"},
           NEW k \in ClientStates, cli' = [cli EXCEPT ![c] = k], k.h = cli[c].h,
           k.at = "askLocal" => Mine(c).pkg # None,
           helper' = [helper EXCEPT ![cli[c].h].said = "none"], UNCHANGED <<pkg, remote>>
    PROVE  RemoteInv'
<1>1. PICK a : a = Mine(c) OBVIOUS
<1>2. /\ cli[c].h \in Helpers /\ cli[c].h # None /\ a \in HelperStates /\ a.at # "free"
  BY <1>1, MineFacts
<1>3. PICK r : r = [a EXCEPT !.said = "none"] OBVIOUS
<1>4. /\ r \in HelperStates /\ r.at = a.at /\ r.sid = a.sid /\ r.rep = a.rep
      /\ r.own = a.own /\ r.said = "none" /\ r.pkg = a.pkg
  BY <1>2, <1>3 DEF HelperStates
<1>5. helper' = [helper EXCEPT ![cli[c].h] = r] BY <1>1, <1>3 DEF Mine
<1>6. Harmless(a, r) BY <1>4 DEF Harmless
<1>7. QED BY <1>1, <1>2, <1>4, <1>5, <1>6, OwnMoves DEF Mine

\* A client that asks, with its helper waiting.
Asked(c, at, want) == [cli[c] EXCEPT !.at = at, !.want = want]
LEMMA AskedOK ==
    ASSUME RemoteInv, NEW c \in Clients, NEW at \in {"askLocal", "askInstall", "status"},
           NEW want \in Versions, NEW k, k = Asked(c, at, want)
    PROVE  k \in ClientStates /\ k.at = at /\ k.h = cli[c].h
BY InvFacts DEF ClientStates, Asked

Started(a) == [a EXCEPT !.at = "go", !.said = "none", !.pkg = None]
LEMMA StartedOK ==
    ASSUME NEW a \in HelperStates, NEW r, r = Started(a)
    PROVE  r \in HelperStates /\ r.at = "go" /\ r.own = a.own /\ r.said = "none"
BY DEF HelperStates, Places, Started

LEMMA SendStartInv ==
    ASSUME RemoteInv, NEW c \in Clients, cli[c].h # None, SendStart(c),
           UNCHANGED <<pkg, remote>>
    PROVE  RemoteInv'
<1>1. PICK a : a = Mine(c) OBVIOUS
<1>2. PICK x \in Helpers : x = cli[c].h BY InvFacts DEF ClientStates
<1>3. a \in HelperStates /\ a = helper[x] BY <1>1, <1>2, InvFacts DEF Mine
<1>4. CASE a.at = "start" /\ ~a.cut
  <2>1. PICK k : k = Asked(c, "status", 0) OBVIOUS
  <2>2. k \in ClientStates /\ k.at = "status" /\ k.h = x
    BY <1>2, <2>1, AskedOK, VersionFacts
  <2>3. PICK r : r = Started(a) OBVIOUS
  <2>4. /\ r \in HelperStates /\ r.at = "go" /\ r.own = a.own /\ r.said = "none"
    BY <1>3, <2>3, StartedOK
  <2>5. helper' = [helper EXCEPT ![x] = r] /\ cli' = [cli EXCEPT ![c] = k]
    BY <1>1, <1>2, <1>3, <1>4, <2>1, <2>3 DEF SendStart, Update, Asked, Started
  <2>6. Harmless(a, r) BY <1>4, <2>4 DEF Harmless, Early
  <2>7. QED BY <1>2, <1>3, <2>2, <2>4, <2>5, <2>6, OwnMoves
<1>5. CASE ~(a.at = "start" /\ ~a.cut)
  <2>1. Stop(c) BY <1>1, <1>5 DEF SendStart
  <2>2. QED BY <2>1, StopInv
<1>6. QED BY <1>4, <1>5

LEMMA WantedFacts == ASSUME NEW p \in Package PROVE Wanted(p) \in Versions
<1>1. p.ver \in Versions BY DEF Package
<1>2. QED BY <1>1, VersionFacts DEF Wanted

LEMMA FollowInv ==
    ASSUME RemoteInv, NEW c \in Clients, cli[c].at \in {"probe", "askLocal"},
           NEW p \in Package, Follow(c, p), UNCHANGED <<pkg, remote>>
    PROVE  RemoteInv'
<1>1. cli[c].h # None BY MineFacts
<1>2. CASE Stop(c) BY <1>2, StopInv
<1>3. CASE SendStart(c) BY <1>1, <1>3, SendStartInv
<1>4. CASE /\ cli' = [cli EXCEPT ![c] = Asked(c, "askInstall", Wanted(p))]
           /\ helper' = [helper EXCEPT ![cli[c].h].said = "none"]
  <2>1. PICK k : k = Asked(c, "askInstall", Wanted(p)) OBVIOUS
  <2>2. k \in ClientStates /\ k.at = "askInstall" /\ k.h = cli[c].h
    BY <2>1, AskedOK, WantedFacts
  <2>3. QED BY <1>4, <2>1, <2>2, ReadsInv
<1>5. QED BY <1>2, <1>3, <1>4 DEF Follow, Update, Asked

LEMMA ConnectInv == ASSUME RemoteInv, NEW c \in Clients, Connect(c) PROVE RemoteInv'
BY LaunchInv DEF Connect

LEMMA ReadHelloInv == ASSUME RemoteInv, NEW c \in Clients, ReadHello(c) PROVE RemoteInv'
<1>1. /\ cli[c].at = "probe" /\ Mine(c).said = "hello" /\ UNCHANGED <<pkg, remote>>
      /\ \/ Await(c, "askLocal") \/ Follow(c, Mine(c).pkg) \/ SendStart(c) \/ Stop(c)
  BY DEF ReadHello, Is, Said
<1>2. cli[c].h # None /\ Mine(c).pkg \in Package BY <1>1, MineFacts
<1>3. CASE Await(c, "askLocal")
  <2>1. PICK k : k = [cli[c] EXCEPT !.at = "askLocal"] OBVIOUS
  <2>2. k \in ClientStates /\ k.at = "askLocal" /\ k.h = cli[c].h
    BY <2>1, InvFacts DEF ClientStates
  <2>3. /\ cli' = [cli EXCEPT ![c] = k]
        /\ helper' = [helper EXCEPT ![cli[c].h].said = "none"]
    BY <1>3, <2>1 DEF Await, Update
  <2>4. QED BY <1>1, <1>2, <2>2, <2>3, ReadsInv, NameFacts
<1>4. QED BY <1>1, <1>2, <1>3, FollowInv, SendStartInv, StopInv

\* Without a helper, at another place of the set-up.
LEMMA NoHelloInv ==
    ASSUME RemoteInv, NEW c \in Clients, NoHello(c) \/ HelloTimeout(c)
    PROVE  RemoteInv'
<1>1. PICK k : k = cli[c] OBVIOUS
<1>2. k \in ClientStates /\ k.phase \in {"first", "user", "venv", "retry", "replace", "auto"}
      /\ k.want \in Versions
  BY <1>1, InvFacts DEF ClientStates
<1>3. /\ UNCHANGED <<pkg, remote>>
      /\ \/ Stop(c)
         \/ /\ helper' = Without(cli[c].h)
            /\ \/ cli' = [cli EXCEPT ![c] = [k EXCEPT !.at = "askInstall", !.h = None,
                                                      !.want = Local]]
               \/ cli' = [cli EXCEPT ![c] = [k EXCEPT !.at = "askVenv", !.h = None]]
  BY <1>1 DEF NoHello, HelloTimeout, Update
<1>4. /\ [k EXCEPT !.at = "askInstall", !.h = None, !.want = Local] =
           Left(c, "askInstall", k.phase, Local)
      /\ [k EXCEPT !.at = "askVenv", !.h = None] = Left(c, "askVenv", k.phase, k.want)
  BY <1>1, <1>2 DEF Left, ClientStates
<1>5. QED BY <1>2, <1>3, <1>4, StopInv, LeftInv, VersionFacts

LEMMA AnswersInv ==
    ASSUME RemoteInv, NEW c \in Clients,
           AnswerLocal(c) \/ AnswerInstall(c) \/ AnswerVenv(c) \/ AnswerTakeover(c)
    PROVE  RemoteInv'
<1>1. CASE AnswerLocal(c)
  <2>1. cli[c].at = "askLocal" /\ UNCHANGED <<pkg, remote>> BY <1>1 DEF AnswerLocal, Is
  <2>2. Mine(c).pkg \in Package BY <2>1, MineFacts
  <2>3. Stop(c) \/ Follow(c, Mine(c).pkg) BY <1>1 DEF AnswerLocal
  <2>4. QED BY <2>1, <2>2, <2>3, StopInv, FollowInv
<1>2. CASE AnswerInstall(c)
  <2>1. UNCHANGED <<pkg, remote>> BY <1>2 DEF AnswerInstall
  <2>2. QED
    BY <1>2, <2>1, LaunchInv, StopInv, SendStartInv DEF AnswerInstall, Optional
<1>3. CASE AnswerVenv(c) BY <1>3, LaunchInv, StopInv DEF AnswerVenv
<1>4. CASE AnswerTakeover(c)
  BY <1>4, LaunchInv, StopInv DEF AnswerTakeover, Again, Replaces
<1>5. QED BY <1>1, <1>2, <1>3, <1>4

\* A failed attempt ends the client or lets it wait.
LEMMA FailsInv ==
    ASSUME RemoteInv, NEW c \in Clients, Fails(c), UNCHANGED <<pkg, remote>>
    PROVE  RemoteInv'
<1>1. PICK k : k = cli[c] OBVIOUS
<1>2. k \in ClientStates /\ k.phase \in {"first", "user", "venv", "retry", "replace", "auto"}
      /\ k.want \in Versions
  BY <1>1, InvFacts DEF ClientStates
<1>3. \/ Stop(c)
      \/ /\ helper' = Without(cli[c].h)
         /\ cli' = [cli EXCEPT ![c] = [k EXCEPT !.at = "backoff", !.h = None]]
  BY <1>1 DEF Fails, Backoff, Update
<1>4. [k EXCEPT !.at = "backoff", !.h = None] = Left(c, "backoff", k.phase, k.want)
  BY <1>1, <1>2 DEF Left, ClientStates
<1>5. QED BY <1>2, <1>3, <1>4, StopInv, LeftInv

LEMMA RehelloInv == ASSUME RemoteInv, NEW c \in Clients, Rehello(c) PROVE RemoteInv'
<1>1. /\ cli[c].at = "hello" /\ UNCHANGED <<pkg, remote>>
      /\ SendStart(c) \/ Fails(c)
  BY DEF Rehello, Is
<1>2. cli[c].h # None BY <1>1, MineFacts
<1>3. QED BY <1>1, <1>2, SendStartInv, FailsInv

LEMMA AcceptedInv == ASSUME RemoteInv, NEW c \in Clients, Accepted(c) PROVE RemoteInv'
<1>1. /\ cli[c].at = "status" /\ UNCHANGED <<pkg, remote>>
      /\ helper' = [helper EXCEPT ![cli[c].h].said = "none"]
  BY DEF Accepted, Is
<1>2. PICK k : k = [cli[c] EXCEPT !.at = "live", !.late = FALSE, !.phase = "first"]
  OBVIOUS
<1>3. k \in ClientStates /\ k.at = "live" /\ k.h = cli[c].h
  BY <1>2, InvFacts DEF ClientStates
<1>4. cli' = [cli EXCEPT ![c] = k] BY <1>2 DEF Accepted, Update
<1>5. QED BY <1>1, <1>3, <1>4, ReadsInv

LEMMA BusyInv == ASSUME RemoteInv, NEW c \in Clients, Busy(c) PROVE RemoteInv'
<1>1. PICK k : k = cli[c] OBVIOUS
<1>2. k \in ClientStates /\ k.phase \in {"first", "user", "venv", "retry", "replace", "auto"}
      /\ k.want \in Versions
  BY <1>1, InvFacts DEF ClientStates
<1>3. /\ UNCHANGED <<pkg, remote>>
      /\ \/ Fails(c) \/ Again(c, "retry")
         \/ /\ helper' = Without(cli[c].h)
            /\ cli' = [cli EXCEPT ![c] = [k EXCEPT !.at = "askTakeover", !.h = None]]
  BY <1>1 DEF Busy, Update
<1>4. [k EXCEPT !.at = "askTakeover", !.h = None] = Left(c, "askTakeover", k.phase, k.want)
  BY <1>1, <1>2 DEF Left, ClientStates
<1>5. CASE Again(c, "retry") BY <1>3, <1>5, LaunchInv DEF Again, Replaces
<1>6. QED BY <1>2, <1>3, <1>4, <1>5, FailsInv, LeftInv

LEMMA LostInv == ASSUME RemoteInv, NEW c \in Clients, Lost(c) PROVE RemoteInv'
<1>1. PICK k : k = cli[c] OBVIOUS
<1>2. k \in ClientStates /\ k.want \in Versions BY <1>1, InvFacts DEF ClientStates
<1>3. /\ UNCHANGED <<pkg, remote>>
      /\ \/ Stop(c)
         \/ /\ helper' = Without(cli[c].h)
            /\ cli' = [cli EXCEPT ![c] = [k EXCEPT !.at = "backoff", !.phase = "auto",
                                                   !.h = None]]
  BY <1>1 DEF Lost, Update
<1>4. [k EXCEPT !.at = "backoff", !.phase = "auto", !.h = None] =
        Left(c, "backoff", "auto", k.want)
  BY <1>1, <1>2 DEF Left, ClientStates
<1>5. QED BY <1>2, <1>3, <1>4, StopInv, LeftInv

LEMMA RetryInv == ASSUME RemoteInv, NEW c \in Clients, Retry(c) PROVE RemoteInv'
<1>1. Again(c, "auto") => Launch(c, "hello", "auto", FALSE, "hello")
  BY DEF Again, Replaces
<1>2. QED BY <1>1, StopInv, LaunchInv DEF Retry

\* Marks of the client alone.
LEMMA MarksInv ==
    ASSUME RemoteInv, NEW c \in Clients, Paint(c) \/ Deadline(c) PROVE RemoteInv'
<1>1. UNCHANGED <<pkg, remote, helper>> BY DEF Paint, Deadline
<1>2. PICK k : /\ cli' = [cli EXCEPT ![c] = k]
               /\ \/ k = [cli[c] EXCEPT !.painted = TRUE]
                  \/ k = [cli[c] EXCEPT !.late = TRUE]
  BY DEF Paint, Deadline, Update
<1>3. k \in ClientStates /\ k.h = cli[c].h /\ k.at = cli[c].at
  BY <1>2, InvFacts DEF ClientStates
<1>4. ClientOK(c, k)' BY <1>1, <1>3, InvFacts DEF ClientOK
<1>5. \A g \in Helpers : Harmless(helper[g], helper'[g]) BY <1>1, SameHarmless
<1>6. helper' \in [Helpers -> HelperStates] BY <1>1, InvFacts
<1>7. QED BY <1>1, <1>2, <1>3, <1>4, <1>5, <1>6, ClientMoves

LEMMA ClientInv ==
    ASSUME RemoteInv, NEW c \in Clients,
           Setup(c) \/ ClientStep(c) \/ ClientMove(c) \/ Deadline(c)
    PROVE  RemoteInv'
<1>1. Escape(c) => RemoteInv' BY StopInv DEF Escape
<1>2. Refused(c) => RemoteInv' BY FailsInv DEF Refused
<1>3. QED
  BY <1>1, <1>2, ConnectInv, ReadHelloInv, NoHelloInv, AnswersInv, RehelloInv,
     AcceptedInv, BusyInv, LostInv, RetryInv, MarksInv
  DEF Setup, ClientStep, ClientMove, Attempt, Reconnect

-----------------------------------------------------------------------------
(* Railmux, the server and others *)

\* The server changes; the helpers that display may learn why.
LEMMA ServerMoves ==
    ASSUME RemoteInv, NEW t \in Servings, tm' = t,
           t.sid = tm.sid \/ attached' \subseteq {"local"},
           t.sid = 0 => attached' = {} /\ ~t.ctl /\ t.quit = "no",
           attached' \subseteq attached \cup {"local"},
           helper' \in [Helpers -> HelperStates],
           \A h \in Helpers : \E x : helper'[h] = [helper[h] EXCEPT !.ended = x],
           lock' = lock, soft' \in Sentinel \cup {None}, clean' \in Sentinel \cup {None},
           local' \in Launchers, UNCHANGED <<pkg, cli>>
    PROVE  RemoteInv'
<1>1. attached' \in Viewers BY InvFacts DEF HostTypes, Viewers, Holders
<1>2. HostTypes' /\ ServerOK' BY <1>1, InvFacts DEF HostTypes, ServerOK
<1>3. ASSUME NEW h \in Helpers
      PROVE  /\ helper'[h].at = helper[h].at /\ helper'[h].sid = helper[h].sid
             /\ helper'[h].rep = helper[h].rep /\ helper'[h].own = helper[h].own
             /\ helper'[h].pkg = helper[h].pkg /\ helper'[h].said = helper[h].said
  <2>1. PICK a : a = helper[h] OBVIOUS
  <2>2. a \in HelperStates BY <2>1, InvFacts
  <2>3. PICK x : helper'[h] = [a EXCEPT !.ended = x] BY <2>1
  <2>4. QED BY <2>1, <2>2, <2>3 DEF HelperStates
<1>4. ASSUME NEW h \in Helpers PROVE HelperOK(h, helper[h])'
  <2>1. h # "local" /\ "local" \notin Holders BY NameFacts
  <2>2. PICK a, r : a = helper[h] /\ r = helper'[h] OBVIOUS
  <2>3. HelperOK(h, a) BY <2>2, InvFacts
  <2>4. /\ r.at = a.at /\ r.sid = a.sid /\ r.rep = a.rep /\ r.pkg = a.pkg
        /\ r.said = a.said
    BY <1>3, <2>2
  <2>5. HelperOK(h, r)' BY <2>1, <2>3, <2>4 DEF HelperOK
  <2>6. QED BY <2>2, <2>5
<1>5. LocksOK' BY <1>3 DEF RemoteInv, LocksOK
<1>6. ASSUME NEW c \in Clients PROVE ClientOK(c, cli[c])'
  <2>1. cli[c].h \in Helpers \cup {None} /\ ClientOK(c, cli[c])
    BY InvFacts DEF ClientStates
  <2>2. QED BY <1>3, <2>1 DEF ClientOK
<1>7. QED BY <1>2, <1>4, <1>5, <1>6, InvFacts DEF RemoteInv, Types

\* The end of the session.
LEMMA SessionEndsFacts ==
    ASSUME RemoteInv, NEW x \in {"none", "soft", "hard"}, SessionEnds(x)
    PROVE  /\ tm' \in Servings /\ tm'.sid = 0 /\ ~tm'.ctl /\ tm'.quit = "no"
           /\ attached' = {} /\ local' \in Launchers
           /\ helper' \in [Helpers -> HelperStates]
           /\ \A h \in Helpers : \E y : helper'[h] = [helper[h] EXCEPT !.ended = y]
<1>1. PICK t \in Servings : t = tm BY InvFacts DEF HostTypes
<1>2. tm' = [t EXCEPT !.up = t.others, !.sid = 0, !.ctl = FALSE, !.quit = "no"]
  BY <1>1 DEF SessionEnds
<1>3. tm' \in Servings /\ tm'.sid = 0 /\ ~tm'.ctl /\ tm'.quit = "no"
  BY <1>2, BoundFacts DEF Servings
<1>4. PICK l \in Launchers : l = local BY InvFacts DEF HostTypes
<1>5. local' = l \/ local' = [l EXCEPT !.at = "lost"] BY <1>4 DEF SessionEnds
<1>6. local' \in Launchers BY <1>5 DEF Launchers
<1>7. ASSUME NEW h \in Helpers
      PROVE  /\ [helper[h] EXCEPT !.ended = x] \in HelperStates
             /\ helper[h] = [helper[h] EXCEPT !.ended = helper[h].ended]
  <2>1. PICK a : a = helper[h] OBVIOUS
  <2>2. a \in HelperStates BY <2>1, InvFacts
  <2>3. [a EXCEPT !.ended = x] \in HelperStates BY <2>2 DEF HelperStates
  <2>4. a = [a EXCEPT !.ended = a.ended] BY <2>2 DEF HelperStates
  <2>5. QED BY <2>1, <2>3, <2>4
<1>8. /\ helper' = [h \in Helpers |-> helper'[h]]
      /\ \A h \in Helpers : helper'[h] = helper[h]
                            \/ helper'[h] = [helper[h] EXCEPT !.ended = x]
  BY DEF SessionEnds
<1>9. helper' \in [Helpers -> HelperStates] BY <1>7, <1>8, InvFacts
<1>10. \A h \in Helpers : \E y : helper'[h] = [helper[h] EXCEPT !.ended = y]
  BY <1>7, <1>8
<1>11. QED BY <1>3, <1>6, <1>9, <1>10 DEF SessionEnds

LEMMA SameHelpers ==
    ASSUME RemoteInv, helper' = helper
    PROVE  /\ helper' \in [Helpers -> HelperStates]
           /\ \A h \in Helpers : \E y : helper'[h] = [helper[h] EXCEPT !.ended = y]
<1>1. ASSUME NEW h \in Helpers
      PROVE  helper[h] = [helper[h] EXCEPT !.ended = helper[h].ended]
  <2>1. PICK a : a = helper[h] OBVIOUS
  <2>2. a \in HelperStates BY <2>1, InvFacts
  <2>3. a = [a EXCEPT !.ended = a.ended] BY <2>2 DEF HelperStates
  <2>4. QED BY <2>1, <2>3
<1>2. QED BY <1>1, InvFacts

\* Railmux goes from one phase to another in a session that stays.
Phased(c, q, o, f) == [tm EXCEPT !.ctl = c, !.quit = q, !.others = o, !.frozen = f]
LEMMA PhaseInv ==
    ASSUME RemoteInv, NEW c \in BOOLEAN,
           NEW q \in {"no", "soft", "unrecorded", "left", "hard", "kill"},
           NEW o \in BOOLEAN, NEW f \in BOOLEAN, tm.sid # 0,
           tm' = Phased(c, q, o, f), soft' \in Sentinel \cup {None},
           clean' \in Sentinel \cup {None},
           UNCHANGED <<pkg, attached, lock, helper, cli, local>>
    PROVE  RemoteInv'
<1>1. PICK t : t = Phased(c, q, o, f) OBVIOUS
<1>2. t \in Servings /\ t.sid = tm.sid
  BY <1>1, InvFacts DEF HostTypes, Servings, Phased
<1>3. attached' = attached /\ attached' \in Viewers BY InvFacts DEF HostTypes
<1>4. QED BY <1>1, <1>2, <1>3, SameHelpers, ServerMoves, InvFacts DEF HostTypes

LEMMA TmFacts ==
    ASSUME RemoteInv
    PROVE  /\ tm \in Servings /\ tm.ctl \in BOOLEAN /\ tm.others \in BOOLEAN
           /\ tm.frozen \in BOOLEAN /\ tm.srv \in Servers /\ tm.sid \in Numbers
           /\ tm.ctl \/ tm.quit # "no" => tm.sid # 0 /\ Here \in Sentinel
           /\ tm.quit \in {"no", "soft", "unrecorded", "left", "hard", "kill"}
<1>1. PICK t \in Servings : t = tm BY InvFacts DEF HostTypes
<1>2. /\ t.ctl \in BOOLEAN /\ t.others \in BOOLEAN /\ t.frozen \in BOOLEAN
      /\ t.srv \in Servers /\ t.sid \in Numbers /\ t.srv \in 1 .. MaxServers
      /\ t.quit \in {"no", "soft", "unrecorded", "left", "hard", "kill"}
  BY BoundFacts DEF Servings
<1>3. t.ctl \/ t.quit # "no" => t.sid # 0 BY <1>1, InvFacts DEF ServerOK
<1>4. t.sid # 0 => Here \in Sentinel BY <1>1, <1>2, BoundFacts DEF Here, Sentinel
<1>5. QED BY <1>1, <1>2, <1>3, <1>4

LEMMA QuitInv == ASSUME RemoteInv, Ready \/ SoftQuit \/ HardQuit PROVE RemoteInv'
<1>1. PICK t \in Servings : t = tm BY TmFacts
<1>2. t.sid # 0 BY <1>1, TmFacts DEF Ready, SoftQuit, HardQuit
<1>3. \E c \in BOOLEAN, q \in {"no", "soft", "unrecorded", "hard"}, o \in BOOLEAN :
         tm' = [t EXCEPT !.ctl = c, !.quit = q, !.others = o, !.frozen = t.frozen]
  <2>1. t.ctl \in BOOLEAN /\ t.others \in BOOLEAN BY DEF Servings
  <2>2. CASE Ready
    <3>1. tm' = [t EXCEPT !.ctl = TRUE] /\ t.quit = "no" BY <1>1, <2>2 DEF Ready
    <3>2. tm' = [t EXCEPT !.ctl = TRUE, !.quit = "no", !.others = t.others,
                          !.frozen = t.frozen]
      BY <3>1 DEF Servings
    <3>3. QED BY <2>1, <3>2
  <2>3. CASE SoftQuit
    <3>1. PICK q \in {"soft", "unrecorded"} : tm' = [t EXCEPT !.quit = q]
      BY <1>1, <2>3 DEF SoftQuit
    <3>2. tm' = [t EXCEPT !.ctl = t.ctl, !.quit = q, !.others = t.others,
                          !.frozen = t.frozen]
      BY <3>1 DEF Servings
    <3>3. QED BY <2>1, <3>2
  <2>4. CASE HardQuit
    <3>1. \/ \E o \in {FALSE, t.others} :
               tm' = [t EXCEPT !.quit = "hard", !.ctl = FALSE, !.others = o]
          \/ tm' = [t EXCEPT !.quit = "unrecorded"]
      BY <1>1, <2>4 DEF HardQuit
    <3>2. ASSUME NEW o \in {FALSE, t.others},
                 tm' = [t EXCEPT !.quit = "hard", !.ctl = FALSE, !.others = o]
          PROVE  tm' = [t EXCEPT !.ctl = FALSE, !.quit = "hard", !.others = o,
                                 !.frozen = t.frozen]
      BY <3>2 DEF Servings
    <3>3. ASSUME tm' = [t EXCEPT !.quit = "unrecorded"]
          PROVE  tm' = [t EXCEPT !.ctl = t.ctl, !.quit = "unrecorded",
                                 !.others = t.others, !.frozen = t.frozen]
      BY <3>3 DEF Servings
    <3>4. QED BY <2>1, <3>1, <3>2, <3>3
  <2>5. QED BY <2>2, <2>3, <2>4
<1>4. t.frozen \in BOOLEAN BY DEF Servings
<1>5. /\ soft' \in Sentinel \cup {None} /\ clean' \in Sentinel \cup {None}
      /\ UNCHANGED <<pkg, attached, lock, helper, cli, local>>
  <2>1. SoftQuit => Here \in Sentinel BY TmFacts DEF SoftQuit
  <2>2. soft \in Sentinel \cup {None} /\ clean \in Sentinel \cup {None}
    BY InvFacts DEF HostTypes
  <2>3. UNCHANGED <<pkg, attached, lock, clean, helper, cli, local>>
    BY DEF Ready, SoftQuit, HardQuit
  <2>4. ASSUME Ready \/ HardQuit PROVE soft' = soft BY <2>4 DEF Ready, HardQuit
  <2>5. ASSUME SoftQuit PROVE soft' = soft \/ soft' = Here BY <2>5 DEF SoftQuit
  <2>6. soft' \in Sentinel \cup {None} BY <2>1, <2>2, <2>4, <2>5
  <2>7. QED BY <2>2, <2>3, <2>6
<1>6. PICK c \in BOOLEAN, q \in {"no", "soft", "unrecorded", "hard"}, o \in BOOLEAN :
         tm' = Phased(c, q, o, t.frozen)
  BY <1>1, <1>3 DEF Phased
<1>7. q \in {"no", "soft", "unrecorded", "left", "hard", "kill"} OBVIOUS
<1>8. QED BY <1>1, <1>2, <1>4, <1>5, <1>6, <1>7, PhaseInv

LEMMA EndInv ==
    ASSUME RemoteInv, NEW x \in {"none", "soft", "hard"}, SessionEnds(x),
           clean' \in Sentinel \cup {None}, UNCHANGED <<pkg, lock, soft, cli>>
    PROVE  RemoteInv'
<1>1. PICK t : t = tm' OBVIOUS
<1>2. QED BY <1>1, SessionEndsFacts, ServerMoves, InvFacts DEF HostTypes

LEMMA PhasedInv ==
    ASSUME RemoteInv, NEW q \in {"unrecorded", "left", "kill"}, tm.sid # 0,
           tm' = [tm EXCEPT !.quit = q], clean' \in Sentinel \cup {None},
           UNCHANGED <<pkg, attached, lock, soft, helper, cli, local>>
    PROVE  RemoteInv'
<1>1. PICK t \in Servings : t = tm BY TmFacts
<1>2. tm' = [t EXCEPT !.ctl = t.ctl, !.quit = q, !.others = t.others,
                      !.frozen = t.frozen]
  BY <1>1 DEF Servings
<1>3. tm' = Phased(tm.ctl, q, tm.others, tm.frozen) BY <1>1, <1>2 DEF Phased
<1>4. QED BY <1>3, PhaseInv, TmFacts, InvFacts DEF HostTypes

LEMMA AppInv == ASSUME RemoteInv, App PROVE RemoteInv'
<1>1. CASE Teardown
  <2>1. PICK t \in Servings : t = tm BY TmFacts
  <2>2. tm' = [t EXCEPT !.ctl = FALSE] /\ t.quit \in {"soft", "unrecorded"}
    BY <1>1, <2>1 DEF Teardown
  <2>3. tm' = [t EXCEPT !.ctl = FALSE, !.quit = t.quit, !.others = t.others,
                        !.frozen = t.frozen]
    BY <2>2 DEF Servings
  <2>4. tm' = Phased(FALSE, tm.quit, tm.others, tm.frozen) BY <2>1, <2>3 DEF Phased
  <2>5. tm.sid # 0 BY <2>1, <2>2, TmFacts
  <2>6. QED BY <1>1, <2>4, <2>5, PhaseInv, TmFacts, InvFacts DEF HostTypes, Teardown
<1>2. CASE Exit
  <2>1. tm.sid # 0 BY <1>2, TmFacts DEF Exit
  <2>2. clean' \in Sentinel \cup {None} BY <1>2, InvFacts DEF HostTypes, Exit
  <2>3. CASE \E x \in {"none", "soft"} : SessionEnds(x)
    BY <1>2, <2>2, <2>3, EndInv DEF Exit
  <2>4. CASE tm' = [tm EXCEPT !.quit = "left"] /\ UNCHANGED <<attached, helper, local>>
    BY <1>2, <2>1, <2>2, <2>4, PhasedInv DEF Exit
  <2>5. QED BY <1>2, <2>3, <2>4 DEF Exit
<1>3. CASE HardIntent
  <2>1. tm.sid # 0 /\ Here \in Sentinel BY <1>3, TmFacts DEF HardIntent
  <2>2. clean' \in Sentinel \cup {None} BY <1>3, <2>1, InvFacts DEF HostTypes, HardIntent
  <2>3. QED BY <1>3, <2>1, <2>2, PhasedInv DEF HardIntent
<1>4. CASE HardKill
  <2>1. tm.sid # 0 BY <1>4, TmFacts DEF HardKill
  <2>2. clean' \in Sentinel \cup {None} BY <1>4, InvFacts DEF HostTypes, HardKill
  <2>3. CASE \E x \in {"none", "hard"} : SessionEnds(x)
    BY <1>4, <2>2, <2>3, EndInv DEF HardKill
  <2>4. CASE /\ tm' = [tm EXCEPT !.quit = "unrecorded"]
             /\ UNCHANGED <<attached, helper, local>>
    BY <1>4, <2>1, <2>2, <2>4, PhasedInv DEF HardKill
  <2>5. QED BY <1>4, <2>3, <2>4 DEF HardKill
<1>5. QED BY <1>1, <1>2, <1>3, <1>4, QuitInv DEF App

LEMMA CrashInv == ASSUME RemoteInv, Crash PROVE RemoteInv'
<1>1. /\ tm.sid # 0 /\ UNCHANGED <<pkg, lock, soft, clean, cli>>
      /\ clean' \in Sentinel \cup {None}
  BY InvFacts DEF HostTypes, Crash
<1>2. PICK t \in Servings : t = tm BY TmFacts
<1>3. CASE SessionEnds("none") BY <1>1, <1>3, EndInv
<1>4. CASE /\ tm' = [t EXCEPT !.up = FALSE, !.sid = 0, !.ctl = FALSE, !.others = FALSE,
                              !.quit = "no", !.frozen = FALSE]
           /\ attached' = {} /\ helper' = helper
           /\ local' = local \/ local' = [local EXCEPT !.at = "lost"]
  <2>1. PICK n : n = tm' OBVIOUS
  <2>2. n \in Servings /\ n.sid = 0 /\ ~n.ctl /\ n.quit = "no"
    BY <1>4, <2>1, BoundFacts DEF Servings
  <2>3. PICK l \in Launchers : l = local BY InvFacts DEF HostTypes
  <2>4. local' \in Launchers BY <1>4, <2>3 DEF Launchers
  <2>5. QED
    BY <1>1, <1>4, <2>1, <2>2, <2>4, SameHelpers, ServerMoves, InvFacts DEF HostTypes
<1>5. CASE /\ tm' = [t EXCEPT !.frozen = TRUE] /\ UNCHANGED <<attached, helper, local>>
  <2>1. tm' = [t EXCEPT !.ctl = t.ctl, !.quit = t.quit, !.others = t.others,
                        !.frozen = TRUE]
    BY <1>5 DEF Servings
  <2>2. tm' = Phased(tm.ctl, tm.quit, tm.others, TRUE) BY <1>2, <2>1 DEF Phased
  <2>3. QED BY <1>1, <1>5, <2>2, PhaseInv, TmFacts, InvFacts DEF HostTypes
<1>6. QED BY <1>2, <1>3, <1>4, <1>5 DEF Crash

\* Who else comes and goes, with the server as it is.
LEMMA OthersMove ==
    ASSUME RemoteInv, attached' \subseteq attached, local' \in Launchers,
           clean' \in Sentinel \cup {None}, soft' \in Sentinel \cup {None},
           UNCHANGED <<pkg, tm, lock, helper, cli>>
    PROVE  RemoteInv'
<1>1. PICK t : t = tm' OBVIOUS
<1>2. t \in Servings /\ t.sid = tm.sid BY <1>1, TmFacts
<1>3. t.sid = 0 => attached' = {} /\ ~t.ctl /\ t.quit = "no"
  BY <1>1, InvFacts DEF ServerOK
<1>4. QED BY <1>1, <1>2, <1>3, SameHelpers, ServerMoves

LEMMA LocalLaunchInv == ASSUME RemoteInv, LocalLaunch PROVE RemoteInv'
<1>1. PICK t : t = tm' OBVIOUS
<1>2. t \in Servings /\ t.sid # 0 /\ (t.sid = tm.sid \/ attached = {})
  BY <1>1, TmFacts, SessionFacts DEF LocalLaunch
<1>3. t.srv \in Servers /\ t.sid \in Numbers BY <1>2, BoundFacts DEF Servings
<1>4. local' \in Launchers BY <1>1, <1>3 DEF LocalLaunch, Launchers
<1>5. /\ attached' = attached \cup {"local"} /\ helper' = helper
      /\ UNCHANGED <<pkg, lock, soft, clean, cli>>
  BY DEF LocalLaunch
<1>6. QED
  BY <1>1, <1>2, <1>4, <1>5, SameHelpers, ServerMoves, InvFacts DEF HostTypes

LEMMA LocalInv ==
    ASSUME RemoteInv, LocalEnd \/ LocalWatchdog \/ UserDetaches \/ Expire PROVE RemoteInv'
<1>1. /\ attached' \subseteq attached /\ UNCHANGED <<pkg, tm, lock, helper, cli>>
      /\ local' = local \/ local' = [at |-> "off", srv |-> 0, sid |-> 0]
      /\ soft' \in {soft, None} /\ clean' \in {clean, None}
  BY DEF LocalEnd, LocalWatchdog, UserDetaches, Expire
<1>2. local' \in Launchers BY <1>1, BoundFacts, InvFacts DEF HostTypes, Launchers
<1>3. QED BY <1>1, <1>2, OthersMove, InvFacts DEF HostTypes

\* The lock of an old helper goes with it; it was nobody else's.
LEMMA LegacyInv == ASSUME RemoteInv, LegacyEnds PROVE RemoteInv'
<1>1. /\ UNCHANGED <<pkg, tm, attached, soft, clean, helper, cli, local>>
      /\ lock' = [s \in Sids |-> IF lock[s] = "legacy" THEN None ELSE lock[s]]
      /\ lock \in [Sids -> Holders \cup {None}]
  BY InvFacts DEF LegacyEnds, HostTypes
<1>2. /\ lock' \in [Sids -> Holders \cup {None}]
      /\ \A s \in Sids : lock'[s] = lock[s] \/ (lock[s] = "legacy" /\ lock'[s] = None)
  BY <1>1
<1>3. HostTypes' /\ ServerOK' BY <1>1, <1>2, InvFacts DEF HostTypes, ServerOK
<1>4. ASSUME NEW h \in Helpers PROVE HelperOK(h, helper[h])'
  <2>1. PICK a : a = helper[h] OBVIOUS
  <2>2. a \in HelperStates /\ HelperOK(h, a) BY <2>1, InvFacts
  <2>3. a.at \in Holding => lock'[a.sid] = h
    BY <1>2, <2>2, BoundFacts, NameFacts DEF HelperOK, HelperStates
  <2>4. HelperOK(h, a)' BY <1>1, <2>2, <2>3 DEF HelperOK
  <2>5. QED BY <1>1, <2>1, <2>4
<1>5. LocksOK' BY <1>1, <1>2, NameFacts DEF RemoteInv, LocksOK
<1>6. \A c \in Clients : ClientOK(c, cli[c])' BY <1>1, InvFacts DEF ClientOK
<1>7. QED BY <1>1, <1>3, <1>4, <1>5, <1>6, InvFacts DEF RemoteInv, Types

-----------------------------------------------------------------------------
(* Initial states *)

LEMMA GivenFacts ==
    /\ Given \in [Shown -> Helpers]
    /\ \A c, d \in Shown : Given[c] = Given[d] => c = d
<1>1. \E f \in [Shown -> Helpers] : IsInjective(f) BY ClientAssumption
<1>2. Given \in [Shown -> Helpers] /\ IsInjective(Given) BY <1>1 DEF Given
<1>3. QED BY <1>2 DEF IsInjective

LEMMA ServingFacts ==
    ASSUME NEW c \in Clients
    PROVE  /\ Serving(c) \in HelperStates /\ Serving(c).own = c
           /\ Serving(c).at = "serve" /\ Serving(c).sid = 1
           /\ Serving(c).said = "none"
<1>1. PICK r : r = Serving(c) OBVIOUS
<1>2. r = [own |-> c, rep |-> FALSE, at |-> "serve", cut |-> FALSE, want |-> 0,
           said |-> "none", pkg |-> None, srv |-> 1, sid |-> 1, code |-> "none",
           ended |-> "none"]
  BY <1>1 DEF Serving, Free
<1>3. 1 \in Numbers /\ 1 \in Servers /\ 0 \in Versions
  BY BoundFacts, VersionFacts
<1>4. r \in HelperStates BY <1>2, <1>3 DEF HelperStates, Places, Codes
<1>5. QED BY <1>1, <1>2, <1>4

LEMMA FreeFacts ==
    Free \in HelperStates /\ Free.at = "free" /\ Free.said = "none"
BY BoundFacts, VersionFacts DEF HelperStates, Free, Places, Codes

LEMMA InitInv == ASSUME Init PROVE RemoteInv
<1>1. PICK first \in Firsts :
        /\ tm = [up |-> TRUE, srv |-> 1, sid |-> 1, born |-> 1, ctl |-> TRUE,
                 others |-> first.others, quit |-> "no", frozen |-> FALSE]
        /\ attached = {Given[c] : c \in Shown} \cup first.who
        /\ lock = [s \in Sids |-> IF s = 1 /\ "legacy" \in first.who
                                  THEN "legacy" ELSE None]
        /\ local = IF "local" \in first.who
                   THEN [at |-> "on", srv |-> 1, sid |-> 1]
                   ELSE [at |-> "off", srv |-> 0, sid |-> 0]
  BY DEF Init
<1>2. first.others \in BOOLEAN /\ first.who \subseteq {"legacy", "local"}
  BY FirstAssumption
<1>3. pkg \in Package /\ soft = None /\ clean = None
  BY PackageAssumption DEF Init
<1>4. /\ 1 \in Sids /\ 1 \in Numbers /\ 0 \in Numbers /\ 1 \in Servers
      /\ 0 \in Servers /\ 1 \in 1 .. MaxServers
  BY BoundAssumption DEF Sids, Numbers, Servers
<1>5. HostTypes
  <2>1. tm \in Servings BY <1>1, <1>2, <1>4 DEF Servings
  <2>2. attached \in Viewers BY <1>1, <1>2, GivenFacts DEF Viewers, Holders
  <2>3. lock \in [Sids -> Holders \cup {None}] BY <1>1 DEF Holders
  <2>4. local \in Launchers BY <1>1, <1>4 DEF Launchers
  <2>5. QED BY <1>3, <2>1, <2>2, <2>3, <2>4 DEF HostTypes
<1>6. ServerOK BY <1>1 DEF ServerOK
<1>7. LocksOK BY <1>1, NameFacts DEF LocksOK
<1>8. Shown \subseteq Clients BY ClientAssumption
<1>9. \A h \in Helpers :
        \/ helper[h] = Free /\ ~\E c \in Shown : Given[c] = h
        \/ \E c \in Shown : Given[c] = h /\ helper[h] = Serving(c)
  BY Zenon DEF Init
<1>10. \A c \in Shown : helper[Given[c]] = Serving(c) BY <1>9, GivenFacts
<1>11. helper \in [Helpers -> HelperStates]
  <2>1. helper = [h \in Helpers |-> helper[h]] BY DEF Init
  <2>2. \A h \in Helpers : helper[h] \in HelperStates
    BY <1>8, <1>9, FreeFacts, ServingFacts
  <2>3. QED BY <2>1, <2>2
<1>12. ASSUME NEW h \in Helpers PROVE HelperOK(h, helper[h])
  <2>1. CASE helper[h] = Free /\ ~\E c \in Shown : Given[c] = h
    <3>1. h \notin attached BY <1>1, <1>2, <2>1, NameFacts
    <3>2. QED BY <2>1, <3>1, FreeFacts DEF HelperOK, Holding
  <2>2. CASE \E c \in Shown : Given[c] = h /\ helper[h] = Serving(c)
    <3>1. tm.sid = 1 BY <1>1
    <3>2. QED BY <1>8, <2>2, <3>1, ServingFacts DEF HelperOK, Holding
  <2>3. QED BY <1>9, <2>1, <2>2
<1>13. /\ cli = [c \in Clients |-> cli[c]]
       /\ \A c \in Clients :
            cli[c] = IF c \in Shown
                     THEN [at |-> "live", h |-> Given[c], phase |-> "first", want |-> 0,
                           painted |-> TRUE, late |-> FALSE]
                     ELSE [at |-> "idle", h |-> None, phase |-> "first", want |-> 0,
                           painted |-> FALSE, late |-> FALSE]
  BY DEF Init
<1>14. ASSUME NEW c \in Clients PROVE cli[c] \in ClientStates /\ ClientOK(c, cli[c])
  <2>1. CASE c \in Shown
    <3>1. cli[c] = [at |-> "live", h |-> Given[c], phase |-> "first", want |-> 0,
                    painted |-> TRUE, late |-> FALSE]
      BY <1>13, <2>1
    <3>2. Given[c] \in Helpers /\ Given[c] # None BY <2>1, GivenFacts, NameFacts
    <3>3. cli[c] \in ClientStates BY <3>1, <3>2, VersionFacts DEF ClientStates
    <3>4. helper[Given[c]].own = c /\ helper[Given[c]].at = "serve"
      BY <1>10, <2>1, ServingFacts
    <3>5. QED BY <3>1, <3>2, <3>3, <3>4 DEF ClientOK
  <2>2. CASE c \notin Shown
    <3>1. cli[c] = [at |-> "idle", h |-> None, phase |-> "first", want |-> 0,
                    painted |-> FALSE, late |-> FALSE]
      BY <1>13, <2>2
    <3>2. QED BY <3>1, VersionFacts DEF ClientStates, ClientOK
  <2>3. QED BY <2>1, <2>2
<1>15. cli \in [Clients -> ClientStates] BY <1>13, <1>14
<1>16. QED
  BY <1>5, <1>6, <1>7, <1>11, <1>12, <1>14, <1>15 DEF RemoteInv, Types

LEMMA NextInv == ASSUME RemoteInv, [Next]_vars PROVE RemoteInv'
<1>1. CASE UNCHANGED vars
  <2>1. UNCHANGED <<pkg, tm, attached, lock, soft, clean, helper, cli, local>>
    BY <1>1 DEF vars
  <2>2. HostTypes' /\ ServerOK' BY <2>1, InvFacts DEF HostTypes, ServerOK
  <2>3. Types' BY <2>1, <2>2, InvFacts DEF Types
  <2>4. LocksOK' BY <2>1 DEF RemoteInv, LocksOK
  <2>5. \A h \in Helpers : HelperOK(h, helper[h])' BY <2>1, InvFacts DEF HelperOK
  <2>6. \A c \in Clients : ClientOK(c, cli[c])' BY <2>1, InvFacts DEF ClientOK
  <2>7. QED BY <2>2, <2>3, <2>4, <2>5, <2>6 DEF RemoteInv
<1>2. CASE \E h \in Helpers : HelperStep(h) \/ Cut(h) BY <1>2, HelperInv, CutInv
<1>3. CASE \E c \in Clients : Setup(c) \/ ClientStep(c) \/ ClientMove(c) \/ Deadline(c)
  BY <1>3, ClientInv
<1>4. CASE App \/ SoftQuit \/ HardQuit \/ Crash BY <1>4, AppInv, QuitInv, CrashInv
<1>5. CASE Expire \/ LocalLaunch \/ LocalEnd \/ LocalWatchdog \/ UserDetaches \/ LegacyEnds
  BY <1>5, LocalInv, LocalLaunchInv, LegacyInv
<1>6. QED BY <1>1, <1>2, <1>3, <1>4, <1>5 DEF Next

LEMMA RemoteAlways == Spec => []RemoteInv
<1>1. Init => RemoteInv BY InitInv
<1>2. RemoteInv /\ [Next]_vars => RemoteInv' BY NextInv
<1>3. QED BY <1>1, <1>2, PTL DEF Spec

-----------------------------------------------------------------------------
(* The theorems *)

\* Every variable is of its type, who is attached is a helper that displays or is
\* about to, and the lock of a session is with the helper that is between taking
\* and releasing it.
THEOREM RemoteTypes == Spec => []TypeOK
<1>1. ASSUME RemoteInv PROVE TypeOK
  <2>1. \A h \in attached \cap Helpers : helper[h].at \in {"attached", "accepted", "serve"}
    BY <1>1, InvFacts DEF HelperOK
  <2>2. ASSUME NEW h \in Helpers
        PROVE  (\E s \in Sids : lock[s] = h) <=> helper[h].at \in {"held", "swept", "attached"}
    <3>1. helper[h].at \in Holding => helper[h].sid \in Sids /\ lock[helper[h].sid] = h
      BY <1>1, InvFacts, BoundFacts DEF HelperOK, HelperStates
    <3>2. \A s \in Sids : lock[s] = h => helper[h].at \in Holding
      BY <1>1 DEF RemoteInv, LocksOK
    <3>3. QED BY <3>1, <3>2 DEF Holding
  <2>3. Types BY <1>1 DEF RemoteInv
  <2>4. QED
    BY <2>1, <2>2, <2>3
    DEF TypeOK, Types, HostTypes, Servings, Viewers, HelperStates, ClientStates,
        Launchers, Places, Numbers, Servers
<1>2. QED BY <1>1, RemoteAlways, PTL

\* What a client's step does to the helpers.
LEMMA ClientForms ==
    ASSUME NEW c \in Clients, Setup(c) \/ ClientStep(c) \/ ClientMove(c) \/ Deadline(c)
    PROVE  \/ helper' = helper \/ helper' = Without(cli[c].h)
           \/ helper' = [helper EXCEPT ![cli[c].h].said = "none"]
           \/ SendStart(c)
           \/ \E at \in {"probe", "hello"}, rep \in BOOLEAN,
                 phase \in {"first", "user", "venv", "retry", "replace", "auto"},
                 first \in {"hello", "install"} : Launch(c, at, phase, rep, first)
<1>1. CASE Setup(c)
  BY <1>1 DEF Setup, Connect, ReadHello, NoHello, HelloTimeout, AnswerLocal,
     AnswerInstall, AnswerVenv, Follow, Await, Stop
<1>2. CASE ClientStep(c)
  BY <1>2 DEF ClientStep, Attempt, Reconnect, Rehello, Accepted, Busy, Refused, Lost,
     Retry, Fails, Backoff, Again, Replaces, Stop
<1>3. CASE ClientMove(c) \/ Deadline(c)
  BY <1>3 DEF ClientMove, Deadline, AnswerTakeover, Paint, Escape, Again, Replaces, Stop
<1>4. QED BY <1>1, <1>2, <1>3

LEMMA ClientPlaces ==
    ASSUME RemoteInv, NEW c \in Clients,
           Setup(c) \/ ClientStep(c) \/ ClientMove(c) \/ Deadline(c),
           NEW h \in Helpers
    PROVE  helper'[h].at = helper[h].at \/ helper'[h].at \in Early
<1>1. PICK hs : hs = Without(cli[c].h) OBVIOUS
<1>2. /\ hs \in [Helpers -> HelperStates]
      /\ hs[h].at = helper[h].at \/ hs[h].at \in Early
  BY <1>1, WithoutOK DEF Harmless
<1>3. CASE helper' = helper \/ helper' = hs BY <1>2, <1>3
<1>4. CASE helper' = [helper EXCEPT ![cli[c].h].said = "none"]
  <2>1. PICK a, x : a = helper[h] /\ x = cli[c].h OBVIOUS
  <2>2. a \in HelperStates BY <2>1, InvFacts
  <2>3. helper'[h] = a \/ helper'[h] = [a EXCEPT !.said = "none"]
    BY <1>4, <2>1, InvFacts
  <2>4. QED BY <2>1, <2>2, <2>3 DEF HelperStates
<1>5. CASE SendStart(c)
  <2>1. CASE Stop(c) BY <1>1, <1>3, <2>1 DEF Stop
  <2>2. CASE helper' = [helper EXCEPT ![cli[c].h] = Started(Mine(c))]
    <3>1. PICK x, r : x = cli[c].h /\ r = Started(Mine(c)) OBVIOUS
    <3>2. helper'[h] = helper[h] \/ (x = h /\ helper'[h] = r)
      BY <2>2, <3>1, InvFacts
    <3>3. x = h => r.at = "go"
      <4>1. x = h => Mine(c) \in HelperStates BY <3>1, InvFacts DEF Mine
      <4>2. QED BY <3>1, <4>1, StartedOK
    <3>4. QED BY <3>2, <3>3 DEF Early
  <2>3. QED
    <3>1. CASE Mine(c).at = "start" /\ ~Mine(c).cut
      <4>1. PICK x, a : x = cli[c].h /\ a = helper[x] OBVIOUS
      <4>2. helper' = [helper EXCEPT ![x].at = "go", ![x].said = "none", ![x].pkg = None]
        BY <1>5, <3>1, <4>1 DEF SendStart
      <4>3. [helper EXCEPT ![x].at = "go", ![x].said = "none", ![x].pkg = None] =
              [helper EXCEPT ![x] = Started(helper[x])]
        BY InvFacts DEF Started
      <4>4. QED BY <2>2, <4>1, <4>2, <4>3 DEF Mine
    <3>2. CASE ~(Mine(c).at = "start" /\ ~Mine(c).cut) BY <1>5, <2>1, <3>2 DEF SendStart
    <3>3. QED BY <3>1, <3>2
<1>6. ASSUME NEW at \in {"probe", "hello"}, NEW rep \in BOOLEAN,
             NEW phase \in {"first", "user", "venv", "retry", "replace", "auto"},
             NEW first \in {"hello", "install"}, Launch(c, at, phase, rep, first)
      PROVE  helper'[h].at = helper[h].at \/ helper'[h].at \in Early
  <2>1. PICK x, r : helper' = [hs EXCEPT ![x] = r] /\ r = Fresh(c, rep, first)
    BY <1>1, <1>6, Zenon DEF Launch
  <2>2. r.at = first BY <2>1 DEF Fresh, Free
  <2>3. helper'[h] = hs[h] \/ helper'[h] = r BY <1>2, <2>1
  <2>4. QED BY <1>2, <2>2, <2>3 DEF Early
<1>7. QED BY <1>1, <1>3, <1>4, <1>5, <1>6, ClientForms

\* A helper stays where another one steps.
LEMMA OneSteps ==
    ASSUME RemoteInv, NEW g \in Helpers, HelperStep(g) \/ Cut(g), NEW h \in Helpers,
           h # g
    PROVE  helper'[h] = helper[h]
BY InvFacts
DEF HelperStep, Install, Hello, NoStart, Ensure, Starting, FirstSweep, Lock, Validate,
    Attach, Accept, Discover, SoftCheck, Classify, InputEnds, Watchdog, Cut, Abort, End

\* Only the helper itself gets to its acceptance.
LEMMA OnlyAccept ==
    ASSUME RemoteInv, [Next]_vars, NEW h \in Helpers, helper[h].at = "attached",
           helper'[h].at = "accepted"
    PROVE  Accept(h)
<1>1. ASSUME NEW g \in Helpers, HelperStep(g) \/ Cut(g) PROVE Accept(h)
  <2>1. g = h BY <1>1, OneSteps
  <2>2. CASE Cut(h)
    <3>1. PICK a : a = helper[h] OBVIOUS
    <3>2. a \in HelperStates BY <3>1, InvFacts
    <3>3. helper'[h] = [a EXCEPT !.cut = TRUE, !.said = "none"]
      BY <2>2, <3>1, InvFacts DEF Cut
    <3>4. helper'[h].at = a.at BY <3>2, <3>3 DEF HelperStates
    <3>5. QED BY <3>1, <3>4
  <2>3. CASE HelperStep(h)
    BY <2>3 DEF HelperStep, Install, Hello, NoStart, Ensure, Starting, FirstSweep, Lock,
       Validate, Attach, Discover, SoftCheck, Classify, InputEnds, Watchdog
  <2>4. QED BY <1>1, <2>1, <2>2, <2>3
<1>2. ASSUME NEW c \in Clients, Setup(c) \/ ClientStep(c) \/ ClientMove(c) \/ Deadline(c)
      PROVE  Accept(h)
  BY <1>2, ClientPlaces DEF Early
<1>3. ASSUME \E x \in {"none", "soft", "hard"} : SessionEnds(x) PROVE FALSE
  <2>1. PICK a : a = helper[h] OBVIOUS
  <2>2. a \in HelperStates BY <2>1, InvFacts
  <2>3. PICK y : helper'[h] = [a EXCEPT !.ended = y] BY <1>3, <2>1, SessionEndsFacts
  <2>4. QED BY <2>1, <2>2, <2>3 DEF HelperStates
<1>4. ASSUME App \/ SoftQuit \/ HardQuit \/ Crash PROVE Accept(h)
  <2>1. helper' = helper \/ \E x \in {"none", "soft", "hard"} : SessionEnds(x)
    BY <1>4 DEF App, Ready, Teardown, Exit, HardIntent, HardKill, SoftQuit, HardQuit, Crash
  <2>2. QED BY <1>3, <2>1
<1>5. ASSUME \/ Expire \/ LocalLaunch \/ LocalEnd \/ LocalWatchdog \/ UserDetaches
             \/ LegacyEnds \/ UNCHANGED vars
      PROVE  Accept(h)
  BY <1>5 DEF Expire, LocalLaunch, LocalEnd, LocalWatchdog, UserDetaches, LegacyEnds, vars
<1>6. QED BY <1>1, <1>2, <1>4, <1>5 DEF Next

\* A takeover that its user agreed to is alone when it is accepted, whoever attached
\* between its two sweeps.
THEOREM TakesAlone == Spec => TakeoverAlone
<1> DEFINE Alone ==
             \A h \in Helpers :
                /\ helper[h].rep /\ helper[h].at = "attached"
                /\ helper'[h].at = "accepted"
                => attached' \cap Holders = {h}
<1>1. ASSUME RemoteInv, [Next]_vars, NEW h \in Helpers, helper[h].rep,
             helper[h].at = "attached", helper'[h].at = "accepted"
      PROVE  attached' \cap Holders = {h}
  <2>1. Accept(h) BY <1>1, OnlyAccept
  <2>2. PICK r : r = Ended(h, "ERROR") OBVIOUS
  <2>3. r.at \in {"free", "ended"} BY <1>1, <2>2, EndFacts DEF Codes
  <2>4. ~Abort(h)
    <3>1. Abort(h) => helper'[h] = r BY <1>1, <2>2, InvFacts DEF Abort, End
    <3>2. QED BY <1>1, <2>3, <3>1
  <2>5. h \in attached /\ attached' = attached BY <2>1, <2>4 DEF Accept
  <2>6. attached \cap Holders \subseteq {h} BY <1>1, <2>5, InvFacts DEF HelperOK
  <2>7. h \in Holders BY DEF Holders
  <2>8. QED BY <2>5, <2>6, <2>7
<1>2. RemoteInv /\ [Next]_vars => [Alone]_vars BY <1>1
<1>3. QED BY <1>2, RemoteAlways, PTL DEF Spec, TakeoverAlone

-----------------------------------------------------------------------------
(* A soft quit *)

\* What a helper a in slot h knows of the end of its session, when s is the record
\* of a soft quit and v is attached to the server t.  A helper that saw its client
\* exit by a soft quit of the session that was started last is no longer attached,
\* finds the record, and reports the quit.
EndOK(h, a, t, s, v) ==
    /\ a.ended # "none" => a.at \in {"serve", "classify", "ended"} /\ h \notin v
    /\ h \in v /\ a.at = "serve" => a.srv = t.srv
    /\ a.ended = "soft" => a.srv < t.srv \/ (a.srv = t.srv /\ a.sid <= t.born)
    /\ a.ended = "soft" /\ a.srv = t.srv /\ a.sid = t.born =>
         /\ t.sid = 0 /\ a.at # "classify"
         /\ a.at = "serve" => s = Of(a)
         /\ a.at = "ended" => a.cut \/ a.code \in Terminal

NewestOK ==
    /\ tm.sid # 0 => tm.sid = tm.born
    /\ tm.quit = "soft" => soft = Here

QuitInvariant ==
    RemoteInv /\ NewestOK /\ \A h \in Helpers : EndOK(h, helper[h], tm, soft, attached)

\* The server stays, its session may end, or, with nobody attached, another begins.
Later(t, u, v) ==
    \/ u.srv = t.srv /\ u.born = t.born /\ u.sid \in {t.sid, 0}
    \/ v = {} /\ (u.srv > t.srv \/ (u.srv = t.srv /\ u.born > t.born))

\* A helper of which at most the connection changes.
Stays(a, r) ==
    /\ r.ended = a.ended /\ r.at = a.at /\ r.srv = a.srv /\ r.sid = a.sid
    /\ r.code = a.code /\ (a.cut => r.cut)

LEMMA EndKept ==
    ASSUME NEW h, NEW a \in HelperStates, NEW r \in HelperStates, NEW t \in Servings,
           NEW u \in Servings, NEW s, NEW x, NEW v, NEW w,
           EndOK(h, a, t, s, v), Stays(a, r), Later(t, u, v), h \in w => h \in v,
           x = s \/ t.sid # 0 \/ ~(a.at = "serve" /\ s = Of(a))
    PROVE  EndOK(h, r, u, x, w)
<1>1. /\ a.srv \in Int /\ a.sid \in Int /\ t.srv \in Int /\ t.born \in Int
      /\ u.srv \in Int /\ u.born \in Int
  BY BoundAssumption DEF HelperStates, Servings, Servers, Numbers, Sids
<1>2. Of(r) = Of(a) BY DEF Of, Stays
<1>3. /\ r.ended # "none" => r.at \in {"serve", "classify", "ended"} /\ h \notin w
      /\ h \in w /\ r.at = "serve" => r.srv = u.srv
  BY DEF EndOK, Stays, Later
<1>4. r.ended = "soft" => r.srv < u.srv \/ (r.srv = u.srv /\ r.sid <= u.born)
  BY <1>1 DEF EndOK, Stays, Later
<1>5. ASSUME r.ended = "soft", r.srv = u.srv, r.sid = u.born
      PROVE  /\ u.sid = 0 /\ r.at # "classify"
             /\ r.at = "serve" => x = Of(r)
             /\ r.at = "ended" => r.cut \/ r.code \in Terminal
  <2>1. u.srv = t.srv /\ u.born = t.born /\ u.sid \in {t.sid, 0}
    BY <1>1, <1>5 DEF EndOK, Stays, Later
  <2>2. a.ended = "soft" /\ a.srv = t.srv /\ a.sid = t.born BY <1>5, <2>1 DEF Stays
  <2>3. /\ t.sid = 0 /\ a.at # "classify" /\ (a.at = "serve" => s = Of(a))
        /\ a.at = "ended" => a.cut \/ a.code \in Terminal
    BY <2>2 DEF EndOK
  <2>4. QED BY <1>2, <2>1, <2>3 DEF Stays
<1>6. QED BY <1>3, <1>4, <1>5 DEF EndOK

LEMMA SameStays == ASSUME NEW a PROVE Stays(a, a)
BY DEF Stays

\* A helper that has not displayed yet.
LEMMA EndFresh ==
    ASSUME NEW h, NEW r, NEW t, NEW s, NEW v, r.ended = "none", r.at # "serve"
    PROVE  EndOK(h, r, t, s, v)
BY DEF EndOK

LEMMA QuitFacts ==
    ASSUME QuitInvariant
    PROVE  /\ RemoteInv /\ NewestOK /\ tm \in Servings
           /\ \A h \in Helpers : /\ helper[h] \in HelperStates
                                 /\ EndOK(h, helper[h], tm, soft, attached)
BY InvFacts, TmFacts DEF QuitInvariant

\* What is left of a helper that exits.
Exited(a, r, code) ==
    /\ r.at = "ended" /\ r.code = code /\ r.own = a.own /\ r.rep = a.rep
    /\ r.cut = a.cut /\ r.want = a.want /\ r.said = a.said /\ r.pkg = a.pkg
    /\ r.srv = a.srv /\ r.sid = a.sid /\ r.ended = a.ended
LEMMA EndedForms ==
    ASSUME NEW h \in Helpers, helper[h] \in HelperStates, NEW code,
           NEW r, r = Ended(h, code)
    PROVE  r = Free \/ Exited(helper[h], r, code)
<1>1. PICK a \in HelperStates : a = helper[h] OBVIOUS
<1>2. r = Free \/ r = [a EXCEPT !.at = "ended", !.code = code] BY <1>1 DEF Ended
<1>3. ASSUME r = [a EXCEPT !.at = "ended", !.code = code] PROVE Exited(a, r, code)
  BY <1>3 DEF Exited, HelperStates
<1>4. QED BY <1>1, <1>2, <1>3

LEMMA FreeFields ==
    /\ Free \in HelperStates /\ Free.at = "free" /\ Free.said = "none" /\ Free.pkg = None
    /\ Free.ended = "none" /\ Free.rep = FALSE /\ Free.cut = FALSE /\ Free.own = None
BY FreeFacts DEF Free

\* A helper before its display, and what it may become in a step.
Unseen(r, t) == r.ended = "none" /\ (r.at = "serve" => r.srv = t.srv)
LEMMA UnseenOK ==
    ASSUME NEW h, NEW r, NEW t, NEW s, NEW v, Unseen(r, t) PROVE EndOK(h, r, t, s, v)
BY DEF EndOK, Unseen

LEMMA UnseenEnd ==
    ASSUME QuitInvariant, NEW h \in Helpers, helper[h].ended = "none", NEW code, NEW t
    PROVE  Unseen(Ended(h, code), t)
<1>1. PICK r : r = Ended(h, code) OBVIOUS
<1>2. r = Free \/ Exited(helper[h], r, code) BY <1>1, EndedForms, QuitFacts
<1>3. QED BY <1>1, <1>2, FreeFields DEF Exited, Unseen

LEMMA EarlySteps ==
    ASSUME QuitInvariant, NEW h \in Helpers, HelperStep(h),
           helper[h].at \notin {"serve", "classify"}
    PROVE  Unseen(helper'[h], tm')
<1>1. PICK a \in HelperStates : a = helper[h] BY QuitFacts
<1>2. a.ended = "none"
  <2>1. a.at # "ended"
    BY <1>1 DEF HelperStep, Install, Hello, NoStart, Ensure, Starting, FirstSweep, Lock,
       Validate, Attach, Accept, Discover, SoftCheck, Classify, InputEnds, Watchdog
  <2>2. QED BY <1>1, <2>1, QuitFacts DEF EndOK
<1>3. helper \in [Helpers -> HelperStates] BY QuitFacts, InvFacts
<1>4. ASSUME NEW code, End(h, code) PROVE Unseen(helper'[h], tm')
  <2>1. helper'[h] = Ended(h, code) BY <1>3, <1>4 DEF End
  <2>2. QED BY <1>1, <1>2, <2>1, UnseenEnd
<1>5. ASSUME NEW at \in Places, at # "serve", NEW x, NEW y, NEW z, NEW s,
             helper' = [helper EXCEPT ![h] =
                          [a EXCEPT !.at = at, !.want = x, !.said = y, !.pkg = z,
                                    !.sid = s]]
      PROVE  Unseen(helper'[h], tm')
  BY <1>2, <1>3, <1>5 DEF Unseen, HelperStates
<1>6. CASE Install(h) \/ NoStart(h) \/ Ensure(h) \/ Starting(h) \/ FirstSweep(h)
  <2>1. \/ \E code : End(h, code)
        \/ helper' = [helper EXCEPT ![h].at = "hello", ![h].want = 0]
        \/ helper' = [helper EXCEPT ![h].sid = tm.sid, ![h].at = "lock"]
        \/ helper' = [helper EXCEPT ![h].at = "starting"]
    BY <1>6 DEF Install, NoStart, Ensure, Starting, FirstSweep
  <2>2. CASE helper' = [helper EXCEPT ![h].at = "hello", ![h].want = 0]
    BY <1>1, <1>2, <1>3, <2>2 DEF Unseen, HelperStates
  <2>3. CASE helper' = [helper EXCEPT ![h].sid = tm.sid, ![h].at = "lock"]
    BY <1>1, <1>2, <1>3, <2>3 DEF Unseen, HelperStates
  <2>4. CASE helper' = [helper EXCEPT ![h].at = "starting"]
    BY <1>1, <1>2, <1>3, <2>4 DEF Unseen, HelperStates
  <2>5. QED BY <1>4, <2>1, <2>2, <2>3, <2>4
<1>7. CASE Hello(h)
  <2> DEFINE told == [a EXCEPT !.said = "hello", !.pkg = pkg]
  <2>1. PICK r : r = told OBVIOUS
  <2>2. \/ \E code : End(h, code)
        \/ helper' = [helper EXCEPT ![h] = [r EXCEPT !.at = "start"]]
        \/ helper' = [helper EXCEPT ![h] = [r EXCEPT !.at = "ended", !.code = "ERROR"]]
    BY <1>1, <1>7, <2>1 DEF Hello, End
  <2>3. pkg \in Package BY InvFacts, QuitFacts DEF HostTypes
  <2>4. r \in HelperStates /\ r.ended = "none" BY <1>2, <2>1, <2>3 DEF HelperStates
  <2>5. CASE helper' = [helper EXCEPT ![h] = [r EXCEPT !.at = "start"]]
    BY <1>3, <2>4, <2>5 DEF Unseen, HelperStates
  <2>6. CASE helper' = [helper EXCEPT ![h] = [r EXCEPT !.at = "ended", !.code = "ERROR"]]
    BY <1>3, <2>4, <2>6 DEF Unseen, HelperStates
  <2>7. QED BY <1>4, <2>2, <2>5, <2>6
<1>8. CASE Lock(h)
  <2>1. PICK r : r = Ended(h, "ERROR") OBVIOUS
  <2>2. \/ helper' = [helper EXCEPT ![h].at = "held"]
        \/ \E said \in {"none", "busy"} : helper' = [helper EXCEPT ![h] = [r EXCEPT !.said = said]]
    BY <1>8, <2>1 DEF Lock
  <2>3. r \in HelperStates /\ Unseen(r, tm')
    BY <1>1, <1>2, <2>1, UnseenEnd, EndFacts, QuitFacts DEF Codes
  <2>4. QED BY <1>1, <1>2, <1>3, <2>2, <2>3 DEF Unseen, HelperStates
<1>9. CASE Validate(h) \/ Attach(h) \/ Accept(h)
  <2>1. \/ \E code : End(h, code)
        \/ \E at \in {"swept", "attached"} : helper' = [helper EXCEPT ![h].at = at]
        \/ \E said \in {"none", "accepted"} :
             helper' = [helper EXCEPT ![h].at = "accepted", ![h].said = said]
    BY <1>9 DEF Validate, Attach, Accept, Abort
  <2>2. QED BY <1>1, <1>2, <1>3, <1>4, <2>1 DEF Unseen, HelperStates
<1>10. CASE Discover(h)
  <2>1. \/ End(h, "ERROR")
        \/ helper' = [helper EXCEPT ![h].at = "serve", ![h].srv = tm.srv, ![h].rep = FALSE]
    BY <1>10 DEF Discover
  <2>2. tm' = tm BY <1>10 DEF Discover
  <2>3. QED BY <1>1, <1>2, <1>3, <1>4, <2>1, <2>2 DEF Unseen, HelperStates
<1>11. QED
  BY <1>6, <1>7, <1>8, <1>9, <1>10
  DEF HelperStep, SoftCheck, Classify, InputEnds, Watchdog

\* A new session, where there was none and so nobody attached.
LEMMA NewQuit ==
    ASSUME QuitInvariant, MayStart, tm' = NewSession
    PROVE  Later(tm, tm', attached) /\ NewestOK' /\ tm.sid = 0
<1>1. tm.sid = 0 /\ attached = {} BY SessionFacts, QuitFacts
<1>2. PICK t \in Servings : t = tm BY QuitFacts
<1>3. t.srv \in Int /\ t.born \in Int BY BoundAssumption DEF Servings, Sids
<1>4. /\ tm'.sid = tm'.born /\ tm'.quit = "no"
      /\ tm'.srv > t.srv \/ (tm'.srv = t.srv /\ tm'.born > t.born)
  <2>1. CASE tm' = [t EXCEPT !.sid = t.born + 1, !.born = t.born + 1, !.ctl = FALSE,
                             !.quit = "no"]
    BY <1>3, <2>1 DEF Servings
  <2>2. CASE tm' = [up |-> TRUE, srv |-> t.srv + 1, sid |-> 1, born |-> 1, ctl |-> FALSE,
                    others |-> FALSE, quit |-> "no", frozen |-> FALSE]
    BY <1>3, <2>2
  <2>3. QED BY <1>2, <2>1, <2>2 DEF NewSession
<1>5. QED BY <1>1, <1>2, <1>4 DEF Later, NewestOK

\* What the steps of a helper leave of the server and of who is attached.
LEMMA HelperServer ==
    ASSUME QuitInvariant, NEW g \in Helpers, HelperStep(g)
    PROVE  /\ soft' = soft /\ Later(tm, tm', attached) /\ NewestOK'
           /\ \A h \in attached' \cap Helpers : h \in attached \/ h = g
           /\ tm' = tm \/ (helper[g].at = "go" /\ tm.sid = 0)
<1>1. CASE Ensure(g) /\ tm' # tm
  <2>1. /\ helper[g].at = "go" /\ MayStart /\ tm' = NewSession
        /\ UNCHANGED <<attached, soft>>
    BY <1>1 DEF Ensure
  <2>2. QED BY <2>1, NewQuit
<1>2. CASE tm' = tm
  <2>1. soft' = soft /\ \A h \in attached' \cap Helpers : h \in attached \/ h = g
    BY DEF HelperStep, Install, Hello, NoStart, Ensure, Starting, FirstSweep, Lock,
       Validate, Attach, Accept, Discover, SoftCheck, Classify, InputEnds, Watchdog,
       Abort, SecondSweep, Swept, remote
  <2>2. NewestOK' BY <1>2, <2>1, QuitFacts DEF NewestOK, Here
  <2>3. QED BY <1>2, <2>1, <2>2 DEF Later
<1>3. tm' = tm \/ Ensure(g)
  BY DEF HelperStep, Install, Hello, NoStart, Starting, FirstSweep, Lock,
     Validate, Attach, Accept, Discover, SoftCheck, Classify, InputEnds, Watchdog, remote
<1>4. QED BY <1>1, <1>2, <1>3

\* The client of a helper has exited: was it a soft quit?
LEMMA LateSteps ==
    ASSUME QuitInvariant, NEW h \in Helpers, HelperStep(h),
           helper[h].at \in {"serve", "classify"}
    PROVE  EndOK(h, helper'[h], tm', soft', attached')
<1>1. PICK a \in HelperStates : a = helper[h] BY QuitFacts
<1>2. EndOK(h, a, tm, soft, attached) BY <1>1, QuitFacts
<1>3. helper \in [Helpers -> HelperStates] BY QuitFacts, InvFacts
<1>4. tm' = tm /\ soft' = soft BY HelperServer
<1>5. ASSUME NEW code, End(h, code), h \notin attached',
             code \in Terminal \/ a.cut \/ a.ended # "soft" \/ a.srv # tm.srv
             \/ a.sid # tm.born
      PROVE  EndOK(h, helper'[h], tm, soft, attached')
  <2>1. PICK r : r = Ended(h, code) OBVIOUS
  <2>2. helper'[h] = r BY <1>3, <1>5, <2>1 DEF End
  <2>3. r = Free \/ Exited(a, r, code) BY <1>1, <2>1, EndedForms
  <2>4. CASE r = Free BY <2>2, <2>4, FreeFields, EndFresh
  <2>5. CASE Exited(a, r, code)
    BY <1>2, <1>5, <2>2, <2>5 DEF EndOK, Exited
  <2>6. QED BY <2>3, <2>4, <2>5
<1>6. CASE SoftCheck(h)
  <2>1. h \notin attached /\ attached' = attached /\ a.at = "serve"
    BY <1>1, <1>6 DEF SoftCheck, remote
  <2>2. CASE soft = Of(a)
    <3>1. End(h, "SOFT") BY <1>1, <1>6, <2>2 DEF SoftCheck
    <3>2. QED BY <1>4, <1>5, <2>1, <3>1 DEF Terminal
  <2>3. CASE soft # Of(a)
    <3>1. helper' = [helper EXCEPT ![h].at = "classify"]
      BY <1>1, <1>6, <2>3 DEF SoftCheck
    <3>2. PICK r : r = helper'[h] OBVIOUS
    <3>3. /\ r.at = "classify" /\ r.ended = a.ended /\ r.srv = a.srv /\ r.sid = a.sid
      BY <1>1, <1>3, <3>1, <3>2 DEF HelperStates
    <3>4. ~(a.ended = "soft" /\ a.srv = tm.srv /\ a.sid = tm.born)
      BY <1>2, <2>1, <2>3 DEF EndOK
    <3>5. EndOK(h, r, tm, soft, attached)
      BY <1>2, <2>1, <3>3, <3>4 DEF EndOK
    <3>6. QED BY <1>4, <2>1, <3>2, <3>5
  <2>4. QED BY <2>2, <2>3
<1>7. CASE Classify(h)
  <2>1. a.at = "classify" /\ attached' = attached /\ \E code : End(h, code)
    BY <1>1, <1>7 DEF Classify
  <2>2. h \notin attached BY <1>1, <2>1, QuitFacts, InvFacts DEF HelperOK
  <2>3. ~(a.ended = "soft" /\ a.srv = tm.srv /\ a.sid = tm.born)
    BY <1>2, <2>1 DEF EndOK
  <2>4. QED BY <1>4, <1>5, <2>1, <2>2, <2>3
<1>8. CASE InputEnds(h)
  <2>1. a.cut /\ End(h, "ZERO") /\ attached' = attached \ {h}
    BY <1>1, <1>8 DEF InputEnds, LeaseOver
  <2>2. QED BY <1>4, <1>5, <2>1
<1>9. CASE Watchdog(h)
  <2>1. h \in attached /\ End(h, "ERROR") /\ attached' = attached \ {h}
    BY <1>9 DEF Watchdog
  <2>2. a.ended = "none" BY <1>2, <2>1 DEF EndOK
  <2>3. QED BY <1>4, <1>5, <2>1, <2>2
<1>10. QED
  BY <1>6, <1>7, <1>8, <1>9
  DEF HelperStep, Install, Hello, NoStart, Ensure, Starting, FirstSweep, Lock, Validate,
      Attach, Accept, Discover

LEMMA HelperQuit ==
    ASSUME QuitInvariant, NEW g \in Helpers, HelperStep(g) PROVE QuitInvariant'
<1>1. RemoteInv' BY HelperInv, QuitFacts
<1>2. /\ soft' = soft /\ Later(tm, tm', attached) /\ NewestOK'
      /\ \A h \in attached' \cap Helpers : h \in attached \/ h = g
  BY HelperServer
<1>3. tm' \in Servings BY <1>1 DEF RemoteInv, Types, HostTypes
<1>4. ASSUME NEW h \in Helpers PROVE EndOK(h, helper[h], tm, soft, attached)'
  <2>1. CASE h = g
    <3>1. helper[h].at \notin {"serve", "classify"} => EndOK(h, helper[h], tm, soft, attached)'
      BY <2>1, EarlySteps, UnseenOK
    <3>2. QED BY <2>1, <3>1, LateSteps
  <2>2. CASE h # g
    <3>1. helper'[h] = helper[h] BY <2>2, OneSteps, QuitFacts
    <3>2. helper[h] \in HelperStates /\ tm \in Servings
          /\ EndOK(h, helper[h], tm, soft, attached)
      BY QuitFacts
    <3>3. EndOK(h, helper[h], tm', soft', attached')
      BY <1>2, <1>3, <2>2, <3>2, EndKept, SameStays
    <3>4. QED BY <3>1, <3>3
  <2>3. QED BY <2>1, <2>2
<1>5. QED BY <1>1, <1>2, <1>4 DEF QuitInvariant

\* A client's step changes the connection of the helper it has, if anything, or puts
\* another helper in its place.
Renewed(r) == r.ended = "none" /\ r.at # "serve"
LEMMA WithoutStays ==
    ASSUME RemoteInv, NEW c \in Clients, NEW hs, hs = Without(cli[c].h), NEW h \in Helpers
    PROVE  Stays(helper[h], hs[h]) \/ hs[h] = Free
<1>1. PICK x \in Helpers \cup {None} : x = cli[c].h BY InvFacts DEF ClientStates
<1>2. CASE hs[h] = helper[h] BY <1>2, SameStays
<1>3. CASE x = h
  <2>1. PICK a \in HelperStates : a = helper[h] BY InvFacts
  <2>2. x # None BY <1>3, NameFacts
  <2>3. \/ hs = [helper EXCEPT ![x] = Free]
        \/ hs = [helper EXCEPT ![x] = [a EXCEPT !.cut = TRUE, !.said = "none",
                                                !.pkg = None]]
    BY <1>1, <1>3, <2>1, <2>2 DEF Without
  <2>4. hs[h] = Free \/ hs[h] = [a EXCEPT !.cut = TRUE, !.said = "none", !.pkg = None]
    BY <1>3, <2>3, InvFacts
  <2>5. QED BY <2>1, <2>4 DEF Stays, HelperStates
<1>4. QED BY <1>1, <1>2, <1>3, WithoutOK

LEMMA ClientStays ==
    ASSUME QuitInvariant, NEW c \in Clients,
           Setup(c) \/ ClientStep(c) \/ ClientMove(c) \/ Deadline(c), NEW h \in Helpers
    PROVE  Stays(helper[h], helper'[h]) \/ Renewed(helper'[h])
<1>1. PICK hs : hs = Without(cli[c].h) OBVIOUS
<1>2. Stays(helper[h], hs[h]) \/ Renewed(hs[h])
  BY <1>1, WithoutStays, FreeFields, QuitFacts DEF Renewed
<1>3. CASE helper' = helper \/ helper' = hs BY <1>2, <1>3, SameStays
<1>4. PICK a \in HelperStates : a = helper[h] BY QuitFacts
<1>5. PICK x : x = cli[c].h OBVIOUS
<1>6. helper \in [Helpers -> HelperStates] BY QuitFacts, InvFacts
<1>7. CASE helper' = [helper EXCEPT ![cli[c].h].said = "none"]
  <2>1. helper'[h] = a \/ helper'[h] = [a EXCEPT !.said = "none"]
    BY <1>4, <1>5, <1>6, <1>7
  <2>2. QED BY <1>4, <2>1 DEF Stays, HelperStates
<1>8. CASE SendStart(c)
  <2>1. CASE Stop(c) BY <1>1, <1>3, <2>1 DEF Stop
  <2>2. CASE Mine(c).at = "start" /\ ~Mine(c).cut
    <3>1. helper' = [helper EXCEPT ![x].at = "go", ![x].said = "none", ![x].pkg = None]
      BY <1>5, <1>8, <2>2 DEF SendStart
    <3>2. helper'[h] = a \/ (x = h /\ helper'[h] = [a EXCEPT !.at = "go", !.said = "none",
                                                           !.pkg = None])
      BY <1>4, <1>6, <3>1
    <3>3. x = h => a.ended = "none" BY <1>4, <1>5, <2>2, QuitFacts DEF EndOK, Mine
    <3>4. QED BY <1>4, <3>2, <3>3, SameStays DEF Renewed, HelperStates
  <2>3. QED BY <1>8, <2>1, <2>2 DEF SendStart
<1>9. ASSUME NEW at \in {"probe", "hello"}, NEW rep \in BOOLEAN,
             NEW phase \in {"first", "user", "venv", "retry", "replace", "auto"},
             NEW first \in {"hello", "install"}, Launch(c, at, phase, rep, first)
      PROVE  Stays(helper[h], helper'[h]) \/ Renewed(helper'[h])
  <2>1. PICK y, r : helper' = [hs EXCEPT ![y] = r] /\ r = Fresh(c, rep, first)
    BY <1>1, <1>9, Zenon DEF Launch
  <2>2. Renewed(r) BY <2>1 DEF Fresh, Free, Renewed
  <2>3. hs \in [Helpers -> HelperStates] BY <1>1, WithoutOK, QuitFacts
  <2>4. helper'[h] = hs[h] \/ helper'[h] = r BY <2>1, <2>3
  <2>5. QED BY <1>2, <2>2, <2>4
<1>10. QED BY <1>1, <1>3, <1>7, <1>8, <1>9, ClientForms

\* The host as it is, for helpers that stay or are replaced.
LEMMA QuietQuit ==
    ASSUME QuitInvariant, RemoteInv', UNCHANGED <<tm, soft>>, attached' \subseteq attached \cup {"local"},
           \A h \in Helpers : Stays(helper[h], helper'[h]) \/ Renewed(helper'[h])
    PROVE  QuitInvariant'
<1>1. NewestOK' BY QuitFacts DEF NewestOK, Here
<1>2. ASSUME NEW h \in Helpers PROVE EndOK(h, helper[h], tm, soft, attached)'
  <2>1. helper'[h] \in HelperStates BY InvFacts DEF RemoteInv, Types
  <2>2. Later(tm, tm', attached) BY DEF Later
  <2>3. h \in attached' => h \in attached BY NameFacts
  <2>4. CASE Stays(helper[h], helper'[h]) BY <2>1, <2>2, <2>3, <2>4, QuitFacts, EndKept
  <2>5. CASE Renewed(helper'[h]) BY <2>5, EndFresh DEF Renewed
  <2>6. QED BY <2>4, <2>5
<1>3. QED BY <1>1, <1>2 DEF QuitInvariant

LEMMA ClientQuit ==
    ASSUME QuitInvariant, NEW c \in Clients,
           Setup(c) \/ ClientStep(c) \/ ClientMove(c) \/ Deadline(c)
    PROVE  QuitInvariant'
<1>1. RemoteInv' BY ClientInv, QuitFacts
<1>2. UNCHANGED <<tm, soft, attached>>
  BY DEF Setup, Connect, ReadHello, NoHello, HelloTimeout, AnswerLocal, AnswerInstall,
     AnswerVenv, ClientStep, Attempt, Reconnect, Rehello, Accepted, Busy, Refused, Lost,
     Retry, ClientMove, Deadline, AnswerTakeover, Paint, Escape, remote
<1>3. QED BY <1>1, <1>2, ClientStays, QuietQuit

LEMMA CutQuit ==
    ASSUME QuitInvariant, NEW g \in Helpers, Cut(g) PROVE QuitInvariant'
<1>1. RemoteInv' BY CutInv, QuitFacts
<1>2. UNCHANGED <<tm, soft, attached>> BY DEF Cut, remote
<1>3. ASSUME NEW h \in Helpers PROVE Stays(helper[h], helper'[h])
  <2>1. PICK a \in HelperStates : a = helper[h] BY QuitFacts
  <2>2. helper' = [helper EXCEPT ![g].cut = TRUE, ![g].said = "none"] BY DEF Cut
  <2>3. helper'[h] = a \/ helper'[h] = [a EXCEPT !.cut = TRUE, !.said = "none"]
    BY <2>1, <2>2, InvFacts, QuitFacts
  <2>4. QED BY <2>1, <2>3 DEF Stays, HelperStates
<1>4. QED BY <1>1, <1>2, <1>3, QuietQuit

-----------------------------------------------------------------------------
\* The server changes, and with it what the helpers know of it.
LEMMA ServerQuit ==
    ASSUME QuitInvariant, RemoteInv', NewestOK', Later(tm, tm', attached),
           attached' \subseteq attached \cup {"local"}, helper' = helper,
           soft' = soft \/ tm.sid # 0
    PROVE  QuitInvariant'
<1>1. ASSUME NEW h \in Helpers PROVE EndOK(h, helper[h], tm, soft, attached)'
  <2>1. /\ helper[h] \in HelperStates /\ tm \in Servings
        /\ EndOK(h, helper[h], tm, soft, attached)
    BY QuitFacts
  <2>2. tm' \in Servings BY DEF RemoteInv, Types, HostTypes
  <2>3. h \in attached' => h \in attached BY NameFacts
  <2>4. EndOK(h, helper[h], tm', soft', attached') BY <2>1, <2>2, <2>3, EndKept, SameStays
  <2>5. QED BY <2>4
<1>2. QED BY <1>1 DEF QuitInvariant

\* A session ends: by a soft quit, only when its record is there.
LEMMA EndsQuit ==
    ASSUME QuitInvariant, RemoteInv', NEW x \in {"none", "soft", "hard"}, SessionEnds(x),
           soft' = soft, x = "soft" => tm.quit = "soft", tm.sid # 0
    PROVE  QuitInvariant'
<1>1. PICK t \in Servings : t = tm BY QuitFacts
<1>2. tm' = [t EXCEPT !.up = t.others, !.sid = 0, !.ctl = FALSE, !.quit = "no"]
  BY <1>1 DEF SessionEnds
<1>3. /\ tm' \in Servings /\ tm'.sid = 0 /\ tm'.quit = "no" /\ tm'.srv = t.srv
      /\ tm'.born = t.born
  BY <1>2, BoundFacts DEF Servings
<1>4. NewestOK' BY <1>3 DEF NewestOK
<1>5. Later(tm, tm', attached) BY <1>1, <1>3 DEF Later
<1>6. attached' = {} BY DEF SessionEnds
<1>7. ASSUME NEW h \in Helpers PROVE EndOK(h, helper[h], tm, soft, attached)'
  <2>1. PICK a \in HelperStates : a = helper[h] BY QuitFacts
  <2>2. EndOK(h, a, tm, soft, attached) BY <2>1, QuitFacts
  <2>3. CASE helper'[h] = a
    BY <1>1, <1>3, <1>5, <1>6, <2>2, <2>3, EndKept, SameStays
  <2>4. CASE h \in attached /\ a.at = "serve" /\ helper'[h] = [a EXCEPT !.ended = x]
    <3>1. PICK r : r = helper'[h] OBVIOUS
    <3>2. r.ended = x /\ r.at = "serve" /\ r.srv = a.srv /\ r.sid = a.sid
      BY <2>4, <3>1 DEF HelperStates
    <3>3. a.srv = t.srv /\ a.sid = t.sid /\ t.sid = t.born
      BY <1>1, <2>1, <2>2, <2>4, QuitFacts, InvFacts DEF EndOK, HelperOK, NewestOK
    <3>4. x = "soft" => soft = Of(r)
      BY <1>1, <3>2, <3>3, QuitFacts DEF NewestOK, Here, Of
    <3>5. EndOK(h, r, tm', soft', attached')
      <4>1. t.born \in Int BY BoundAssumption DEF Servings, Sids
      <4>2. QED BY <1>3, <1>6, <3>2, <3>3, <3>4, <4>1 DEF EndOK
    <3>6. QED BY <3>1, <3>5
  <2>5. QED BY <2>1, <2>3, <2>4 DEF SessionEnds
<1>8. QED BY <1>4, <1>7 DEF QuitInvariant

LEMMA SoftQuitQuit == ASSUME QuitInvariant, SoftQuit PROVE QuitInvariant'
<1>1. RemoteInv' BY QuitInv, QuitFacts
<1>2. PICK t \in Servings : t = tm BY QuitFacts
<1>3. t.sid # 0 /\ t.sid = t.born BY <1>2, TmFacts, QuitFacts DEF SoftQuit, NewestOK
<1>4. \/ soft' = Here /\ tm' = [t EXCEPT !.quit = "soft"]
      \/ soft' = soft /\ tm' = [t EXCEPT !.quit = "unrecorded"]
  BY <1>2 DEF SoftQuit
<1>5. tm'.srv = t.srv /\ tm'.sid = t.sid /\ tm'.born = t.born BY <1>4 DEF Servings
<1>6. tm'.quit = "soft" => soft' = Here BY <1>4 DEF Servings
<1>7. NewestOK' BY <1>2, <1>3, <1>5, <1>6 DEF NewestOK, Here
<1>8. Later(tm, tm', attached) BY <1>2, <1>5 DEF Later
<1>9. attached' = attached /\ helper' = helper BY DEF SoftQuit
<1>10. QED BY <1>1, <1>2, <1>3, <1>7, <1>8, <1>9, ServerQuit

\* A phase of the session that is not a recorded soft quit, or goes on with one.
Turned(u, s, y, o, q, f) == [tm EXCEPT !.up = u, !.sid = s, !.ctl = y, !.others = o,
                                       !.quit = q, !.frozen = f]
LEMMA PhaseQuit ==
    ASSUME QuitInvariant, RemoteInv', NEW q, q = tm.quit \/ q # "soft",
           NEW u, NEW y, NEW o, NEW f, NEW s, s = tm.sid \/ s = 0,
           s = 0 => q # "soft",
           tm' = Turned(u, s, y, o, q, f),
           soft' = soft, helper' = helper, attached' = attached \/ attached' = {}
    PROVE  QuitInvariant'
<1>1. PICK t \in Servings : t = tm BY QuitFacts
<1>2. tm' = [t EXCEPT !.up = u, !.sid = s, !.ctl = y, !.others = o, !.quit = q,
                      !.frozen = f]
  BY <1>1 DEF Turned
<1>3. tm'.srv = t.srv /\ tm'.born = t.born /\ tm'.sid = s /\ tm'.quit = q
  BY <1>2 DEF Servings
<1>4. NewestOK' BY <1>1, <1>3, QuitFacts DEF NewestOK, Here
<1>5. Later(tm, tm', attached) BY <1>1, <1>3 DEF Later
<1>6. QED BY <1>4, <1>5, ServerQuit

LEMMA AppQuit == ASSUME QuitInvariant, App \/ HardQuit PROVE QuitInvariant'
<1>1. RemoteInv' BY AppInv, QuitInv, QuitFacts
<1>2. PICK t \in Servings : t = tm BY QuitFacts
<1>3. ASSUME NEW q, q = t.quit \/ q # "soft", NEW y, NEW o, soft' = soft,
             helper' = helper, attached' = attached,
             tm' = [t EXCEPT !.ctl = y, !.others = o, !.quit = q]
      PROVE  QuitInvariant'
  <2>1. tm' = [t EXCEPT !.up = t.up, !.sid = t.sid, !.ctl = y, !.others = o, !.quit = q,
                        !.frozen = t.frozen]
    BY <1>3 DEF Servings
  <2>6. tm' = Turned(t.up, t.sid, y, o, q, t.frozen) BY <1>2, <2>1 DEF Turned
  <2>2. t.sid = 0 => t.quit = "no" BY <1>2, TmFacts, QuitFacts
  <2>3. CASE t.sid # 0 BY <1>1, <1>2, <1>3, <2>6, <2>3, PhaseQuit
  <2>4. CASE t.sid = 0
    <3>1. q # "soft" BY <1>3, <2>2, <2>4
    <3>2. QED BY <1>1, <1>2, <1>3, <2>6, <2>4, <3>1, PhaseQuit
  <2>5. QED BY <2>3, <2>4
<1>4. CASE Ready
  <2>1. tm' = [t EXCEPT !.ctl = TRUE, !.others = t.others, !.quit = t.quit]
    BY <1>2, <1>4 DEF Ready, Servings
  <2>2. QED BY <1>3, <1>4, <2>1 DEF Ready
<1>5. CASE Teardown
  <2>1. tm' = [t EXCEPT !.ctl = FALSE, !.others = t.others, !.quit = t.quit]
    BY <1>2, <1>5 DEF Teardown, Servings
  <2>2. QED BY <1>3, <1>5, <2>1 DEF Teardown
<1>6. CASE Exit
  <2>1. tm.sid # 0 BY <1>6, TmFacts, QuitFacts DEF Exit
  <2>2. ASSUME NEW x \in {"none", "soft"}, SessionEnds(x), x = "soft" => tm.quit = "soft"
        PROVE  QuitInvariant'
    BY <1>1, <1>6, <2>1, <2>2, EndsQuit DEF Exit
  <2>3. ASSUME tm' = [tm EXCEPT !.quit = "left"], UNCHANGED <<attached, helper, local>>
        PROVE  QuitInvariant'
    <3>1. tm' = [t EXCEPT !.ctl = t.ctl, !.others = t.others, !.quit = "left"]
      BY <1>2, <2>3 DEF Servings
    <3>2. QED BY <1>3, <1>6, <2>3, <3>1 DEF Exit
  <2>4. QED BY <1>6, <2>2, <2>3 DEF Exit
<1>7. CASE HardIntent
  <2>1. tm' = [t EXCEPT !.ctl = t.ctl, !.others = t.others, !.quit = "kill"]
    BY <1>2, <1>7 DEF HardIntent, Servings
  <2>2. QED BY <1>3, <1>7, <2>1 DEF HardIntent
<1>8. CASE HardKill
  <2>1. tm.sid # 0 BY <1>8, TmFacts, QuitFacts DEF HardKill
  <2>2. ASSUME NEW x \in {"none", "hard"}, SessionEnds(x) PROVE QuitInvariant'
    BY <1>1, <1>8, <2>1, <2>2, EndsQuit DEF HardKill
  <2>3. ASSUME tm' = [tm EXCEPT !.quit = "unrecorded"], UNCHANGED <<attached, helper, local>>
        PROVE  QuitInvariant'
    <3>1. tm' = [t EXCEPT !.ctl = t.ctl, !.others = t.others, !.quit = "unrecorded"]
      BY <1>2, <2>3 DEF Servings
    <3>2. QED BY <1>3, <1>8, <2>3, <3>1 DEF HardKill
  <2>4. QED BY <1>8, <2>2, <2>3 DEF HardKill
<1>9. CASE HardQuit
  <2>1. UNCHANGED <<attached, helper, soft>> BY <1>9 DEF HardQuit
  <2>2. \/ \E o : tm' = [t EXCEPT !.quit = "hard", !.ctl = FALSE, !.others = o]
        \/ tm' = [t EXCEPT !.quit = "unrecorded"]
    BY <1>2, <1>9 DEF HardQuit
  <2>3. ASSUME NEW o, tm' = [t EXCEPT !.quit = "hard", !.ctl = FALSE, !.others = o]
        PROVE  QuitInvariant'
    <3>1. tm' = [t EXCEPT !.ctl = FALSE, !.others = o, !.quit = "hard"]
      BY <2>3 DEF Servings
    <3>2. QED BY <1>3, <2>1, <3>1
  <2>4. ASSUME tm' = [t EXCEPT !.quit = "unrecorded"] PROVE QuitInvariant'
    <3>1. tm' = [t EXCEPT !.ctl = t.ctl, !.others = t.others, !.quit = "unrecorded"]
      BY <2>4 DEF Servings
    <3>2. QED BY <1>3, <2>1, <3>1
  <2>5. QED BY <2>2, <2>3, <2>4
<1>10. QED BY <1>4, <1>5, <1>6, <1>7, <1>8, <1>9 DEF App

LEMMA CrashQuit == ASSUME QuitInvariant, Crash PROVE QuitInvariant'
<1>1. RemoteInv' BY CrashInv, QuitFacts
<1>2. PICK t \in Servings : t = tm BY QuitFacts
<1>3. tm.sid # 0 /\ soft' = soft BY DEF Crash
<1>4. CASE SessionEnds("none") BY <1>1, <1>3, <1>4, EndsQuit
<1>5. CASE /\ tm' = [t EXCEPT !.up = FALSE, !.sid = 0, !.ctl = FALSE, !.others = FALSE,
                              !.quit = "no", !.frozen = FALSE]
           /\ attached' = {} /\ helper' = helper
  <2>1. PICK q, b, z : q = "no" /\ b = FALSE /\ z = 0 OBVIOUS
  <2>2. tm' = Turned(b, z, b, b, q, b) BY <1>2, <1>5, <2>1 DEF Turned
  <2>3. q # "soft" /\ z = 0 BY <2>1
  <2>4. /\ soft' = soft /\ helper' = helper /\ attached' = {} BY <1>3, <1>5
  <2>5. QED BY <1>1, <2>2, <2>3, <2>4, PhaseQuit
<1>6. CASE tm' = [t EXCEPT !.frozen = TRUE] /\ UNCHANGED <<attached, helper>>
  <2>1. tm' = [t EXCEPT !.up = t.up, !.sid = t.sid, !.ctl = t.ctl, !.others = t.others,
                        !.quit = t.quit, !.frozen = TRUE]
    BY <1>6 DEF Servings
  <2>3. PICK b : b = TRUE OBVIOUS
  <2>4. tm' = Turned(t.up, t.sid, t.ctl, t.others, t.quit, b)
    BY <1>2, <2>1, <2>3 DEF Turned
  <2>2. t.sid # 0 BY <1>2, <1>3
  <2>5. QED BY <1>1, <1>2, <1>3, <1>6, <2>4, <2>2, PhaseQuit
<1>7. QED BY <1>2, <1>4, <1>5, <1>6 DEF Crash

\* A record is dropped only when nobody is to read it, and not that of the session
\* that is there.
LEMMA ExpireQuit == ASSUME QuitInvariant, Expire PROVE QuitInvariant'
<1>1. RemoteInv' BY LocalInv, QuitFacts
<1>2. UNCHANGED <<tm, attached, helper>> BY DEF Expire
<1>3. CASE soft' = soft BY <1>1, <1>2, <1>3, SameStays, QuietQuit
<1>4. CASE soft' # soft
  <2>1. soft # Here /\ soft # None /\ ~Pending(soft) BY <1>4 DEF Expire
  <2>2. NewestOK' BY <1>2, <2>1, QuitFacts DEF NewestOK
  <2>3. Later(tm, tm', attached) BY <1>2 DEF Later
  <2>4. ASSUME NEW h \in Helpers PROVE EndOK(h, helper[h], tm, soft, attached)'
    <3>1. /\ helper[h] \in HelperStates /\ tm \in Servings
          /\ EndOK(h, helper[h], tm, soft, attached)
      BY QuitFacts
    <3>2. ~(helper[h].at = "serve" /\ soft = Of(helper[h])) BY <2>1 DEF Pending
    <3>3. EndOK(h, helper[h], tm, soft', attached)
      BY <2>3, <1>2, <3>1, <3>2, EndKept, SameStays
    <3>4. QED BY <1>2, <3>3
  <2>5. QED BY <1>1, <2>2, <2>4 DEF QuitInvariant
<1>5. QED BY <1>3, <1>4

LEMMA OthersQuit ==
    ASSUME QuitInvariant, LocalLaunch \/ LocalEnd \/ LocalWatchdog \/ UserDetaches \/ LegacyEnds
    PROVE  QuitInvariant'
<1>1. RemoteInv' BY LocalInv, LocalLaunchInv, LegacyInv, QuitFacts
<1>2. /\ UNCHANGED <<helper, soft>> /\ attached' \subseteq attached \cup {"local"}
      /\ tm' = tm \/ (MayStart /\ tm' = NewSession)
  BY DEF LocalLaunch, LocalEnd, LocalWatchdog, UserDetaches, LegacyEnds
<1>3. CASE tm' = tm BY <1>1, <1>2, <1>3, SameStays, QuietQuit
<1>4. CASE MayStart /\ tm' = NewSession
  <2>1. Later(tm, tm', attached) /\ NewestOK' BY <1>4, NewQuit
  <2>2. QED BY <1>1, <1>2, <2>1, ServerQuit
<1>5. QED BY <1>2, <1>3, <1>4

LEMMA QuitInit == ASSUME Init PROVE QuitInvariant
<1>1. RemoteInv BY InitInv
<1>2. tm.srv = 1 /\ tm.sid = 1 /\ tm.born = 1 /\ tm.quit = "no" BY DEF Init
<1>3. NewestOK BY <1>2 DEF NewestOK
<1>4. ASSUME NEW h \in Helpers PROVE EndOK(h, helper[h], tm, soft, attached)
  <2>1. helper[h] = Free \/ \E c \in Shown : helper[h] = Serving(c) BY Zenon DEF Init
  <2>2. CASE helper[h] = Free BY <2>2, FreeFields, EndFresh
  <2>3. ASSUME NEW c \in Shown, helper[h] = Serving(c)
        PROVE  helper[h].ended = "none" /\ helper[h].at = "serve" /\ helper[h].srv = 1
    BY <2>3 DEF Serving, Free
  <2>4. QED BY <1>2, <2>1, <2>2, <2>3 DEF EndOK
<1>5. QED BY <1>1, <1>3, <1>4 DEF QuitInvariant

LEMMA QuitNext == ASSUME QuitInvariant, [Next]_vars PROVE QuitInvariant'
<1>1. CASE UNCHANGED vars
  <2>1. UNCHANGED <<tm, attached, soft, helper>> BY <1>1 DEF vars
  <2>2. RemoteInv' BY NextInv, QuitFacts
  <2>3. QED BY <2>1, <2>2, SameStays, QuietQuit
<1>2. CASE \E h \in Helpers : HelperStep(h) \/ Cut(h) BY <1>2, HelperQuit, CutQuit
<1>3. CASE \E c \in Clients : Setup(c) \/ ClientStep(c) \/ ClientMove(c) \/ Deadline(c)
  BY <1>3, ClientQuit
<1>4. CASE App \/ SoftQuit \/ HardQuit \/ Crash
  BY <1>4, AppQuit, SoftQuitQuit, CrashQuit
<1>5. CASE Expire \/ LocalLaunch \/ LocalEnd \/ LocalWatchdog \/ UserDetaches \/ LegacyEnds
  BY <1>5, ExpireQuit, OthersQuit
<1>6. QED BY <1>1, <1>2, <1>3, <1>4, <1>5 DEF Next

LEMMA QuitAlways == Spec => []QuitInvariant
<1>1. QED BY QuitInit, QuitNext, PTL DEF Spec

-----------------------------------------------------------------------------
\* Only the client itself leaves its display, when the stream ends or its user does.
LEMMA OnlyLeaves ==
    ASSUME RemoteInv, [Next]_vars, NEW c \in Clients, Is(c, "live"), ~Is(c, "live")'
    PROVE  Lost(c) \/ Escape(c)
<1>1. PICK d \in Clients : Setup(d) \/ ClientStep(d) \/ ClientMove(d) \/ Deadline(d)
  BY DEF Next, HelperStep, Install, Hello, NoStart, Ensure, Starting, FirstSweep, Lock,
     Validate, Attach, Accept, Discover, SoftCheck, Classify, InputEnds, Watchdog, Cut,
     App, Ready, Teardown, Exit, HardIntent, HardKill, SoftQuit, HardQuit, Crash, Expire,
     LocalLaunch, LocalEnd, LocalWatchdog, UserDetaches, LegacyEnds, Is, vars
<1>2. \A e \in Clients : e # d => cli'[e] = cli[e]
  <2>1. cli' = cli \/ \E k : cli' = [cli EXCEPT ![d] = k]
    BY <1>1
    DEF Setup, Connect, ReadHello, NoHello, HelloTimeout, AnswerLocal, AnswerInstall,
        AnswerVenv, ClientStep, Attempt, Reconnect, Rehello, Accepted, Busy, Refused, Lost,
        Retry, ClientMove, Deadline, AnswerTakeover, Paint, Escape, Again, Fails, Backoff,
        Follow, Await, SendStart, Launch, Stop, Update
  <2>2. QED BY <2>1, InvFacts
<1>3. d = c BY <1>2 DEF Is
<1>4. ~Paint(c) /\ ~Deadline(c)
  <2>1. ASSUME Paint(c) PROVE FALSE
    <3>1. cli' = [cli EXCEPT ![c] = [cli[c] EXCEPT !.painted = TRUE]]
      BY <2>1 DEF Paint, Update
    <3>2. QED BY <3>1, InvFacts DEF Is, ClientStates
  <2>2. ASSUME Deadline(c) PROVE FALSE
    BY <2>2 DEF Deadline, Is
  <2>3. QED BY <2>1, <2>2
<1>5. QED
  BY <1>1, <1>3, <1>4
  DEF Setup, Connect, ReadHello, NoHello, HelloTimeout, AnswerLocal, AnswerInstall,
      AnswerVenv, ClientStep, Attempt, Reconnect, Rehello, Accepted, Busy, Refused, Retry,
      ClientMove, AnswerTakeover, Is

LEMMA StopDone == ASSUME RemoteInv, NEW c \in Clients, Stop(c) PROVE Is(c, "done")'
<1>1. cli' = [cli EXCEPT ![c] = [at |-> "done", h |-> None, phase |-> "first", want |-> 0,
                                 painted |-> FALSE, late |-> FALSE]]
  BY DEF Stop, Update
<1>2. QED BY <1>1, InvFacts DEF Is

\* A soft quit is final for every client whose view it closed, for the session that was
\* started last: whoever reads the record, however late, reports the quit, and a client
\* that is told so ends (soft_exit_intended, should_automatically_reconnect).
THEOREM SoftQuitFinal == Spec => SoftIsFinal
<1> DEFINE Final ==
             \A c \in Clients :
               /\ Is(c, "live") /\ ~Is(c, "live")' /\ Closed(c) /\ ~Mine(c).cut
               /\ Mine(c).ended = "soft"
               /\ Mine(c).srv = tm.srv /\ Mine(c).sid = tm.born
               => Is(c, "done")'
<1>1. ASSUME QuitInvariant, [Next]_vars, NEW c \in Clients,
             Is(c, "live"), ~Is(c, "live")', Closed(c), ~Mine(c).cut,
             Mine(c).ended = "soft", Mine(c).srv = tm.srv, Mine(c).sid = tm.born
      PROVE  Is(c, "done")'
  <2>1. Lost(c) \/ Escape(c) BY <1>1, OnlyLeaves, QuitFacts
  <2>2. CASE Escape(c) BY <2>2, StopDone, <1>1, QuitFacts DEF Escape
  <2>3. CASE Lost(c)
    <3>1. cli[c].h \in Helpers BY <1>1, MineFacts, QuitFacts DEF Is
    <3>2. EndOK(cli[c].h, Mine(c), tm, soft, attached) BY <1>1, <3>1, QuitFacts DEF Mine
    <3>3. Mine(c).at = "ended" BY <1>1 DEF Closed
    <3>4. Mine(c).code \in Terminal BY <1>1, <3>2, <3>3 DEF EndOK
    <3>5. ~Eligible(c, Status(Mine(c))) BY <1>1, <3>4 DEF Eligible, Status
    <3>6. Stop(c) BY <2>3, <3>5 DEF Lost
    <3>7. QED BY <1>1, <3>6, StopDone, QuitFacts
  <2>4. QED BY <2>1, <2>2, <2>3
<1>2. QuitInvariant /\ [Next]_vars => [Final]_vars BY <1>1
<1>3. QED BY <1>2, QuitAlways, PTL DEF Spec, SoftIsFinal

-----------------------------------------------------------------------------
(* The consent of a user *)

\* A helper that takes over, and has not displayed yet, is that of a client whose user
\* was asked, unless its connection is gone.
Before == {"install", "hello", "start", "go", "starting", "lock", "held", "swept",
           "attached"}
Shows == {"accepted", "serve", "classify", "ended"}
ConsentOK(h, a, k) ==
    /\ a.said = "accepted" => a.at \in Shows
    /\ a.rep /\ ~a.cut /\ a.at \in Before =>
         a.own \in Clients /\ k[a.own].h = h /\ k[a.own].phase = "replace"
ConsentInvariant == RemoteInv /\ \A h \in Helpers : ConsentOK(h, helper[h], cli)

LEMMA ConsentFacts ==
    ASSUME ConsentInvariant
    PROVE  /\ RemoteInv /\ helper \in [Helpers -> HelperStates]
           /\ cli \in [Clients -> ClientStates]
           /\ \A h \in Helpers : /\ helper[h] \in HelperStates
                                 /\ ConsentOK(h, helper[h], cli)
BY InvFacts DEF ConsentInvariant

\* A helper that goes on, for the same client and over the same connection.
GoesOn(a, r) ==
    /\ r.own = a.own /\ r.cut = a.cut /\ (r.rep => a.rep)
    /\ r.at \in Before => a.at \in Before
    /\ r.said = "accepted" => r.at \in Shows
LEMMA GoesOnOK ==
    ASSUME NEW h, NEW a, NEW r, NEW k, ConsentOK(h, a, k), GoesOn(a, r)
    PROVE  ConsentOK(h, r, k)
BY DEF ConsentOK, GoesOn
\* One that has ended, or is no more.
Rests(r) == r.at \notin Before /\ r.said # "accepted"
LEMMA RestsOK == ASSUME NEW h, NEW r, NEW k, Rests(r) PROVE ConsentOK(h, r, k)
BY DEF ConsentOK, Rests
LEMMA FreeRests == Rests(Free)
BY FreeFields DEF Rests, Before

\* A step of a helper leaves it going on, or at rest.
LEMMA HelperGoesOn ==
    ASSUME ConsentInvariant, NEW h \in Helpers, HelperStep(h)
    PROVE  Rests(helper'[h]) \/ GoesOn(helper[h], helper'[h])
<1>1. PICK a \in HelperStates : a = helper[h] BY ConsentFacts
<1>2. a.said = "accepted" => a.at \in Shows BY <1>1, ConsentFacts DEF ConsentOK
<1>3. helper \in [Helpers -> HelperStates] BY ConsentFacts
<1>4. ASSUME NEW code, NEW r, r = Ended(h, code) PROVE Rests(r) \/ GoesOn(a, r)
  <2>1. r = Free \/ Exited(a, r, code) BY <1>1, <1>4, EndedForms
  <2>2. QED BY <1>2, <2>1, FreeRests DEF Exited, GoesOn, Before, Shows
<1>5. ASSUME NEW code, End(h, code) PROVE Rests(helper'[h]) \/ GoesOn(a, helper'[h])
  BY <1>3, <1>4, <1>5 DEF End
<1>6. CASE Install(h) \/ NoStart(h) \/ Ensure(h) \/ Starting(h) \/ FirstSweep(h)
  <2>1. \/ \E code : End(h, code)
        \/ helper' = [helper EXCEPT ![h].at = "hello", ![h].want = 0]
        \/ helper' = [helper EXCEPT ![h].sid = tm.sid, ![h].at = "lock"]
        \/ helper' = [helper EXCEPT ![h].at = "starting"]
    BY <1>6 DEF Install, NoStart, Ensure, Starting, FirstSweep
  <2>2. a.at \in Before /\ a.said # "accepted"
    BY <1>1, <1>2, <1>6 DEF Before, Shows, Install, NoStart, Ensure, Starting, FirstSweep
  <2>3. CASE helper' = [helper EXCEPT ![h].at = "hello", ![h].want = 0]
    BY <1>1, <1>3, <2>2, <2>3 DEF GoesOn, HelperStates
  <2>4. CASE helper' = [helper EXCEPT ![h].sid = tm.sid, ![h].at = "lock"]
    BY <1>1, <1>3, <2>2, <2>4 DEF GoesOn, HelperStates
  <2>5. CASE helper' = [helper EXCEPT ![h].at = "starting"]
    BY <1>1, <1>3, <2>2, <2>5 DEF GoesOn, HelperStates
  <2>6. QED BY <1>1, <1>5, <2>1, <2>3, <2>4, <2>5
<1>7. CASE Hello(h)
  <2> DEFINE told == [a EXCEPT !.said = "hello", !.pkg = pkg]
  <2>1. PICK r : r = told OBVIOUS
  <2>2. \/ \E code : End(h, code)
        \/ helper' = [helper EXCEPT ![h] = [r EXCEPT !.at = "start"]]
        \/ helper' = [helper EXCEPT ![h] = [r EXCEPT !.at = "ended", !.code = "ERROR"]]
    BY <1>1, <1>7, <2>1 DEF Hello, End
  <2>3. pkg \in Package BY InvFacts, ConsentFacts DEF HostTypes
  <2>4. /\ r \in HelperStates /\ r.own = a.own /\ r.cut = a.cut /\ r.rep = a.rep
        /\ r.said = "hello" /\ a.at \in Before
    BY <1>1, <1>7, <2>1, <2>3 DEF HelperStates, Hello, Before
  <2>5. CASE helper' = [helper EXCEPT ![h] = [r EXCEPT !.at = "start"]]
    BY <1>1, <1>3, <2>4, <2>5 DEF GoesOn, HelperStates
  <2>6. CASE helper' = [helper EXCEPT ![h] = [r EXCEPT !.at = "ended", !.code = "ERROR"]]
    BY <1>1, <1>3, <2>4, <2>6 DEF GoesOn, HelperStates
  <2>7. QED BY <1>1, <1>5, <2>2, <2>5, <2>6
<1>8. CASE Lock(h)
  <2>1. PICK r : r = Ended(h, "ERROR") OBVIOUS
  <2>2. \/ helper' = [helper EXCEPT ![h].at = "held"]
        \/ \E said \in {"none", "busy"} : helper' = [helper EXCEPT ![h] = [r EXCEPT !.said = said]]
    BY <1>8, <2>1 DEF Lock
  <2>3. a.at \in Before /\ a.said # "accepted"
    BY <1>1, <1>2, <1>8 DEF Before, Shows, Lock
  <2>4. CASE helper' = [helper EXCEPT ![h].at = "held"]
    BY <1>1, <1>3, <2>3, <2>4 DEF GoesOn, HelperStates
  <2>5. ASSUME NEW said \in {"none", "busy"},
               helper' = [helper EXCEPT ![h] = [r EXCEPT !.said = said]]
        PROVE  Rests(helper'[h])
    <3>1. r \in HelperStates /\ r.at \in {"free", "ended"}
      BY <2>1, EndFacts, ConsentFacts DEF Codes
    <3>2. QED BY <1>3, <2>5, <3>1 DEF Rests, HelperStates, Before
  <2>6. QED BY <1>1, <2>2, <2>4, <2>5
<1>9. CASE Validate(h) \/ Attach(h) \/ Accept(h)
  <2>1. \/ \E code : End(h, code)
        \/ \E at \in {"swept", "attached"} : helper' = [helper EXCEPT ![h].at = at]
        \/ \E said \in {"none", "accepted"} :
             helper' = [helper EXCEPT ![h].at = "accepted", ![h].said = said]
    BY <1>9 DEF Validate, Attach, Accept, Abort
  <2>2. a.at \in Before /\ a.said # "accepted"
    BY <1>1, <1>2, <1>9 DEF Before, Shows, Validate, Attach, Accept
  <2>3. QED BY <1>1, <1>3, <1>5, <2>1, <2>2 DEF GoesOn, HelperStates, Before, Shows
<1>10. CASE Discover(h) \/ SoftCheck(h) \/ Classify(h) \/ InputEnds(h) \/ Watchdog(h)
  <2>1. \/ \E code : End(h, code)
        \/ helper' = [helper EXCEPT ![h].at = "serve", ![h].srv = tm.srv, ![h].rep = FALSE]
        \/ helper' = [helper EXCEPT ![h].at = "classify"]
    BY <1>10 DEF Discover, SoftCheck, Classify, InputEnds, Watchdog
  <2>2. CASE helper' = [helper EXCEPT ![h].at = "serve", ![h].srv = tm.srv,
                                      ![h].rep = FALSE]
    BY <1>1, <1>3, <2>2 DEF GoesOn, HelperStates, Before, Shows
  <2>3. CASE helper' = [helper EXCEPT ![h].at = "classify"]
    BY <1>1, <1>3, <2>3 DEF GoesOn, HelperStates, Before, Shows
  <2>4. QED BY <1>1, <1>5, <2>1, <2>2, <2>3
<1>11. QED BY <1>1, <1>6, <1>7, <1>8, <1>9, <1>10 DEF HelperStep

Phases == {"first", "user", "venv", "retry", "replace", "auto"}
\* A client ends its ssh process, or goes on with it, or starts another one: a
\* takeover only when its user was asked.
KeepsOn(c) ==
    \E k : /\ cli' = [cli EXCEPT ![c] = k]
           /\ k.h = cli[c].h /\ k.phase = cli[c].phase
           /\ \/ helper' = helper
              \/ helper' = [helper EXCEPT ![cli[c].h].said = "none"]
              \/ /\ Mine(c).at = "start" /\ ~Mine(c).cut
                 /\ helper' = [helper EXCEPT ![cli[c].h].at = "go",
                                 ![cli[c].h].said = "none", ![cli[c].h].pkg = None]
LEMMA KeepsOnForms ==
    ASSUME RemoteInv, NEW c \in Clients,
           \/ Paint(c) \/ Deadline(c)
           \/ Await(c, "askLocal")
           \/ SendStart(c) /\ ~Stop(c)
           \/ \E w : /\ Update(c, [cli[c] EXCEPT !.at = "askInstall", !.want = w])
                     /\ helper' = [helper EXCEPT ![cli[c].h].said = "none"]
    PROVE  KeepsOn(c)
<1>1. PICK k \in ClientStates : k = cli[c] BY InvFacts
<1>2. CASE Paint(c)
  <2>1. PICK m : m = [k EXCEPT !.painted = TRUE] OBVIOUS
  <2>2. m.h = k.h /\ m.phase = k.phase BY <2>1 DEF ClientStates
  <2>3. cli' = [cli EXCEPT ![c] = m] /\ helper' = helper
    BY <1>1, <1>2, <2>1 DEF Paint, Update
  <2>4. QED BY <1>1, <2>2, <2>3 DEF KeepsOn
<1>3. CASE Deadline(c)
  <2>1. PICK m : m = [k EXCEPT !.late = TRUE] OBVIOUS
  <2>2. m.h = k.h /\ m.phase = k.phase BY <2>1 DEF ClientStates
  <2>3. cli' = [cli EXCEPT ![c] = m] /\ helper' = helper
    BY <1>1, <1>3, <2>1 DEF Deadline, Update
  <2>4. QED BY <1>1, <2>2, <2>3 DEF KeepsOn
<1>4. CASE Await(c, "askLocal")
  <2>1. PICK m : m = [k EXCEPT !.at = "askLocal"] OBVIOUS
  <2>2. m.h = k.h /\ m.phase = k.phase BY <2>1 DEF ClientStates
  <2>3. /\ cli' = [cli EXCEPT ![c] = m]
        /\ helper' = [helper EXCEPT ![cli[c].h].said = "none"]
    BY <1>1, <1>4, <2>1 DEF Await, Update
  <2>4. QED BY <1>1, <2>2, <2>3 DEF KeepsOn
<1>5. CASE SendStart(c) /\ ~Stop(c)
  <2>1. PICK m : m = [k EXCEPT !.at = "status", !.want = 0] OBVIOUS
  <2>2. m.h = k.h /\ m.phase = k.phase BY <2>1 DEF ClientStates
  <2>3. /\ Mine(c).at = "start" /\ ~Mine(c).cut
        /\ cli' = [cli EXCEPT ![c] = m]
        /\ helper' = [helper EXCEPT ![cli[c].h].at = "go",
                                 ![cli[c].h].said = "none", ![cli[c].h].pkg = None]
    BY <1>1, <1>5, <2>1 DEF SendStart, Update
  <2>4. QED BY <1>1, <2>2, <2>3 DEF KeepsOn
<1>6. ASSUME NEW w, Update(c, [cli[c] EXCEPT !.at = "askInstall", !.want = w]),
             helper' = [helper EXCEPT ![cli[c].h].said = "none"]
      PROVE  KeepsOn(c)
  <2>1. PICK m : m = [k EXCEPT !.at = "askInstall", !.want = w] OBVIOUS
  <2>2. m.h = k.h /\ m.phase = k.phase BY <2>1 DEF ClientStates
  <2>3. cli' = [cli EXCEPT ![c] = m] BY <1>1, <1>6, <2>1 DEF Update
  <2>4. QED BY <1>1, <1>6, <2>2, <2>3 DEF KeepsOn
<1>7. QED BY <1>2, <1>3, <1>4, <1>5, <1>6

Ends(c) == helper' = Without(cli[c].h) /\ \E k : cli' = [cli EXCEPT ![c] = k]
Launches(c) ==
    \E at \in {"probe", "hello"}, phase \in Phases, rep \in BOOLEAN,
       first \in {"hello", "install"} :
         /\ Launch(c, at, phase, rep, first)
         /\ rep => phase = "replace"
         /\ at = "hello" => first = "hello"

LEMMA ConsentForms ==
    ASSUME RemoteInv, NEW c \in Clients,
           Setup(c) \/ ClientStep(c) \/ ClientMove(c) \/ Deadline(c)
    PROVE  Ends(c) \/ KeepsOn(c) \/ Accepted(c) \/ Launches(c)
<1>1. Stop(c) => Ends(c) BY DEF Stop, Ends, Update
<1>2. SendStart(c) => Ends(c) \/ KeepsOn(c) BY <1>1, KeepsOnForms
<1>3. \A p : Follow(c, p) => Ends(c) \/ KeepsOn(c)
  BY <1>1, <1>2, KeepsOnForms DEF Follow
<1>4. \A at, phase, first :
        at = "probe" /\ phase \in Phases /\ first \in {"hello", "install"}
        /\ Launch(c, at, phase, FALSE, first) => Launches(c)
  BY DEF Launches
<1>5. \A phase \in Phases : Again(c, phase) => Launches(c)
  BY DEF Again, Launches, Replaces
<1>6. Fails(c) => Ends(c) BY <1>1 DEF Fails, Backoff, Ends, Update
<1>7. Connect(c) \/ AnswerVenv(c) => Ends(c) \/ Launches(c)
  BY <1>1, <1>4 DEF Connect, AnswerVenv, Phases
<1>8. ReadHello(c) => Ends(c) \/ KeepsOn(c)
  BY <1>1, <1>2, <1>3, KeepsOnForms DEF ReadHello
<1>9. NoHello(c) \/ HelloTimeout(c) => Ends(c)
  BY <1>1 DEF NoHello, HelloTimeout, Ends, Update
<1>10. AnswerLocal(c) => Ends(c) \/ KeepsOn(c) BY <1>1, <1>3 DEF AnswerLocal
<1>11. AnswerInstall(c) => Ends(c) \/ KeepsOn(c) \/ Launches(c)
  BY <1>1, <1>2, <1>4 DEF AnswerInstall, Phases
<1>12. Rehello(c) => Ends(c) \/ KeepsOn(c) BY <1>2, <1>6 DEF Rehello
<1>13. Busy(c) => Ends(c) \/ Launches(c)
  BY <1>5, <1>6 DEF Busy, Phases, Ends, Update
<1>14. Refused(c) => Ends(c) BY <1>6 DEF Refused
<1>15. Lost(c) => Ends(c) BY <1>1 DEF Lost, Ends, Update
<1>16. Retry(c) \/ AnswerTakeover(c) => Ends(c) \/ Launches(c)
  BY <1>1, <1>5 DEF Retry, AnswerTakeover, Phases
<1>17. Escape(c) => Ends(c) BY <1>1 DEF Escape
<1>18. Paint(c) \/ Deadline(c) => KeepsOn(c) BY KeepsOnForms
<1>19. QED
  BY <1>7, <1>8, <1>9, <1>10, <1>11, <1>12, <1>13, <1>14, <1>15, <1>16, <1>17, <1>18
  DEF Setup, ClientStep, ClientMove, Attempt, Reconnect

\* The helpers that are not the client's own.
LEMMA OthersConsent ==
    ASSUME ConsentInvariant, NEW c \in Clients, NEW k, cli' = [cli EXCEPT ![c] = k],
           NEW h \in Helpers, cli[c].h # h
    PROVE  ConsentOK(h, helper[h], cli')
<1>1. ConsentOK(h, helper[h], cli) BY ConsentFacts
<1>2. \A d \in Clients : cli[d].h = h => cli'[d] = cli[d] BY ConsentFacts
<1>3. QED BY <1>1, <1>2 DEF ConsentOK

LEMMA EndsConsent ==
    ASSUME ConsentInvariant, NEW c \in Clients, NEW hs, hs = Without(cli[c].h),
           NEW h \in Helpers, NEW k, cli' = [cli EXCEPT ![c] = k]
    PROVE  ConsentOK(h, hs[h], cli')
<1>1. CASE cli[c].h # h
  <2>1. hs[h] = helper[h] BY <1>1, WithoutOK, ConsentFacts
  <2>2. QED BY <1>1, <2>1, OthersConsent
<1>2. CASE cli[c].h = h
  <2>1. PICK a \in HelperStates : a = helper[h] BY ConsentFacts
  <2>2. h # None BY NameFacts
  <2>3. \/ hs = [helper EXCEPT ![h] = Free]
        \/ hs = [helper EXCEPT ![h] = [a EXCEPT !.cut = TRUE, !.said = "none",
                                                !.pkg = None]]
    BY <1>2, <2>1, <2>2 DEF Without
  <2>4. hs[h] = Free \/ hs[h] = [a EXCEPT !.cut = TRUE, !.said = "none", !.pkg = None]
    BY <2>3, ConsentFacts
  <2>5. CASE hs[h] = [a EXCEPT !.cut = TRUE, !.said = "none", !.pkg = None]
    <3>1. PICK r : r = hs[h] OBVIOUS
    <3>2. r.cut = TRUE /\ r.said = "none" BY <2>5, <3>1 DEF HelperStates
    <3>3. ConsentOK(h, r, cli') BY <3>2 DEF ConsentOK
    <3>4. QED BY <3>1, <3>3
  <2>6. QED BY <2>4, <2>5, FreeRests, RestsOK
<1>3. QED BY <1>1, <1>2

LEMMA KeepsConsent ==
    ASSUME ConsentInvariant, NEW c \in Clients, KeepsOn(c), NEW h \in Helpers
    PROVE  ConsentOK(h, helper'[h], cli')
<1>1. PICK k : /\ cli' = [cli EXCEPT ![c] = k]
               /\ k.h = cli[c].h /\ k.phase = cli[c].phase
               /\ \/ helper' = helper
                  \/ helper' = [helper EXCEPT ![cli[c].h].said = "none"]
                  \/ /\ Mine(c).at = "start" /\ ~Mine(c).cut
                     /\ helper' = [helper EXCEPT ![cli[c].h].at = "go",
                                     ![cli[c].h].said = "none", ![cli[c].h].pkg = None]
  BY DEF KeepsOn
<1>2. CASE cli[c].h # h
  <2>1. helper'[h] = helper[h] BY <1>1, <1>2, ConsentFacts
  <2>2. QED BY <1>1, <1>2, <2>1, OthersConsent
<1>3. CASE cli[c].h = h
  <2>1. PICK a \in HelperStates : a = helper[h] BY ConsentFacts
  <2>2. ConsentOK(h, a, cli) BY <2>1, ConsentFacts
  <2>3. cli'[c] = k /\ \A d \in Clients : d # c => cli'[d] = cli[d]
    BY <1>1, ConsentFacts
  <2>4. ConsentOK(h, a, cli') BY <1>1, <2>2, <2>3 DEF ConsentOK
  <2>5. \/ helper'[h] = a \/ helper'[h] = [a EXCEPT !.said = "none"]
        \/ a.at = "start" /\ helper'[h] = [a EXCEPT !.at = "go", !.said = "none",
                                                    !.pkg = None]
    BY <1>1, <1>3, <2>1, ConsentFacts DEF Mine
  <2>6. CASE helper'[h] = [a EXCEPT !.said = "none"]
    <3>1. PICK r : r = helper'[h] OBVIOUS
    <3>2. GoesOn(a, r) BY <2>6, <3>1 DEF GoesOn, HelperStates
    <3>3. QED BY <2>4, <3>1, <3>2, GoesOnOK
  <2>7. CASE a.at = "start" /\ helper'[h] = [a EXCEPT !.at = "go", !.said = "none",
                                                      !.pkg = None]
    <3>1. PICK r : r = helper'[h] OBVIOUS
    <3>2. GoesOn(a, r) BY <2>7, <3>1 DEF GoesOn, HelperStates, Before
    <3>3. QED BY <2>4, <3>1, <3>2, GoesOnOK
  <2>8. QED BY <2>4, <2>5, <2>6, <2>7
<1>4. QED BY <1>2, <1>3

LEMMA AcceptedConsent ==
    ASSUME ConsentInvariant, NEW c \in Clients, Accepted(c), NEW h \in Helpers
    PROVE  ConsentOK(h, helper'[h], cli')
<1>1. PICK k : cli' = [cli EXCEPT ![c] = k] BY DEF Accepted, Update
<1>2. helper' = [helper EXCEPT ![cli[c].h].said = "none"] BY DEF Accepted
<1>3. CASE cli[c].h # h
  <2>1. helper'[h] = helper[h] BY <1>2, <1>3, ConsentFacts
  <2>2. QED BY <1>1, <1>3, <2>1, OthersConsent
<1>4. CASE cli[c].h = h
  <2>1. PICK a \in HelperStates : a = helper[h] BY ConsentFacts
  <2>2. a.said = "accepted" BY <1>4, <2>1 DEF Accepted, Said, Mine
  <2>3. a.at \in Shows BY <2>1, <2>2, ConsentFacts DEF ConsentOK
  <2>4. helper'[h] = [a EXCEPT !.said = "none"] BY <1>2, <1>4, <2>1, ConsentFacts
  <2>5. PICK r : r = helper'[h] OBVIOUS
  <2>6. Rests(r) BY <2>3, <2>4, <2>5 DEF Rests, HelperStates, Shows, Before
  <2>7. QED BY <2>5, <2>6, RestsOK
<1>5. QED BY <1>3, <1>4

LEMMA LaunchesConsent ==
    ASSUME ConsentInvariant, NEW c \in Clients, Launches(c), NEW h \in Helpers
    PROVE  ConsentOK(h, helper'[h], cli')
<1>1. PICK at \in {"probe", "hello"}, phase \in Phases, rep \in BOOLEAN,
           first \in {"hello", "install"} :
             Launch(c, at, phase, rep, first) /\ (rep => phase = "replace")
  BY DEF Launches
<1>2. PICK hs : hs = Without(cli[c].h) OBVIOUS
<1>3. PICK x : x = CHOOSE y \in Slot(hs) : TRUE OBVIOUS
<1>4. PICK k, r : k = [cli[c] EXCEPT !.at = at, !.phase = phase, !.h = x]
                  /\ r = Fresh(c, rep, first)
  OBVIOUS
<1>5. /\ Slot(hs) # {} /\ helper' = [hs EXCEPT ![x] = r]
      /\ cli' = [cli EXCEPT ![c] = k]
  BY <1>1, <1>2, <1>3, <1>4, Zenon DEF Launch, Update
<1>6. x \in Helpers BY <1>3, <1>5 DEF Slot
<1>7. hs \in [Helpers -> HelperStates] BY <1>2, WithoutOK, ConsentFacts
<1>8. CASE h # x
  <2>1. helper'[h] = hs[h] BY <1>5, <1>7, <1>8
  <2>2. QED BY <1>2, <1>5, <2>1, EndsConsent
<1>9. CASE h = x
  <2>1. helper'[h] = r BY <1>5, <1>7, <1>9
  <2>2. r.own = c /\ r.rep = rep /\ r.said = "none" BY <1>4 DEF Fresh, Free
  <2>3. cli'[c] = k BY <1>5, ConsentFacts
  <2>4. k.h = x /\ k.phase = phase BY <1>4, ConsentFacts DEF ClientStates
  <2>5. ConsentOK(h, r, cli') BY <1>1, <1>9, <2>2, <2>3, <2>4 DEF ConsentOK
  <2>6. QED BY <2>1, <2>5
<1>10. QED BY <1>8, <1>9

LEMMA ClientConsent ==
    ASSUME ConsentInvariant, NEW c \in Clients,
           Setup(c) \/ ClientStep(c) \/ ClientMove(c) \/ Deadline(c)
    PROVE  ConsentInvariant'
<1>1. RemoteInv' BY ClientInv, ConsentFacts
<1>2. ASSUME NEW h \in Helpers PROVE ConsentOK(h, helper'[h], cli')
  <2>1. Ends(c) => ConsentOK(h, helper'[h], cli') BY EndsConsent DEF Ends
  <2>2. QED
    BY <2>1, ConsentForms, KeepsConsent, AcceptedConsent, LaunchesConsent, ConsentFacts
<1>3. QED BY <1>1, <1>2 DEF ConsentInvariant

LEMMA HelperConsent ==
    ASSUME ConsentInvariant, NEW g \in Helpers, HelperStep(g) \/ Cut(g)
    PROVE  ConsentInvariant'
<1>1. RemoteInv' BY HelperInv, CutInv, ConsentFacts
<1>2. cli' = cli
  BY DEF HelperStep, Install, Hello, NoStart, Ensure, Starting, FirstSweep, Lock,
     Validate, Attach, Accept, Discover, SoftCheck, Classify, InputEnds, Watchdog, Cut
<1>3. ASSUME NEW h \in Helpers PROVE ConsentOK(h, helper'[h], cli)
  <2>1. CASE h # g
    <3>1. helper'[h] = helper[h] BY <2>1, OneSteps, ConsentFacts
    <3>2. QED BY <3>1, ConsentFacts
  <2>2. CASE h = g /\ HelperStep(g)
    BY <2>2, HelperGoesOn, GoesOnOK, RestsOK, ConsentFacts
  <2>3. CASE h = g /\ Cut(g)
    <3>1. PICK a \in HelperStates : a = helper[h] BY ConsentFacts
    <3>2. helper'[h] = [a EXCEPT !.cut = TRUE, !.said = "none"]
      BY <2>3, <3>1, ConsentFacts DEF Cut
    <3>3. PICK r : r = helper'[h] OBVIOUS
    <3>4. r.cut = TRUE /\ r.said = "none" BY <3>2, <3>3 DEF HelperStates
    <3>5. ConsentOK(h, r, cli) BY <3>4 DEF ConsentOK
    <3>6. QED BY <3>3, <3>5
  <2>4. QED BY <2>1, <2>2, <2>3
<1>4. QED BY <1>1, <1>2, <1>3 DEF ConsentInvariant

LEMMA HostConsent ==
    ASSUME ConsentInvariant, RemoteInv', cli' = cli,
           \A h \in Helpers : \E y : helper'[h] = [helper[h] EXCEPT !.ended = y]
    PROVE  ConsentInvariant'
<1>1. ASSUME NEW h \in Helpers PROVE ConsentOK(h, helper'[h], cli)
  <2>1. PICK a \in HelperStates : a = helper[h] BY ConsentFacts
  <2>2. PICK y : helper'[h] = [a EXCEPT !.ended = y] BY <2>1
  <2>3. PICK r : r = helper'[h] OBVIOUS
  <2>4. /\ r.own = a.own /\ r.cut = a.cut /\ r.rep = a.rep /\ r.at = a.at
        /\ r.said = a.said
    BY <2>2, <2>3 DEF HelperStates
  <2>5. ConsentOK(h, a, cli) BY <2>1, ConsentFacts
  <2>6. ConsentOK(h, r, cli) BY <2>4, <2>5 DEF ConsentOK
  <2>7. QED BY <2>3, <2>6
<1>2. QED BY <1>1 DEF ConsentInvariant

LEMMA AppHost ==
    ASSUME RemoteInv, \/ App \/ SoftQuit \/ HardQuit \/ Crash \/ Expire \/ LocalLaunch
                      \/ LocalEnd \/ LocalWatchdog \/ UserDetaches \/ LegacyEnds
                      \/ UNCHANGED vars
    PROVE  /\ cli' = cli
           /\ \A h \in Helpers : \E y : helper'[h] = [helper[h] EXCEPT !.ended = y]
<1>1. cli' = cli
  BY DEF App, Ready, Teardown, Exit, HardIntent, HardKill, SoftQuit, HardQuit, Crash,
     Expire, LocalLaunch, LocalEnd, LocalWatchdog, UserDetaches, LegacyEnds, vars
<1>2. helper' = helper \/ \E x \in {"none", "soft", "hard"} : SessionEnds(x)
  BY DEF App, Ready, Teardown, Exit, HardIntent, HardKill, SoftQuit, HardQuit, Crash,
     Expire, LocalLaunch, LocalEnd, LocalWatchdog, UserDetaches, LegacyEnds, vars
<1>3. QED BY <1>1, <1>2, SameHelpers, SessionEndsFacts

LEMMA ConsentInit == ASSUME Init PROVE ConsentInvariant
<1>1. RemoteInv BY InitInv
<1>2. ASSUME NEW h \in Helpers PROVE ConsentOK(h, helper[h], cli)
  <2>1. helper[h] = Free \/ \E c \in Shown : helper[h] = Serving(c) BY Zenon DEF Init
  <2>2. ASSUME NEW c \in Shown, helper[h] = Serving(c)
        PROVE  helper[h].said = "none" /\ helper[h].at = "serve"
    BY <2>2 DEF Serving, Free
  <2>3. QED BY <2>1, <2>2, FreeRests, RestsOK DEF ConsentOK, Before
<1>3. QED BY <1>1, <1>2 DEF ConsentInvariant

LEMMA ConsentNext == ASSUME ConsentInvariant, [Next]_vars PROVE ConsentInvariant'
<1>1. CASE \E h \in Helpers : HelperStep(h) \/ Cut(h) BY <1>1, HelperConsent
<1>2. CASE \E c \in Clients : Setup(c) \/ ClientStep(c) \/ ClientMove(c) \/ Deadline(c)
  BY <1>2, ClientConsent
<1>3. CASE \/ App \/ SoftQuit \/ HardQuit \/ Crash \/ Expire \/ LocalLaunch
           \/ LocalEnd \/ LocalWatchdog \/ UserDetaches \/ LegacyEnds \/ UNCHANGED vars
  BY <1>3, AppHost, HostConsent, NextInv, ConsentFacts
<1>4. QED BY <1>1, <1>2, <1>3 DEF Next

LEMMA ConsentAlways == Spec => []ConsentInvariant
BY ConsentInit, ConsentNext, PTL DEF Spec

\* Only a user's consent ends the views of others: a helper that takes anybody else off
\* the session belongs to a client whose user was asked (_finish_remote_attach).
THEOREM AskedFirst == Spec => Consented
<1> DEFINE Polite ==
             \A h \in Helpers :
                /\ HelperStep(h) /\ ~(attached \subseteq attached' \cup {h})
                => cli[helper[h].own].phase = "replace" \/ helper[h].cut
<1>1. ASSUME ConsentInvariant, NEW h \in Helpers, HelperStep(h),
             ~(attached \subseteq attached' \cup {h}), ~helper[h].cut
      PROVE  cli[helper[h].own].phase = "replace"
  <2>1. helper[h].rep /\ helper[h].at \in {"go", "held"}
    BY <1>1
    DEF HelperStep, Install, Hello, NoStart, Ensure, Starting, FirstSweep, Lock, Validate,
        Attach, Accept, Discover, SoftCheck, Classify, InputEnds, Watchdog, Abort,
        SecondSweep, remote
  <2>2. QED BY <1>1, <2>1, ConsentFacts DEF ConsentOK, Before
<1>2. ConsentInvariant => Polite BY <1>1
<1>3. Polite => [Polite]_vars OBVIOUS
<1>4. QED BY <1>2, ConsentAlways, PTL DEF Consented

-----------------------------------------------------------------------------
(* The version on the remote host *)

\* What an installation puts there: the version that is there, when it is newer than
\* that of the clients.  It stays the same, whoever installs.
Top == IF pkg.ver > Local THEN pkg.ver ELSE Local
Outdated(p) == p.ver > Local => p.hello

\* What the helpers have read is as good as what is there; one that says hello waits.
ToldOK(a, top) ==
    /\ a.pkg # None => Wanted(a.pkg) = top
    /\ a.at = "install" => a.want = top
    /\ a.said = "hello" => a.at \in {"start", "ended"}

\* A first probe that ends without a hello means that nothing newer is there.
Probed(a, top) ==
    a.cut \/ a.at = "hello" \/ a.said = "hello" \/ (a.at = "ended" /\ top = Local)
WantOK(k, hs, top) ==
    /\ k.at \in {"askInstall", "askVenv"} => k.want = top
    /\ k.at = "probe" /\ k.phase # "first" => k.want = top
    /\ k.at = "probe" /\ k.phase = "first" => Probed(hs[k.h], top)

VersionInvariant ==
    /\ RemoteInv /\ Outdated(pkg)
    /\ \A h \in Helpers : ToldOK(helper[h], Top)
    /\ \A c \in Clients : WantOK(cli[c], helper, Top)

LEMMA VersionInvFacts ==
    ASSUME VersionInvariant
    PROVE  /\ RemoteInv /\ helper \in [Helpers -> HelperStates] /\ pkg \in Package
           /\ cli \in [Clients -> ClientStates] /\ Outdated(pkg)
           /\ \A h \in Helpers : helper[h] \in HelperStates /\ ToldOK(helper[h], Top)
           /\ \A c \in Clients : /\ cli[c] \in ClientStates /\ ClientOK(c, cli[c])
                                 /\ WantOK(cli[c], helper, Top)
           /\ Wanted(pkg) = Top
BY InvFacts DEF VersionInvariant, HostTypes, Wanted, Top

LEMMA InstallTop ==
    ASSUME VersionInvariant, NEW h \in Helpers, Install(h)
    PROVE  Outdated(pkg') /\ Top' = Top /\ pkg'.ver >= pkg.ver
<1>1. PICK p \in Package : p = pkg BY VersionInvFacts
<1>2. PICK v : v = helper[h].want OBVIOUS
<1>3. v = Top BY <1>2, VersionInvFacts DEF Install, ToldOK
<1>4. p.ver \in Int /\ Local \in Int /\ v \in Int
  BY <1>1, <1>3, VersionAssumption DEF Package, Versions, Top
<1>5. CASE pkg' = pkg BY <1>1, <1>4, <1>5, VersionInvFacts DEF Top
<1>6. CASE \E x : pkg' = [p EXCEPT !.hello = TRUE, !.ver = v, !.ready = TRUE, !.proto = x]
  <2>1. pkg'.ver = v /\ pkg'.hello = TRUE BY <1>6 DEF Package
  <2>2. QED BY <1>1, <1>3, <1>4, <2>1 DEF Top, Outdated
<1>7. pkg' = pkg \/ \E x : pkg' = [p EXCEPT !.hello = TRUE, !.ver = v, !.ready = TRUE,
                                            !.proto = x]
  <2>1. pkg' = pkg \/ pkg' = [p EXCEPT !.hello = TRUE, !.ver = v, !.ready = TRUE,
                                !.proto = IF v = Local THEN Protocol ELSE p.proto]
    BY <1>1, <1>2 DEF Install
  <2>2. QED BY <2>1
<1>8. QED BY <1>5, <1>6, <1>7

\* A helper goes on with what it has read and said, or has ended.
Tells(a, r) ==
    /\ r.pkg = a.pkg /\ r.at # "install" /\ r.cut = a.cut
    /\ r.said = "hello" => a.said = "hello" /\ r.at \in {"start", "ended"}
    /\ a.at # "hello"
    /\ a.said = "hello" => r.said = "hello"
LEMMA TellsOK ==
    ASSUME NEW a, NEW r, NEW top, ToldOK(a, top), Tells(a, r)
    PROVE  ToldOK(r, top) /\ (Probed(a, top) /\ a.at # "ended" => Probed(r, top))
BY DEF ToldOK, Tells, Probed

\* What a helper may be after its own step; only the hello itself tells of a package.
LEMMA OwnTells ==
    ASSUME VersionInvariant, NEW h \in Helpers, HelperStep(h)
    PROVE  \/ helper'[h] = Free
           \/ /\ ToldOK(helper'[h], Top)
              /\ Probed(helper[h], Top) /\ cli[helper[h].own].h = h
                   => Probed(helper'[h], Top)
<1>1. PICK a \in HelperStates : a = helper[h] BY VersionInvFacts
<1>2. PICK top : top = Top OBVIOUS
<1>3. ToldOK(a, top) /\ Wanted(pkg) = top BY <1>1, <1>2, VersionInvFacts
<1>4. helper \in [Helpers -> HelperStates] /\ pkg \in Package BY VersionInvFacts
<1>5. a.at # "ended" /\ a.at # "free"
  BY <1>1
  DEF HelperStep, Install, Hello, NoStart, Ensure, Starting, FirstSweep, Lock, Validate,
      Attach, Accept, Discover, SoftCheck, Classify, InputEnds, Watchdog
<1> DEFINE Good(r) == ToldOK(r, top) /\ (Probed(a, top) /\ cli[a.own].h = h => Probed(r, top))
<1>6. ASSUME NEW r, Tells(a, r) PROVE Good(r) BY <1>3, <1>5, <1>6, TellsOK
<1>7. ASSUME NEW code, End(h, code), a.at # "hello"
      PROVE  helper'[h] = Free \/ Tells(a, helper'[h])
  <2>1. PICK r : r = Ended(h, code) OBVIOUS
  <2>2. r = Free \/ Exited(a, r, code) BY <1>1, <2>1, EndedForms
  <2>3. helper'[h] = r BY <1>4, <1>7, <2>1 DEF End
  <2>4. Exited(a, r, code) => Tells(a, r) BY <1>7 DEF Exited, Tells
  <2>5. QED BY <2>2, <2>3, <2>4
<1>8. CASE Install(h)
  <2>1. a.at = "install" /\ a.said # "hello" BY <1>1, <1>3, <1>8 DEF Install, ToldOK
  <2>2. CASE End(h, "ERROR") BY <1>1, <1>2, <1>6, <1>7, <2>1, <2>2
  <2>3. CASE helper' = [helper EXCEPT ![h].at = "hello", ![h].want = 0]
    <3>1. helper'[h] = [a EXCEPT !.at = "hello", !.want = 0] BY <1>1, <1>4, <2>3
    <3>2. PICK r : r = helper'[h] OBVIOUS
    <3>3. r.at = "hello" /\ r.said = a.said /\ r.pkg = a.pkg
      BY <3>1, <3>2 DEF HelperStates
    <3>4. Good(r) BY <1>3, <2>1, <3>3 DEF ToldOK, Probed
    <3>5. QED BY <1>1, <1>2, <3>2, <3>4
  <2>4. QED BY <1>8, <2>2, <2>3 DEF Install
<1>9. CASE Hello(h)
  <2> DEFINE told == [a EXCEPT !.said = "hello", !.pkg = pkg]
  <2>1. PICK r : r = told OBVIOUS
  <2>2. r \in HelperStates /\ r.said = "hello" /\ r.pkg = pkg
    BY <1>4, <2>1 DEF HelperStates
  <2>3. \/ (~pkg.hello \/ a.cut) /\ \E code : End(h, code)
        \/ helper' = [helper EXCEPT ![h] = [r EXCEPT !.at = "start"]]
        \/ helper' = [helper EXCEPT ![h] = [r EXCEPT !.at = "ended", !.code = "ERROR"]]
    BY <1>1, <1>9, <2>1 DEF Hello, End
  <2>4. ASSUME NEW x, x.said = "hello", x.pkg = pkg, x.at \in {"start", "ended"},
               helper'[h] = x
        PROVE  Good(helper'[h])
    BY <1>3, <2>4 DEF ToldOK, Probed
  <2>5. ASSUME NEW x, \/ x = [r EXCEPT !.at = "start"]
                      \/ x = [r EXCEPT !.at = "ended", !.code = "ERROR"]
        PROVE  x.said = "hello" /\ x.pkg = pkg /\ x.at \in {"start", "ended"}
    BY <2>2, <2>5 DEF HelperStates
  <2>6. CASE helper' = [helper EXCEPT ![h] = [r EXCEPT !.at = "start"]]
    BY <1>1, <1>2, <1>4, <2>4, <2>5, <2>6
  <2>7. CASE helper' = [helper EXCEPT ![h] = [r EXCEPT !.at = "ended", !.code = "ERROR"]]
    BY <1>1, <1>2, <1>4, <2>4, <2>5, <2>7
  <2>8. ASSUME ~pkg.hello \/ a.cut, NEW code, End(h, code)
        PROVE  helper'[h] = Free \/ Good(helper'[h])
    <3>1. PICK x : x = Ended(h, code) OBVIOUS
    <3>2. x = Free \/ Exited(a, x, code) BY <1>1, <3>1, EndedForms
    <3>3. helper'[h] = x BY <1>4, <2>8, <3>1 DEF End
    <3>4. ~pkg.hello => top = Local BY <1>2, VersionInvFacts DEF Outdated, Top
    <3>5. a.said # "hello" BY <1>1, <1>3, <1>9 DEF ToldOK, Hello
    <3>6. Exited(a, x, code) => Good(x)
      BY <1>3, <2>8, <3>4, <3>5 DEF Exited, ToldOK, Probed
    <3>7. QED BY <3>2, <3>3, <3>6
  <2>9. QED BY <1>1, <1>2, <2>3, <2>6, <2>7, <2>8
<1>10. CASE NoStart(h)
  BY <1>1, <1>2, <1>6, <1>7, <1>10 DEF NoStart
<1>11. ASSUME a.at \notin {"install", "hello", "start"},
              \/ \E code : End(h, code)
              \/ \E at \in {"starting", "held", "swept", "attached", "classify"} :
                   helper' = [helper EXCEPT ![h].at = at]
              \/ helper' = [helper EXCEPT ![h].sid = tm.sid, ![h].at = "lock"]
              \/ \E said \in {"none", "accepted"} :
                   helper' = [helper EXCEPT ![h].at = "accepted", ![h].said = said]
              \/ helper' = [helper EXCEPT ![h].at = "serve", ![h].srv = tm.srv,
                                          ![h].rep = FALSE]
       PROVE  helper'[h] = Free \/ Good(helper'[h])
  <2>1. a.said # "hello" BY <1>3, <1>5, <1>11 DEF ToldOK
  <2>2. ASSUME NEW code, End(h, code) PROVE helper'[h] = Free \/ Good(helper'[h])
    BY <1>6, <1>7, <1>11, <2>2
  <2>3. ASSUME NEW at \in {"starting", "held", "swept", "attached", "classify"},
               helper' = [helper EXCEPT ![h].at = at]
        PROVE  Tells(a, helper'[h])
    BY <1>1, <1>4, <1>11, <2>1, <2>3 DEF Tells, HelperStates
  <2>4. ASSUME helper' = [helper EXCEPT ![h].sid = tm.sid, ![h].at = "lock"]
        PROVE  Tells(a, helper'[h])
    BY <1>1, <1>4, <1>11, <2>1, <2>4 DEF Tells, HelperStates
  <2>5. ASSUME NEW said \in {"none", "accepted"},
               helper' = [helper EXCEPT ![h].at = "accepted", ![h].said = said]
        PROVE  Tells(a, helper'[h])
    BY <1>1, <1>4, <1>11, <2>1, <2>5 DEF Tells, HelperStates
  <2>6. ASSUME helper' = [helper EXCEPT ![h].at = "serve", ![h].srv = tm.srv,
                                        ![h].rep = FALSE]
        PROVE  Tells(a, helper'[h])
    BY <1>1, <1>4, <1>11, <2>1, <2>6 DEF Tells, HelperStates
  <2>7. QED BY <1>6, <1>11, <2>2, <2>3, <2>4, <2>5, <2>6
<1>12. CASE Lock(h)
  <2>1. PICK r : r = Ended(h, "ERROR") OBVIOUS
  <2>2. \/ helper' = [helper EXCEPT ![h].at = "held"]
        \/ \E said \in {"none", "busy"} : helper' = [helper EXCEPT ![h] = [r EXCEPT !.said = said]]
    BY <1>12, <2>1 DEF Lock
  <2>3. a.at = "lock" BY <1>1, <1>12 DEF Lock
  <2>4. CASE helper' = [helper EXCEPT ![h].at = "held"] BY <1>1, <1>2, <1>11, <2>3, <2>4
  <2>5. ASSUME NEW said \in {"none", "busy"},
               helper' = [helper EXCEPT ![h] = [r EXCEPT !.said = said]]
        PROVE  Good(helper'[h])
    <3>1. r \in HelperStates /\ r.at \in {"free", "ended"}
      BY <2>1, EndFacts, VersionInvFacts DEF Codes
    <3>2. r = Free \/ Exited(a, r, "ERROR") BY <1>1, <2>1, EndedForms
    <3>3. PICK x : x = helper'[h] OBVIOUS
    <3>4. x = [r EXCEPT !.said = said] BY <1>4, <2>5, <3>3
    <3>5. x.said = said /\ x.at = r.at /\ x.pkg = r.pkg /\ x.cut = r.cut
      BY <3>1, <3>4 DEF HelperStates
    <3>6. ToldOK(x, top)
      BY <1>3, <3>1, <3>2, <3>5, FreeFields DEF Exited, ToldOK
    <3>7. ASSUME Probed(a, top), cli[a.own].h = h PROVE Probed(x, top)
      <4>1. a.cut BY <1>3, <2>3, <3>7 DEF Probed, ToldOK
      <4>2. r.cut
        <5>1. r = [a EXCEPT !.at = "ended", !.code = "ERROR"]
          BY <1>1, <2>1, <3>7 DEF Ended
        <5>2. QED BY <4>1, <5>1 DEF HelperStates
      <4>3. QED BY <4>2, <3>5 DEF Probed
    <3>8. QED BY <3>3, <3>6, <3>7
  <2>6. QED BY <1>1, <1>2, <2>2, <2>4, <2>5
<1>13. CASE \/ Ensure(h) \/ Starting(h) \/ FirstSweep(h) \/ Validate(h) \/ Attach(h)
            \/ Accept(h) \/ Discover(h) \/ SoftCheck(h) \/ Classify(h) \/ InputEnds(h)
            \/ Watchdog(h)
  <2>1. a.at \notin {"install", "hello", "start"}
    BY <1>1, <1>13
    DEF Ensure, Starting, FirstSweep, Validate, Attach, Accept, Discover, SoftCheck,
        Classify, InputEnds, Watchdog
  <2>2. \/ \E code : End(h, code)
        \/ \E at \in {"starting", "held", "swept", "attached", "classify"} :
             helper' = [helper EXCEPT ![h].at = at]
        \/ helper' = [helper EXCEPT ![h].sid = tm.sid, ![h].at = "lock"]
        \/ \E said \in {"none", "accepted"} :
             helper' = [helper EXCEPT ![h].at = "accepted", ![h].said = said]
        \/ helper' = [helper EXCEPT ![h].at = "serve", ![h].srv = tm.srv,
                                    ![h].rep = FALSE]
    BY <1>13
    DEF Ensure, Starting, FirstSweep, Validate, Attach, Accept, Discover, SoftCheck,
        Classify, InputEnds, Watchdog, Abort
  <2>3. QED BY <1>1, <1>2, <1>11, <2>1, <2>2
<1>14. QED BY <1>8, <1>9, <1>10, <1>12, <1>13 DEF HelperStep

\* A client's step leaves the helpers of the other clients alone.
LEMMA OwnHelperOnly ==
    ASSUME RemoteInv, NEW c \in Clients,
           Setup(c) \/ ClientStep(c) \/ ClientMove(c) \/ Deadline(c),
           NEW d \in Clients, d # c, cli[d].h # None
    PROVE  helper'[cli[d].h] = helper[cli[d].h] /\ cli'[d] = cli[d]
<1>1. PICK x \in Helpers : x = cli[d].h BY InvFacts DEF ClientStates
<1>2. x # cli[c].h
  <2>1. cli[d].h # cli[c].h BY OneOwner
  <2>2. QED BY <1>1, <2>1
<1>3. PICK hs : hs = Without(cli[c].h) OBVIOUS
<1>4. hs \in [Helpers -> HelperStates] /\ hs[x] = helper[x] BY <1>2, <1>3, WithoutOK
<1>5. helper[x].at # "free" BY <1>1, InvFacts DEF ClientOK
<1>6. ASSUME Launches(c) PROVE helper'[x] = helper[x] /\ \E k : cli' = [cli EXCEPT ![c] = k]
  <2>1. PICK at, phase, rep, first : Launch(c, at, phase, rep, first)
    BY <1>6 DEF Launches
  <2>2. PICK y, r : /\ Slot(hs) # {} /\ y = CHOOSE z \in Slot(hs) : TRUE
                    /\ helper' = [hs EXCEPT ![y] = r]
    BY <1>3, <2>1, Zenon DEF Launch
  <2>3. hs[y].at = "free" BY <2>2 DEF Slot
  <2>4. x # y BY <1>4, <1>5, <2>3
  <2>5. \E k : cli' = [cli EXCEPT ![c] = k] BY <2>1 DEF Launch, Update
  <2>6. QED BY <1>4, <2>2, <2>4, <2>5
<1>7. ASSUME Ends(c) PROVE helper'[x] = helper[x] /\ \E k : cli' = [cli EXCEPT ![c] = k]
  BY <1>3, <1>4, <1>7 DEF Ends
<1>8. ASSUME KeepsOn(c)
      PROVE  helper'[x] = helper[x] /\ \E k : cli' = [cli EXCEPT ![c] = k]
  BY <1>2, <1>8, InvFacts DEF KeepsOn
<1>9. ASSUME Accepted(c)
      PROVE  helper'[x] = helper[x] /\ \E k : cli' = [cli EXCEPT ![c] = k]
  BY <1>2, <1>9, InvFacts DEF Accepted, Update
<1>10. helper'[x] = helper[x] /\ \E k : cli' = [cli EXCEPT ![c] = k]
  BY <1>6, <1>7, <1>8, <1>9, ConsentForms
<1>11. cli'[d] = cli[d] BY <1>10, InvFacts
<1>12. QED BY <1>1, <1>10, <1>11

\* What a client's step leaves of the helpers, and what it then wants.
WantsRight(k) == \/ k.at \notin {"askInstall", "askVenv", "probe"}
                 \/ k.at # "probe" /\ k.want = Top
Asks(c) ==
    \/ \E k : cli' = [cli EXCEPT ![c] = k] /\ WantsRight(k)
    \/ \E at \in {"probe", "hello"}, phase \in Phases, rep \in BOOLEAN :
         \/ Launch(c, at, phase, rep, "hello") /\ (at = "probe" => phase = "first")
         \/ Launch(c, "probe", phase, rep, "install") /\ phase # "first"
            /\ cli[c].at \in {"askInstall", "askVenv"}

LEMMA StopAsks ==
    ASSUME RemoteInv, NEW c \in Clients, Stop(c) \/ Fails(c) \/ SendStart(c) PROVE Asks(c)
<1>1. PICK k \in ClientStates : k = cli[c] BY InvFacts
<1>2. \E m : cli' = [cli EXCEPT ![c] = m] /\ m.at \in {"done", "backoff", "status"}
  <2>1. PICK x, y, z : /\ x = [at |-> "done", h |-> None, phase |-> "first", want |-> 0,
                               painted |-> FALSE, late |-> FALSE]
                       /\ y = [k EXCEPT !.at = "backoff", !.h = None]
                       /\ z = [k EXCEPT !.at = "status", !.want = 0]
    OBVIOUS
  <2>2. x.at = "done" /\ y.at = "backoff" /\ z.at = "status" BY <2>1 DEF ClientStates
  <2>3. \/ cli' = [cli EXCEPT ![c] = x] \/ cli' = [cli EXCEPT ![c] = y]
        \/ cli' = [cli EXCEPT ![c] = z]
    BY <1>1, <2>1 DEF Stop, Fails, Backoff, SendStart, Update
  <2>4. QED BY <2>2, <2>3
<1>3. QED BY <1>2 DEF Asks, WantsRight

\* A client that asks its user to install wants what is right.
LEMMA WantAsks ==
    ASSUME RemoteInv, NEW c \in Clients, NEW at, NEW k \in ClientStates,
           cli' = [cli EXCEPT ![c] = k], k.at = at,
           at \in {"askInstall", "askVenv"} => k.want = Top, at # "probe"
    PROVE  Asks(c)
BY DEF Asks, WantsRight

LEMMA FollowAsks ==
    ASSUME VersionInvariant, NEW c \in Clients, cli[c].at \in {"probe", "askLocal"},
           Mine(c).said = "hello" \/ cli[c].at = "askLocal", Follow(c, Mine(c).pkg)
    PROVE  Asks(c)
<1>1. RemoteInv BY VersionInvFacts
<1>2. CASE Stop(c) \/ SendStart(c) BY <1>1, <1>2, StopAsks
<1>3. CASE Update(c, [cli[c] EXCEPT !.at = "askInstall", !.want = Wanted(Mine(c).pkg)])
  <2>1. Mine(c).pkg \in Package /\ cli[c].h \in Helpers BY <1>1, MineFacts
  <2>2. Wanted(Mine(c).pkg) = Top
    BY <2>1, NameFacts, VersionInvFacts DEF ToldOK, Mine
  <2>3. Top \in Versions BY <2>1, <2>2, WantedFacts
  <2>4. PICK k : k = Asked(c, "askInstall", Top) OBVIOUS
  <2>5. k \in ClientStates /\ k.at = "askInstall" /\ k.want = Top
    BY <2>3, <2>4, VersionInvFacts DEF ClientStates, Asked
  <2>6. cli' = [cli EXCEPT ![c] = k] BY <1>3, <2>2, <2>4 DEF Update, Asked
  <2>7. QED BY <1>1, <2>5, <2>6, WantAsks
<1>4. QED BY <1>2, <1>3 DEF Follow

LEMMA NoHelloAsks ==
    ASSUME VersionInvariant, NEW c \in Clients, NoHello(c) \/ HelloTimeout(c)
    PROVE  Asks(c)
<1>1. RemoteInv BY VersionInvFacts
<1>2. PICK k \in ClientStates : k = cli[c] BY VersionInvFacts
<1>3. k.at = "probe" /\ WantOK(k, helper, Top)
  BY <1>2, VersionInvFacts DEF NoHello, HelloTimeout, Is
<1>4. CASE Stop(c) BY <1>1, <1>4, StopAsks
<1>5. CASE k.phase = "user" /\ Update(c, [cli[c] EXCEPT !.at = "askVenv", !.h = None])
  <2>1. PICK m : m = [k EXCEPT !.at = "askVenv", !.h = None] OBVIOUS
  <2>2. m \in ClientStates /\ m.at = "askVenv" /\ m.want = Top
    BY <1>3, <1>5, <2>1 DEF WantOK, ClientStates
  <2>3. cli' = [cli EXCEPT ![c] = m] BY <1>2, <1>5, <2>1 DEF Update
  <2>4. QED BY <1>1, <2>2, <2>3, WantAsks
<1>6. CASE /\ NoHello(c) /\ k.phase = "first" /\ ~Mine(c).cut
           /\ Update(c, [cli[c] EXCEPT !.at = "askInstall", !.h = None, !.want = Local])
  <2>1. Mine(c).at = "ended" /\ Mine(c).said = "none"
    BY <1>6 DEF NoHello, Closed
  <2>2. Top = Local BY <1>2, <1>3, <1>6, <2>1 DEF WantOK, Probed, Mine
  <2>3. PICK m : m = [k EXCEPT !.at = "askInstall", !.h = None, !.want = Local] OBVIOUS
  <2>4. m \in ClientStates /\ m.at = "askInstall" /\ m.want = Top
    BY <2>2, <2>3, VersionFacts DEF ClientStates
  <2>5. cli' = [cli EXCEPT ![c] = m] BY <1>2, <1>6, <2>3 DEF Update
  <2>6. QED BY <1>1, <2>4, <2>5, WantAsks
<1>7. QED BY <1>2, <1>4, <1>5, <1>6 DEF NoHello, HelloTimeout

LEMMA ClientAsks ==
    ASSUME VersionInvariant, NEW c \in Clients,
           Setup(c) \/ ClientStep(c) \/ ClientMove(c) \/ Deadline(c)
    PROVE  Asks(c)
<1>1. RemoteInv BY VersionInvFacts
<1>2. PICK k \in ClientStates : k = cli[c] BY VersionInvFacts
<1>3. Stop(c) \/ Fails(c) \/ SendStart(c) => Asks(c) BY <1>1, StopAsks
<1>4. \A phase \in Phases : Again(c, phase) => Asks(c) BY DEF Again, Asks, Replaces
<1>5. ASSUME NEW m \in ClientStates, cli' = [cli EXCEPT ![c] = m],
             m.at \notin {"askInstall", "askVenv", "probe"}
      PROVE  Asks(c)
  BY <1>1, <1>5, WantAsks
<1>6. CASE Connect(c) BY <1>6 DEF Connect, Asks, Phases
<1>7. CASE ReadHello(c)
  <2>1. cli[c].at = "probe" /\ Mine(c).said = "hello" BY <1>7 DEF ReadHello, Is, Said
  <2>2. CASE Await(c, "askLocal")
    <3>1. PICK m : m = [k EXCEPT !.at = "askLocal"] OBVIOUS
    <3>2. m \in ClientStates /\ m.at = "askLocal" BY <3>1 DEF ClientStates
    <3>3. cli' = [cli EXCEPT ![c] = m] BY <1>2, <2>2, <3>1 DEF Await, Update
    <3>4. QED BY <1>5, <3>2, <3>3
  <2>3. QED BY <1>3, <1>7, <2>1, <2>2, FollowAsks DEF ReadHello
<1>8. CASE AnswerLocal(c)
  <2>1. cli[c].at = "askLocal" /\ (Stop(c) \/ Follow(c, Mine(c).pkg))
    BY <1>8 DEF AnswerLocal, Is
  <2>2. QED BY <1>3, <2>1, FollowAsks
<1>9. CASE AnswerInstall(c) \/ AnswerVenv(c)
  <2>1. cli[c].at \in {"askInstall", "askVenv"} BY <1>9 DEF AnswerInstall, AnswerVenv, Is
  <2>2. \A phase \in {"user", "venv"} : Launch(c, "probe", phase, FALSE, "install") => Asks(c)
    BY <2>1 DEF Asks, Phases
  <2>3. QED BY <1>3, <1>9, <2>2 DEF AnswerInstall, AnswerVenv
<1>10. CASE Rehello(c) \/ Refused(c) \/ Escape(c)
  BY <1>3, <1>10 DEF Rehello, Refused, Escape
<1>11. CASE Busy(c)
  <2>1. CASE Update(c, [cli[c] EXCEPT !.at = "askTakeover", !.h = None])
    <3>1. PICK m : m = [k EXCEPT !.at = "askTakeover", !.h = None] OBVIOUS
    <3>2. m \in ClientStates /\ m.at = "askTakeover" BY <3>1 DEF ClientStates
    <3>3. cli' = [cli EXCEPT ![c] = m] BY <1>2, <2>1, <3>1 DEF Update
    <3>4. QED BY <1>5, <3>2, <3>3
  <2>2. QED BY <1>3, <1>4, <1>11, <2>1 DEF Busy, Phases
<1>12. CASE AnswerTakeover(c) \/ Retry(c)
  BY <1>3, <1>4, <1>12 DEF AnswerTakeover, Retry, Phases
<1>13. CASE Accepted(c) \/ Lost(c)
  <2>1. PICK m, n : /\ m = [k EXCEPT !.at = "live", !.late = FALSE, !.phase = "first"]
                    /\ n = [k EXCEPT !.at = "backoff", !.phase = "auto", !.h = None]
    OBVIOUS
  <2>2. m \in ClientStates /\ m.at = "live" /\ n \in ClientStates /\ n.at = "backoff"
    BY <2>1 DEF ClientStates
  <2>3. Stop(c) \/ cli' = [cli EXCEPT ![c] = m] \/ cli' = [cli EXCEPT ![c] = n]
    BY <1>2, <1>13, <2>1 DEF Accepted, Lost, Update
  <2>4. QED BY <1>3, <1>5, <2>2, <2>3
<1>14. CASE Paint(c) \/ Deadline(c)
  <2>1. PICK m, n : /\ m = [k EXCEPT !.painted = TRUE] /\ n = [k EXCEPT !.late = TRUE]
    OBVIOUS
  <2>2. m \in ClientStates /\ m.at = k.at /\ n \in ClientStates /\ n.at = k.at
    BY <2>1 DEF ClientStates
  <2>3. k.at \in {"live", "backoff", "hello", "status"}
    BY <1>2, <1>14 DEF Paint, Deadline, Is
  <2>4. cli' = [cli EXCEPT ![c] = m] \/ cli' = [cli EXCEPT ![c] = n]
    BY <1>2, <1>14, <2>1 DEF Paint, Deadline, Update
  <2>5. QED BY <1>5, <2>2, <2>3, <2>4
<1>15. QED
  BY <1>6, <1>7, <1>8, <1>9, <1>10, <1>11, <1>12, <1>13, <1>14, NoHelloAsks
  DEF Setup, ClientStep, ClientMove, Attempt, Reconnect

\* The helpers after a client's step.
LEMMA WithoutTold ==
    ASSUME VersionInvariant, NEW c \in Clients, NEW hs, hs = Without(cli[c].h),
           NEW h \in Helpers
    PROVE  ToldOK(hs[h], Top)
<1>1. PICK a \in HelperStates : a = helper[h] BY VersionInvFacts
<1>2. ToldOK(a, Top) BY <1>1, VersionInvFacts
<1>3. CASE cli[c].h # h
  <2>1. hs[h] = a BY <1>1, <1>3, WithoutOK, VersionInvFacts
  <2>2. QED BY <1>2, <2>1
<1>4. CASE cli[c].h = h
  <2>1. h # None BY NameFacts
  <2>2. \/ hs = [helper EXCEPT ![h] = Free]
        \/ hs = [helper EXCEPT ![h] = [a EXCEPT !.cut = TRUE, !.said = "none",
                                                !.pkg = None]]
    BY <1>1, <1>4, <2>1 DEF Without
  <2>3. hs[h] = Free \/ hs[h] = [a EXCEPT !.cut = TRUE, !.said = "none", !.pkg = None]
    BY <2>2, VersionInvFacts
  <2>4. PICK r : r = hs[h] OBVIOUS
  <2>5. CASE r = Free BY <2>4, <2>5, FreeFields DEF ToldOK
  <2>6. CASE r = [a EXCEPT !.cut = TRUE, !.said = "none", !.pkg = None]
    <3>1. r.pkg = None /\ r.said = "none" /\ r.at = a.at /\ r.want = a.want
      BY <2>6 DEF HelperStates
    <3>2. ToldOK(r, Top) BY <1>2, <3>1 DEF ToldOK
    <3>3. QED BY <2>4, <3>2
  <2>7. QED BY <2>3, <2>4, <2>5, <2>6
<1>5. QED BY <1>3, <1>4

LEMMA KeepsTold ==
    ASSUME VersionInvariant, NEW c \in Clients, NEW h \in Helpers,
           KeepsOn(c) \/ Accepted(c)
    PROVE  ToldOK(helper'[h], Top)
<1>1. PICK a \in HelperStates : a = helper[h] BY VersionInvFacts
<1>2. ToldOK(a, Top) BY <1>1, VersionInvFacts
<1>3. \/ helper'[h] = a \/ helper'[h] = [a EXCEPT !.said = "none"]
      \/ helper'[h] = [a EXCEPT !.at = "go", !.said = "none", !.pkg = None]
  BY <1>1, VersionInvFacts DEF KeepsOn, Accepted
<1>4. PICK r : r = helper'[h] OBVIOUS
<1>5. CASE r = [a EXCEPT !.said = "none"]
  <2>1. r.pkg = a.pkg /\ r.said = "none" /\ r.at = a.at /\ r.want = a.want
    BY <1>5 DEF HelperStates
  <2>2. QED BY <1>2, <1>4, <2>1 DEF ToldOK
<1>6. CASE r = [a EXCEPT !.at = "go", !.said = "none", !.pkg = None]
  <2>1. r.pkg = None /\ r.said = "none" /\ r.at = "go" BY <1>6 DEF HelperStates
  <2>2. QED BY <1>4, <2>1 DEF ToldOK
<1>7. QED BY <1>2, <1>3, <1>4, <1>5, <1>6

LEMMA LaunchTold ==
    ASSUME VersionInvariant, NEW c \in Clients, NEW at, NEW phase, NEW rep, NEW first,
           Launch(c, at, phase, rep, first), first = "hello" \/ cli[c].want = Top
    PROVE  /\ \A h \in Helpers : ToldOK(helper'[h], Top)
           /\ cli'[c].at = at /\ cli'[c].phase = phase /\ cli'[c].want = cli[c].want
           /\ helper'[cli'[c].h].at = first
<1>1. PICK hs : hs = Without(cli[c].h) OBVIOUS
<1>2. PICK x : x = CHOOSE y \in Slot(hs) : TRUE OBVIOUS
<1>3. PICK k, r : k = [cli[c] EXCEPT !.at = at, !.phase = phase, !.h = x]
                  /\ r = Fresh(c, rep, first)
  OBVIOUS
<1>4. /\ Slot(hs) # {} /\ helper' = [hs EXCEPT ![x] = r]
      /\ cli' = [cli EXCEPT ![c] = k]
  BY <1>1, <1>2, <1>3, Zenon DEF Launch, Update
<1>5. x \in Helpers BY <1>2, <1>4 DEF Slot
<1>6. hs \in [Helpers -> HelperStates] BY <1>1, WithoutOK, VersionInvFacts
<1>7. r.pkg = None /\ r.said = "none" /\ r.at = first /\ r.want = cli[c].want
  BY <1>3 DEF Fresh, Free
<1>8. ToldOK(r, Top) BY <1>7 DEF ToldOK
<1>9. ASSUME NEW h \in Helpers PROVE ToldOK(helper'[h], Top)
  <2>1. helper'[h] = r \/ helper'[h] = hs[h] BY <1>4, <1>6
  <2>2. ToldOK(hs[h], Top) BY <1>1, WithoutTold
  <2>3. QED BY <1>8, <2>1, <2>2
<1>10. cli'[c] = k BY <1>4, VersionInvFacts
<1>11. k.at = at /\ k.phase = phase /\ k.h = x /\ k.want = cli[c].want
  BY <1>3, VersionInvFacts DEF ClientStates
<1>12. helper'[x] = r BY <1>4, <1>5, <1>6
<1>13. QED BY <1>7, <1>9, <1>10, <1>11, <1>12

LEMMA ClientVersion ==
    ASSUME VersionInvariant, NEW c \in Clients,
           Setup(c) \/ ClientStep(c) \/ ClientMove(c) \/ Deadline(c)
    PROVE  VersionInvariant' /\ pkg' = pkg
<1>1. RemoteInv /\ RemoteInv' BY ClientInv, VersionInvFacts
<1>2. pkg' = pkg /\ Top' = Top
  BY DEF Setup, Connect, ReadHello, NoHello, HelloTimeout, AnswerLocal, AnswerInstall,
     AnswerVenv, ClientStep, Attempt, Reconnect, Rehello, Accepted, Busy, Refused, Lost,
     Retry, ClientMove, Deadline, AnswerTakeover, Paint, Escape, Top
<1>3. ASSUME NEW d \in Clients, d # c PROVE WantOK(cli'[d], helper', Top)
  <2>1. WantOK(cli[d], helper, Top) /\ ClientOK(d, cli[d]) BY VersionInvFacts
  <2>2. CASE cli[d].h = None
    <3>1. \E k : cli' = [cli EXCEPT ![c] = k]
      BY <1>1, ConsentForms DEF Ends, KeepsOn, Accepted, Launches, Launch, Update
    <3>2. cli'[d] = cli[d] BY <1>3, <3>1, VersionInvFacts
    <3>3. cli[d].at # "probe" BY <2>1, <2>2 DEF ClientOK
    <3>4. QED BY <2>1, <3>2, <3>3 DEF WantOK
  <2>3. CASE cli[d].h # None
    <3>1. cli'[d] = cli[d] /\ helper'[cli[d].h] = helper[cli[d].h]
      BY <1>1, <1>3, <2>3, OwnHelperOnly
    <3>2. QED BY <2>1, <3>1 DEF WantOK
  <2>4. QED BY <2>2, <2>3
<1>4. ASSUME NEW k, cli' = [cli EXCEPT ![c] = k], WantsRight(k)
      PROVE  /\ WantOK(cli'[c], helper', Top)
             /\ \A h \in Helpers : ToldOK(helper'[h], Top)
  <2>1. cli'[c] = k BY <1>4, VersionInvFacts
  <2>2. WantOK(k, helper', Top) BY <1>4 DEF WantsRight, WantOK
  <2>3. ASSUME Launches(c) PROVE \A h \in Helpers : ToldOK(helper'[h], Top)
    <3>1. PICK at \in {"probe", "hello"}, phase \in Phases, rep \in BOOLEAN,
               first \in {"hello", "install"} :
               Launch(c, at, phase, rep, first) /\ (at = "hello" => first = "hello")
      BY <2>3 DEF Launches
    <3>2. k.at = at
      <4>1. \E x : cli' = [cli EXCEPT ![c] = [cli[c] EXCEPT !.at = at, !.phase = phase,
                                                             !.h = x]]
        BY <3>1 DEF Launch, Update
      <4>2. PICK m, x : /\ cli' = [cli EXCEPT ![c] = m]
                        /\ m = [cli[c] EXCEPT !.at = at, !.phase = phase, !.h = x]
        BY <4>1
      <4>3. cli'[c] = m BY <4>2, VersionInvFacts
      <4>4. m.at = at BY <4>2, VersionInvFacts DEF ClientStates
      <4>5. QED BY <2>1, <4>3, <4>4
    <3>3. at = "hello" BY <1>4, <3>1, <3>2 DEF WantsRight
    <3>4. QED BY <3>1, <3>3, LaunchTold
  <2>4. ASSUME Ends(c), NEW h \in Helpers PROVE ToldOK(helper'[h], Top)
    BY <2>4, WithoutTold DEF Ends
  <2>5. QED BY <1>1, <2>1, <2>2, <2>3, <2>4, ConsentForms, KeepsTold
<1>5. ASSUME NEW at \in {"probe", "hello"}, NEW phase \in Phases, NEW rep \in BOOLEAN,
             Launch(c, at, phase, rep, "hello"), at = "probe" => phase = "first"
      PROVE  /\ WantOK(cli'[c], helper', Top)
             /\ \A h \in Helpers : ToldOK(helper'[h], Top)
  <2>1. PICK first : first = "hello" OBVIOUS
  <2>2. /\ \A h \in Helpers : ToldOK(helper'[h], Top)
        /\ cli'[c].at = at /\ cli'[c].phase = phase /\ helper'[cli'[c].h].at = first
    BY <1>5, <2>1, LaunchTold
  <2>3. QED BY <1>5, <2>1, <2>2 DEF WantOK, Probed
<1>6. ASSUME NEW phase \in Phases, NEW rep \in BOOLEAN,
             Launch(c, "probe", phase, rep, "install"), phase # "first",
             cli[c].at \in {"askInstall", "askVenv"}
      PROVE  /\ WantOK(cli'[c], helper', Top)
             /\ \A h \in Helpers : ToldOK(helper'[h], Top)
  <2>1. cli[c].want = Top BY <1>6, VersionInvFacts DEF WantOK
  <2>2. /\ \A h \in Helpers : ToldOK(helper'[h], Top)
        /\ cli'[c].at = "probe" /\ cli'[c].phase = phase /\ cli'[c].want = cli[c].want
    BY <1>6, <2>1, LaunchTold
  <2>3. QED BY <1>6, <2>1, <2>2 DEF WantOK
<1>7. /\ WantOK(cli'[c], helper', Top)
      /\ \A h \in Helpers : ToldOK(helper'[h], Top)
  BY <1>4, <1>5, <1>6, ClientAsks DEF Asks
<1>8. Outdated(pkg') BY <1>2, VersionInvFacts
<1>9. QED BY <1>1, <1>2, <1>3, <1>7, <1>8 DEF VersionInvariant

LEMMA HelperVersion ==
    ASSUME VersionInvariant, NEW g \in Helpers, HelperStep(g)
    PROVE  VersionInvariant' /\ pkg'.ver >= pkg.ver
<1>1. RemoteInv' BY HelperInv, VersionInvFacts
<1>2. cli' = cli
  BY DEF HelperStep, Install, Hello, NoStart, Ensure, Starting, FirstSweep, Lock,
     Validate, Attach, Accept, Discover, SoftCheck, Classify, InputEnds, Watchdog
<1>3. Outdated(pkg') /\ Top' = Top /\ pkg'.ver >= pkg.ver
  <2>1. CASE Install(g) BY <2>1, InstallTop
  <2>2. CASE pkg' = pkg
    <3>1. pkg.ver \in Int
      <4>1. PICK p \in Package : p = pkg BY VersionInvFacts
      <4>2. QED BY <4>1, VersionAssumption DEF Package, Versions
    <3>2. QED BY <2>2, <3>1, VersionInvFacts DEF Top
  <2>3. QED
    BY <2>1, <2>2
    DEF HelperStep, Hello, NoStart, Ensure, Starting, FirstSweep, Lock, Validate, Attach,
        Accept, Discover, SoftCheck, Classify, InputEnds, Watchdog
<1>4. ASSUME NEW h \in Helpers
      PROVE  /\ ToldOK(helper'[h], Top)
             /\ \A c \in Clients : cli[c].h = h /\ Probed(helper[h], Top)
                                   => Probed(helper'[h], Top)
  <2>1. CASE h # g
    <3>1. helper'[h] = helper[h] BY <2>1, OneSteps, VersionInvFacts
    <3>2. QED BY <3>1, VersionInvFacts
  <2>2. CASE h = g
    <3>1. CASE helper'[h] = Free
      <4>1. ToldOK(helper'[h], Top) BY <3>1, FreeFields DEF ToldOK
      <4>2. \A c \in Clients : cli[c].h # h
        <5>1. ASSUME NEW c \in Clients, cli[c].h = h PROVE FALSE
          <6>1. ClientOK(c, cli[c])' BY <1>1, InvFacts DEF RemoteInv
          <6>2. QED BY <1>2, <3>1, <5>1, <6>1, FreeFields, NameFacts DEF ClientOK
        <5>2. QED BY <5>1
      <4>3. QED BY <4>1, <4>2
    <3>2. CASE /\ ToldOK(helper'[h], Top)
               /\ Probed(helper[h], Top) /\ cli[helper[h].own].h = h
                    => Probed(helper'[h], Top)
      <4>1. \A c \in Clients : cli[c].h = h => helper[h].own = c
        BY VersionInvFacts, NameFacts DEF ClientOK
      <4>2. QED BY <3>2, <4>1
    <3>3. QED BY <2>2, <3>1, <3>2, OwnTells
  <2>3. QED BY <2>1, <2>2
<1>5. ASSUME NEW c \in Clients PROVE WantOK(cli[c], helper', Top)
  <2>1. WantOK(cli[c], helper, Top) /\ ClientOK(c, cli[c]) /\ cli[c] \in ClientStates
    BY VersionInvFacts
  <2>2. cli[c].at = "probe" => cli[c].h \in Helpers
    BY <2>1 DEF ClientOK, ClientStates
  <2>3. QED BY <1>4, <2>1, <2>2 DEF WantOK
<1>6. QED BY <1>1, <1>2, <1>3, <1>4, <1>5 DEF VersionInvariant

\* The package, what a helper has read, and its place stay.
SameTold(a, r) ==
    /\ r.pkg = a.pkg \/ r.pkg = None
    /\ r.at = a.at /\ r.want = a.want /\ (a.cut => r.cut)
    /\ r.said = a.said \/ (r.said = "none" /\ r.cut)
LEMMA SameVersion ==
    ASSUME VersionInvariant, RemoteInv', cli' = cli, pkg' = pkg,
           \A h \in Helpers : SameTold(helper[h], helper'[h])
    PROVE  VersionInvariant' /\ pkg'.ver >= pkg.ver
<1>1. Top' = Top BY DEF Top
<1>2. \A h \in Helpers : ToldOK(helper'[h], Top)
  BY VersionInvFacts DEF ToldOK, SameTold
<1>3. ASSUME NEW c \in Clients PROVE WantOK(cli[c], helper', Top)
  <2>1. WantOK(cli[c], helper, Top) /\ ClientOK(c, cli[c]) /\ cli[c] \in ClientStates
    BY VersionInvFacts
  <2>2. cli[c].at = "probe" => cli[c].h \in Helpers
    BY <2>1 DEF ClientOK, ClientStates
  <2>3. QED BY <2>1, <2>2 DEF WantOK, Probed, SameTold
<1>4. pkg.ver \in Int
  <2>1. PICK p \in Package : p = pkg BY VersionInvFacts
  <2>2. QED BY <2>1, VersionAssumption DEF Package, Versions
<1>5. QED BY <1>1, <1>2, <1>3, <1>4, VersionInvFacts DEF VersionInvariant

LEMMA CutVersion ==
    ASSUME VersionInvariant, NEW g \in Helpers, Cut(g)
    PROVE  VersionInvariant' /\ pkg'.ver >= pkg.ver
<1>1. RemoteInv' /\ cli' = cli /\ pkg' = pkg BY CutInv, VersionInvFacts DEF Cut
<1>2. ASSUME NEW h \in Helpers PROVE SameTold(helper[h], helper'[h])
  <2>1. PICK a \in HelperStates : a = helper[h] BY VersionInvFacts
  <2>2. helper'[h] = a \/ helper'[h] = [a EXCEPT !.cut = TRUE, !.said = "none"]
    BY <2>1, VersionInvFacts DEF Cut
  <2>3. QED BY <2>1, <2>2 DEF SameTold, HelperStates
<1>3. QED BY <1>1, <1>2, SameVersion

LEMMA HostVersion ==
    ASSUME VersionInvariant,
           \/ App \/ SoftQuit \/ HardQuit \/ Crash \/ Expire \/ LocalLaunch
           \/ LocalEnd \/ LocalWatchdog \/ UserDetaches \/ LegacyEnds
           \/ UNCHANGED vars
    PROVE  VersionInvariant' /\ pkg'.ver >= pkg.ver
<1>1. /\ cli' = cli
      /\ \A h \in Helpers : \E y : helper'[h] = [helper[h] EXCEPT !.ended = y]
  BY AppHost, VersionInvFacts
<1>2. pkg' = pkg
  BY DEF App, Ready, Teardown, Exit, HardIntent, HardKill, SoftQuit, HardQuit, Crash,
     Expire, LocalLaunch, LocalEnd, LocalWatchdog, UserDetaches, LegacyEnds, vars
<1>3. RemoteInv' BY NextInv, VersionInvFacts DEF Next
<1>4. ASSUME NEW h \in Helpers PROVE SameTold(helper[h], helper'[h])
  <2>1. PICK a \in HelperStates : a = helper[h] BY VersionInvFacts
  <2>2. PICK y : helper'[h] = [a EXCEPT !.ended = y] BY <1>1, <2>1
  <2>3. QED BY <2>1, <2>2 DEF SameTold, HelperStates
<1>5. QED BY <1>1, <1>2, <1>3, <1>4, SameVersion

LEMMA VersionInit ==
    ASSUME \A p \in Packages : Outdated(p), Init
    PROVE  VersionInvariant
<1>1. RemoteInv /\ Outdated(pkg) BY InitInv DEF Init
<1>2. ASSUME NEW h \in Helpers PROVE ToldOK(helper[h], Top)
  <2>1. helper[h] = Free \/ \E c \in Shown : helper[h] = Serving(c) BY Zenon DEF Init
  <2>2. ASSUME NEW c \in Shown, helper[h] = Serving(c)
        PROVE  helper[h].said = "none" /\ helper[h].at = "serve" /\ helper[h].pkg = None
    BY <2>2 DEF Serving, Free
  <2>3. QED BY <2>1, <2>2, FreeFields DEF ToldOK
<1>3. ASSUME NEW c \in Clients PROVE WantOK(cli[c], helper, Top)
  <2>1. cli[c].at \in {"live", "idle"} BY DEF Init
  <2>2. QED BY <2>1 DEF WantOK
<1>4. QED BY <1>1, <1>2, <1>3 DEF VersionInvariant

LEMMA VersionNext ==
    ASSUME VersionInvariant, [Next]_vars PROVE VersionInvariant' /\ pkg'.ver >= pkg.ver
<1>1. CASE \E h \in Helpers : HelperStep(h) \/ Cut(h)
  BY <1>1, HelperVersion, CutVersion
<1>2. CASE \E c \in Clients : Setup(c) \/ ClientStep(c) \/ ClientMove(c) \/ Deadline(c)
  <2>1. VersionInvariant' /\ pkg' = pkg BY <1>2, ClientVersion
  <2>2. PICK p \in Package : p = pkg BY VersionInvFacts
  <2>3. p.ver \in Int BY VersionAssumption DEF Package, Versions
  <2>4. QED BY <2>1, <2>2, <2>3
<1>3. CASE \/ App \/ SoftQuit \/ HardQuit \/ Crash \/ Expire \/ LocalLaunch
           \/ LocalEnd \/ LocalWatchdog \/ UserDetaches \/ LegacyEnds \/ UNCHANGED vars
  BY <1>3, HostVersion
<1>4. QED BY <1>1, <1>2, <1>3 DEF Next

\* Setting up the remote side never lowers the version that is there, when a package
\* newer than the clients' can say hello: also when it is repaired, is half installed by
\* a client that went away, or is installed by several at once (prepare_remote_process).
THEOREM NeverDowngrades ==
    ASSUME \A p \in Packages : p.ver > Local => p.hello
    PROVE  Spec => NoDowngrade
<1>1. Init => VersionInvariant BY VersionInit DEF Outdated
<1>2. VersionInvariant /\ [Next]_vars => VersionInvariant' /\ pkg'.ver >= pkg.ver
  BY VersionNext
<1>3. VersionInvariant /\ [Next]_vars => [pkg'.ver >= pkg.ver]_vars BY <1>2
<1>4. Spec => []VersionInvariant BY <1>1, <1>2, PTL DEF Spec
<1>5. QED BY <1>3, <1>4, PTL DEF Spec, NoDowngrade
==============================================================================
