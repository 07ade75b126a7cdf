----------------------------- MODULE RdpSession -----------------------------
(***************************************************************************)
(* One RDP session of the client from ConnectRDP to cleanupRDP, its tab in *)
(* the user interface, and the clipboard it offers the remote computer     *)
(* (client/rdp.go, client/frontend/src/App.tsx).  The picture is in        *)
(* RdpRender.                                                              *)
(*                                                                         *)
(* Three goroutines use the record: the one ConnectRDP starts for Login,   *)
(* the reader of the engine, which calls the handlers and the clipboard    *)
(* one after the other, and the calls of the user interface.  They share   *)
(* the variable st of ConnectRDP without a lock: a handler sets it, and    *)
(* what it then emits is what st holds by then.  Events may overtake each  *)
(* other, as in SshSession.                                                *)
(*                                                                         *)
(* The remote computer may ask for any file at any time; only the request  *)
(* that reaches the end of a file matters.  A text on the clipboard is as  *)
(* good as none, the format for text is always announced.                  *)
(***************************************************************************)
EXTENDS Naturals, FiniteSets, SequencesExt

CONSTANTS MaxFiles,   \* bound on the files and directories staged at once, 512
          MaxStagings,\* bound on calls that stage something
          MaxReady    \* bound on the events "ready" and "success" of the engine

VARIABLES rec,      \* s.rdps[id]: none yet, open, or gone
          st,       \* the status in st
          login,    \* the goroutine that calls Login
          eng,      \* the goroutine of the engine
          ready,    \* events "ready" and "success" so far
          conn,     \* the connection of the engine
          closing,  \* a cleanupRDP that has removed the record and has yet to end
          resp,     \* the status in what ConnectRDP has returned
          statuses, \* events on their way to the user interface
          tab,      \* status of the session in the list of the user interface
          clip,     \* clipFiles and clipDone
          stagings, \* calls that have staged something so far
          refresh,  \* how many of them have yet to call RefreshClipboard
          channel,  \* the clipboard channel is ready
          offered,  \* the format list sent last has files
          late,     \* history: a status has overtaken another, or found no tab
          missed    \* history: Close has found no connection

life   == <<rec, login, ready, conn, closing, missed>>
shown  == <<resp, statuses, tab, late>>
clipbd == <<clip, stagings, refresh, channel, offered>>
vars   == <<st, eng, life, shown, clipbd>>

Files == 1..MaxFiles

\* Once cleared, or with a text, size is 0.  served is history, and so is stale: the
\* files whose bytes the remote computer has got, and those that are done because
\* the end of a file staged before was reported too late.
Clip == [n : 0..MaxStagings, size : 0..MaxFiles, done : SUBSET Files,
         served : SUBSET Files, stale : SUBSET Files]

\* The handlers, and the callback for file index, of the n-th staging.
Engine == [pc : {"none", "idle", "emit", "error", "close", "served", "refresh", "ended"},
           index : 0..MaxFiles, n : 0..MaxStagings]

At(pc) == [pc |-> pc, index |-> 0, n |-> 0]
Nothing == [n |-> stagings, size |-> 0, done |-> {}, served |-> {}, stale |-> {}]

ASSUME RdpAssumption == {MaxFiles, MaxStagings, MaxReady} \subseteq Nat

-----------------------------------------------------------------------------
(* The session *)

Emit(status) == statuses' = Append(statuses, status)

ConnectRDP ==
  /\ rec = "none"
  /\ rec' = "open" /\ st' = "connecting" /\ login' = "dial"
  /\ Emit("connecting")
  /\ UNCHANGED <<eng, ready, conn, closing, missed, resp, tab, late, clipbd>>

\* Faulty variant: whether there was a record is not looked at.
cleanupAgain(how) ==
  /\ rec' = "gone"
  /\ closing' = how

\* cleanupRDP takes the record out of the map; who finds none has nothing to do.
cleanupRDP(how) ==
  /\ rec' = "gone"
  /\ closing' = IF rec = "open" THEN how ELSE closing

\* Faulty variant: the connection is left to itself.
CleanupEndsOpen ==
  /\ closing # "none"
  /\ closing' = "none"
  /\ UNCHANGED <<conn, missed>>
  /\ IF closing = "emit" THEN Emit("closed") ELSE UNCHANGED statuses
  /\ UNCHANGED <<st, eng, rec, login, ready, resp, tab, late, clipbd>>

\* The rest of cleanupRDP.  Close does nothing unless Login has connected.
CleanupEnds ==
  /\ closing # "none"
  /\ closing' = "none"
  /\ conn' = IF conn = "open" THEN "closed" ELSE conn
  /\ missed' = (missed \/ conn = "none")
  /\ IF closing = "emit" THEN Emit("closed") ELSE UNCHANGED statuses
  /\ UNCHANGED <<st, eng, rec, login, ready, resp, tab, late, clipbd>>

\* Login has a connection, and the engine starts to read.
Dial ==
  /\ login = "dial"
  /\ login' = "connect" /\ conn' = "open" /\ eng' = At("idle")
  /\ UNCHANGED <<st, rec, ready, closing, missed, shown, clipbd>>

LoginFails ==
  /\ login \in {"dial", "connect"}
  /\ login' = "failed"
  /\ cleanupRDP("quiet")
  /\ UNCHANGED <<st, eng, ready, conn, missed, shown, clipbd>>

EmitLoginError ==
  /\ login = "failed" /\ closing # "quiet"
  /\ login' = "done"
  /\ st' = "error" /\ Emit("error")
  /\ UNCHANGED <<eng, rec, ready, conn, closing, missed, resp, tab, late, clipbd>>

\* markConnected sets st, and emits it.
LoginReturns ==
  /\ login = "connect"
  /\ login' = "emit" /\ st' = "connected"
  /\ UNCHANGED <<eng, rec, ready, conn, closing, missed, shown, clipbd>>

EmitConnected ==
  /\ login = "emit"
  /\ login' = "done" /\ Emit(st)
  /\ UNCHANGED <<st, eng, rec, ready, conn, closing, missed, resp, tab, late, clipbd>>

OnReady ==
  /\ eng.pc = "idle" /\ conn = "open" /\ ready < MaxReady
  /\ ready' = ready + 1 /\ eng' = At("emit") /\ st' = "connected"
  /\ UNCHANGED <<rec, login, conn, closing, missed, shown, clipbd>>

EmitReady ==
  /\ eng.pc = "emit"
  /\ eng' = At("idle") /\ Emit(st)
  /\ UNCHANGED <<st, life, resp, tab, late, clipbd>>

\* The connection breaks, or has been closed.
OnError ==
  /\ eng.pc = "idle"
  /\ eng' = At("error") /\ st' = "error"
  /\ UNCHANGED <<life, shown, clipbd>>

EmitError ==
  /\ eng.pc = "error"
  /\ eng' = At("close") /\ Emit(st)
  /\ UNCHANGED <<st, life, resp, tab, late, clipbd>>

\* OnClose, or the end of OnError
OnClose ==
  /\ eng.pc \in {"idle", "close"}
  /\ eng' = At("ended")
  /\ cleanupRDP("emit")
  /\ UNCHANGED <<st, login, ready, conn, missed, shown, clipbd>>

-----------------------------------------------------------------------------
(* The tab *)

Listed == tab \notin {"none", "dropped"}

\* ConnectRDP returns a copy of st, which the goroutine it has started writes.
Return ==
  /\ rec # "none" /\ resp = "none"
  /\ resp' = st
  /\ UNCHANGED <<st, eng, life, statuses, tab, late, clipbd>>

connectRDP ==
  /\ resp # "none" /\ tab = "none"
  /\ tab' = resp
  /\ UNCHANGED <<st, eng, life, resp, statuses, late, clipbd>>

\* The list without a session that is closed, or with the status of one that is not.
After(status) == IF status = "closed" THEN "dropped" ELSE status

\* Faulty variant: a status adds a session that is not listed.
StatusAdds(status) == tab' = IF tab = "none" THEN tab ELSE After(status)

\* The event handler: a closed session is dropped, one that is not listed ignored.
StatusArrives(status) == tab' = IF Listed THEN After(status) ELSE tab

Deliver(i) ==
  /\ StatusArrives(statuses[i])
  /\ statuses' = RemoveAt(statuses, i)
  /\ late' = (late \/ i # 1 \/ (tab = "none" /\ statuses[i] # "connecting"))
  /\ UNCHANGED <<st, eng, life, resp, clipbd>>

\* closeRDP: CloseRDP, then dropRDPClientSession.  So do a new connection to the
\* same host and a new size of the window, before they connect again.
closeRDP ==
  /\ Listed
  /\ cleanupRDP("emit")
  /\ tab' = "dropped"
  /\ UNCHANGED <<st, eng, login, ready, conn, missed, resp, statuses, late, clipbd>>

\* RDPMouse, RDPKey and RDPTypeText find no session: rdpMissingOrSet drops the tab.
InputFails ==
  /\ Listed /\ rec = "gone"
  /\ tab' = "dropped"
  /\ UNCHANGED <<st, eng, life, resp, statuses, late, clipbd>>

-----------------------------------------------------------------------------
(* The clipboard *)

\* Under clipMu; the format list follows outside of it.
Stage(new) ==
  /\ rec = "open" /\ Listed /\ stagings < MaxStagings
  /\ stagings' = stagings + 1 /\ refresh' = refresh + 1
  /\ clip' = new
  /\ UNCHANGED <<st, eng, life, shown, channel, offered>>

\* clipDone stays as it is, which nothing can tell: without files it is not looked at.
RDPStageClipboardText == Stage([Nothing EXCEPT !.n = stagings + 1])

\* Faulty variant: what is done of the files staged before counts.
StageKeepsDone(size, dirs) ==
  Stage([Nothing EXCEPT !.n = stagings + 1, !.size = size, !.done = dirs \cup clip.done,
                        !.served = dirs])

\* A directory has no bytes to wait for.
RDPStageClipboardFiles(size, dirs) ==
  Stage([Nothing EXCEPT !.n = stagings + 1, !.size = size, !.done = dirs, !.served = dirs])

\* RefreshLocalClipboard, once Login has made the channel and the server is ready for
\* it; the provider reads what is staged.
Announce == offered' = IF channel THEN clip.size > 0 ELSE offered

RefreshClipboard ==
  /\ refresh > 0
  /\ refresh' = refresh - 1
  /\ Announce
  /\ UNCHANGED <<st, eng, life, shown, clip, stagings, channel>>

\* Monitor Ready, and with the channel ready a format list of the remote computer,
\* is answered with a format list.
MonitorReady ==
  /\ eng.pc = "idle" /\ conn = "open"
  /\ channel' = TRUE /\ offered' = (clip.size > 0)
  /\ UNCHANGED <<st, eng, life, shown, clip, stagings, refresh>>

\* sendFileContentsResponse sends the end of a file.
Serve(i) ==
  /\ eng.pc = "idle" /\ conn = "open" /\ channel
  /\ i <= clip.size
  /\ clip' = [clip EXCEPT !.served = @ \cup {i}]
  /\ eng' = [pc |-> "served", index |-> i, n |-> clip.n]
  /\ UNCHANGED <<st, life, shown, stagings, refresh, channel, offered>>

\* Faulty variant: the remote computer still has the files.
ServedQuietly(marked) ==
  LET clear == Cardinality(marked.done) >= marked.size
  IN  /\ clip' = IF clear THEN Nothing ELSE marked
      /\ eng' = At("idle")

\* All files are done: they are removed, and the format list is sent again.
Clear(marked) ==
  LET clear == Cardinality(marked.done) >= marked.size
  IN  /\ clip' = IF clear THEN Nothing ELSE marked
      /\ eng' = At(IF clear THEN "refresh" ELSE "idle")

\* The callback that ConnectRDP has set.  It knows the index only.
FileServed ==
  /\ eng.pc = "served"
  /\ IF eng.index <= clip.size
     THEN Clear([clip EXCEPT !.done = @ \cup {eng.index},
                             !.stale = IF eng.n = clip.n THEN @ ELSE @ \cup {eng.index}])
     ELSE eng' = At("idle") /\ UNCHANGED clip
  /\ UNCHANGED <<st, life, shown, stagings, refresh, channel, offered>>

RefreshServed ==
  /\ eng.pc = "refresh"
  /\ eng' = At("idle")
  /\ Announce
  /\ UNCHANGED <<st, life, shown, clip, stagings, refresh, channel>>

-----------------------------------------------------------------------------
Init ==
  /\ rec = "none" /\ st = "none" /\ login = "none" /\ eng = At("none") /\ ready = 0
  /\ conn = "none" /\ closing = "none" /\ missed = FALSE
  /\ resp = "none" /\ statuses = <<>> /\ tab = "none" /\ late = FALSE
  /\ clip = [n |-> 0, size |-> 0, done |-> {}, served |-> {}, stale |-> {}]
  /\ stagings = 0 /\ refresh = 0 /\ channel = FALSE /\ offered = FALSE

Next ==
  \/ ConnectRDP \/ Dial \/ LoginFails \/ EmitLoginError
  \/ LoginReturns \/ EmitConnected
  \/ OnReady \/ EmitReady \/ OnError \/ EmitError \/ OnClose \/ CleanupEnds
  \/ Return \/ connectRDP \/ closeRDP \/ InputFails
  \/ \E i \in DOMAIN statuses : Deliver(i)
  \/ RDPStageClipboardText
  \/ \E size \in 1..MaxFiles : \E dirs \in SUBSET (1..size) : RDPStageClipboardFiles(size, dirs)
  \/ RefreshClipboard \/ MonitorReady \/ RefreshServed \/ FileServed
  \/ \E i \in Files : Serve(i)

Spec == Init /\ [][Next]_vars

-----------------------------------------------------------------------------
(* Properties *)

Status == {"connecting", "connected", "error"}

\* Everything is of its type, and a session is said to be closed at most once, by the
\* cleanupRDP that has found the record.
TypeOK ==
  /\ rec \in {"none", "open", "gone"} /\ st \in Status \cup {"none"}
  /\ login \in {"none", "dial", "connect", "emit", "failed", "done"}
  /\ eng \in Engine /\ ready \in 0..MaxReady
  /\ conn \in {"none", "open", "closed"} /\ closing \in {"none", "emit", "quiet"}
  /\ resp \in Status \cup {"none"} /\ tab \in Status \cup {"none", "dropped"}
  /\ statuses \in Seq(Status \cup {"closed"})
  /\ Cardinality({i \in DOMAIN statuses : statuses[i] = "closed"}) <= 1
  /\ clip \in Clip /\ stagings \in 0..MaxStagings /\ refresh \in 0..stagings
  /\ {channel, offered, late, missed} \subseteq BOOLEAN

\* Nothing is left to be done.
Quiet == /\ tab # "none" /\ statuses = <<>> /\ closing = "none" /\ login = "done"
         /\ eng.pc \in {"none", "idle", "ended"}

\* The goroutines of a session write its status without a lock, "connected" may be
\* emitted after "closed", and the tab may be listed after the session has ended.
\* Once the events have been delivered, in their order and none before the tab was
\* listed, a session that lives is shown as connected and one that has ended is
\* dropped, or shows why it could not be connected.
StatusIsTrue ==
  Quiet /\ ~late => tab \in IF rec = "open" THEN {"connected"} ELSE {"error", "dropped"}

\* cleanupRDP closes a session once, whichever goroutine gets there first.  A session
\* without record has no connection, unless it was closed before Login had one.
NothingLeftOpen ==
  conn = "open" /\ rec = "gone" /\ closing = "none" => missed

\* What is staged changes under clipMu and is announced outside of it, by goroutines
\* that overtake each other; the format list always ends up as what is staged.
OffersWhatIsStaged ==
  channel /\ refresh = 0 /\ eng.pc # "refresh" => offered = (clip.size > 0)

\* "File clipboard is cleared after remote consumes all files" (rdp_test.go:539), and
\* so it is unless the end of a file staged before was reported after the staging.
ClearedWhenServed ==
  [][clip.n = clip'.n /\ clip.size > 0 /\ clip'.size = 0
     => 1..clip.size \subseteq clip.served \cup clip.stale \cup
          (IF eng.n = clip.n THEN {} ELSE {eng.index})]_vars
=============================================================================
