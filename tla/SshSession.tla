----------------------------- MODULE SshSession ------------------------------
(***************************************************************************)
(* One SSH session of the client, from the output of the remote shell to   *)
(* the terminal on the screen: ConnectSSHWithSize, the two readers, the    *)
(* output pump and cleanupSSH of client/appservice.go, and the sequence    *)
(* buffer of client/frontend/src/App.tsx.                                  *)
(*                                                                         *)
(* A chunk is what one Read returned: its stream and its number there.     *)
(* The line "connected: ..." is a chunk of its own stream, which the call  *)
(* of ConnectSSHWithSize writes like a reader.  The pump gathers chunks    *)
(* into numbered payloads, which reach the user interface as events; it    *)
(* reckons with events overtaking each other, and so does the model.  A    *)
(* payload that has been sent is known by its number.                      *)
(***************************************************************************)
EXTENDS Naturals, SequencesExt

CONSTANTS Outputs,     \* the streams of the remote shell: stdout and stderr
          Banner,      \* the stream of the line "connected: ..."
          MaxChunks,   \* bound on the chunks of each remote stream
          OutCap,      \* capacity of the channel out, 256
          FlushAt,     \* chunks the pump gathers at most, for 65536 bytes
          PendingCap   \* payloads kept for a terminal not mounted yet, 512

VARIABLES call,     \* how far ConnectSSHWithSize has come
          rec,      \* s.ssh[id]: none yet, open, or gone
          exited,   \* the remote shell has ended
          closing,  \* a cleanupSSH that has yet to emit "closed"
          made,     \* chunks read, of each stream
          reader,   \* where the goroutine that writes each stream is
          out,      \* the channel to the pump
          done,     \* the channel done is closed
          buf,      \* the pump's buffer
          payloads, \* what the pump has sent, by sequence number
          pump,     \* whether the pump runs
          events,   \* payloads on their way to the user interface
          statuses, \* session states on their way
          tab,      \* status of the session in the list of the user interface
          term,     \* the TerminalRecord: none yet, mounted or disposed
          pending,  \* pendingTermBuffers[id]
          expected, seqBuffer, gapTimer, \* of the TerminalRecord
          shown     \* what was written to the terminal

backend == <<call, rec, exited, closing, made, reader, out, done, buf, payloads, pump>>
ui      == <<tab, term, pending, expected, seqBuffer, gapTimer, shown>>
sshVars == <<backend, events, statuses, ui>>

Streams == Outputs \cup {Banner}
Limit(s) == IF s = Banner THEN 1 ELSE MaxChunks
Chunk    == [stream : Streams, n : 1..MaxChunks]

Reset == 0   \* what term.reset() leaves on the screen; no payload has this number

ASSUME SshAssumption ==
  /\ Banner \notin Outputs /\ Reset \notin Streams
  /\ {MaxChunks, OutCap, FlushAt, PendingCap} \subseteq Nat \ {0}

-----------------------------------------------------------------------------
SshInit ==
  /\ call = "dial" /\ rec = "none" /\ exited = FALSE /\ closing = FALSE
  /\ made = [s \in Streams |-> 0] /\ reader = [s \in Streams |-> "read"]
  /\ out = <<>> /\ done = FALSE /\ buf = <<>> /\ payloads = <<>> /\ pump = "none"
  /\ events = {} /\ statuses = {}
  /\ tab = "none" /\ term = "none"
  /\ pending = <<>> /\ expected = 1 /\ seqBuffer = {} /\ gapTimer = FALSE /\ shown = <<>>

(* ConnectSSHWithSize *)

\* The connection stands: the record is entered, pump and readers start.
Register ==
  /\ call = "dial"
  /\ call' = "shell" /\ rec' = "open" /\ pump' = "running"
  /\ UNCHANGED <<exited, closing, made, reader, out, done, buf, payloads, events, statuses, ui>>

\* cleanupSSH: only the one that finds the record closes it.
cleanupSSH(emit) ==
  /\ rec' = "gone"
  /\ done' = (done \/ rec = "open")
  /\ closing' = (closing \/ (emit /\ rec = "open"))

\* sess.Shell: the request fails, or the session is announced.
Shell(ok) ==
  /\ call = "shell"
  /\ IF ok THEN /\ call' = "banner"
                /\ statuses' = statuses \cup {"connected"}
                /\ UNCHANGED <<rec, done, closing>>
           ELSE /\ call' = "failed"
                /\ cleanupSSH(FALSE)
                /\ UNCHANGED statuses
  /\ UNCHANGED <<exited, made, reader, out, buf, payloads, pump, events, ui>>

\* emitText has returned, the waiter starts and so does the caller.
Return ==
  /\ call = "banner" /\ made[Banner] = 1 /\ reader[Banner] = "read"
  /\ call' = "returned"
  /\ UNCHANGED <<rec, exited, closing, made, reader, out, done, buf, payloads, pump,
                 events, statuses, ui>>

(* The end *)

Exit ==
  /\ call \in {"banner", "returned"} /\ ~exited
  /\ exited' = TRUE
  /\ UNCHANGED <<call, rec, closing, made, reader, out, done, buf, payloads, pump,
                 events, statuses, ui>>

\* sess.Wait has returned; the readers may still have output to read.
Wait ==
  /\ call = "returned" /\ exited /\ rec = "open"
  /\ cleanupSSH(TRUE)
  /\ UNCHANGED <<call, exited, made, reader, out, buf, payloads, pump, events, statuses, ui>>

\* CloseSSH or CloseAllSessions
Close ==
  /\ rec = "open"
  /\ cleanupSSH(TRUE)
  /\ UNCHANGED <<call, exited, made, reader, out, buf, payloads, pump, events, statuses, ui>>

EmitClosed ==
  /\ closing
  /\ closing' = FALSE
  /\ statuses' = statuses \cup {"closed"}
  /\ UNCHANGED <<call, rec, exited, made, reader, out, done, buf, payloads, pump, events, ui>>

(* The goroutines that read, each with its queueSSHData *)

Read(s) ==
  /\ reader[s] = "read" /\ made[s] < Limit(s)
  /\ IF s = Banner THEN call = "banner" ELSE call \in {"banner", "returned"}
  /\ made' = [made EXCEPT ![s] = @ + 1]
  /\ reader' = [reader EXCEPT ![s] = "lookup"]
  /\ UNCHANGED <<call, rec, exited, closing, out, done, buf, payloads, pump, events, statuses, ui>>

\* queueSSHData under s.mu: without record the chunk is dropped.
Lookup(s) ==
  /\ reader[s] = "lookup"
  /\ reader' = [reader EXCEPT ![s] = IF rec = "open" THEN "send" ELSE "read"]
  /\ UNCHANGED <<call, rec, exited, closing, made, out, done, buf, payloads, pump,
                 events, statuses, ui>>

\* Faulty variant: a full channel drops the chunk instead of waiting.
SendOrDrop(s) ==
  /\ reader[s] = "send"
  /\ out' = IF Len(out) < OutCap THEN Append(out, [stream |-> s, n |-> made[s]]) ELSE out
  /\ reader' = [reader EXCEPT ![s] = "read"]
  /\ UNCHANGED <<call, rec, exited, closing, made, done, buf, payloads, pump,
                 events, statuses, ui>>

Send(s) ==
  /\ reader[s] = "send" /\ Len(out) < OutCap
  /\ out' = Append(out, [stream |-> s, n |-> made[s]])
  /\ reader' = [reader EXCEPT ![s] = "read"]
  /\ UNCHANGED <<call, rec, exited, closing, made, done, buf, payloads, pump,
                 events, statuses, ui>>

\* Faulty variant: a reader waits for the channel only.
NeverGiveUp(s) == FALSE /\ UNCHANGED sshVars

GiveUp(s) ==
  /\ reader[s] = "send" /\ done
  /\ reader' = [reader EXCEPT ![s] = "read"]
  /\ UNCHANGED <<call, rec, exited, closing, made, out, done, buf, payloads, pump,
                 events, statuses, ui>>

(* startSSHOutputPump *)

flush(b) ==
  /\ buf' = <<>>
  /\ IF b = <<>> THEN UNCHANGED <<payloads, events>>
     ELSE /\ payloads' = Append(payloads, b)
          /\ events' = events \cup {Len(payloads) + 1}

\* Faulty variant: a payload is sent on the tick only, however full the buffer.
PumpReceiveOnly ==
  /\ pump = "running" /\ out # <<>>
  /\ out' = Tail(out) /\ buf' = Append(buf, Head(out))
  /\ UNCHANGED <<call, rec, exited, closing, made, reader, done, payloads, pump,
                 events, statuses, ui>>

PumpReceive ==
  /\ pump = "running" /\ out # <<>>
  /\ out' = Tail(out)
  /\ LET b == Append(buf, Head(out)) IN
     IF Len(b) >= FlushAt THEN flush(b) ELSE buf' = b /\ UNCHANGED <<payloads, events>>
  /\ UNCHANGED <<call, rec, exited, closing, made, reader, done, pump, statuses, ui>>

PumpTick ==
  /\ pump = "running" /\ buf # <<>>
  /\ flush(buf)
  /\ UNCHANGED <<call, rec, exited, closing, made, reader, out, done, pump, statuses, ui>>

\* What is still in out is never sent.
PumpDone ==
  /\ pump = "running" /\ done
  /\ flush(buf)
  /\ pump' = "ended"
  /\ UNCHANGED <<call, rec, exited, closing, made, reader, out, done, statuses, ui>>

-----------------------------------------------------------------------------
(* The user interface *)

\* The promise of ConnectSSHWithSize resolves: addSSHSession.
AddSession ==
  /\ call = "returned" /\ tab = "none"
  /\ tab' = "connected"
  /\ UNCHANGED <<backend, events, statuses, term, pending, expected, seqBuffer, gapTimer, shown>>

\* A state for a session that is not in the list is dropped.
StatusArrives(st) ==
  /\ st \in statuses
  /\ statuses' = statuses \ {st}
  /\ tab' = IF tab \in {"none", "removed"} THEN tab ELSE st
  /\ UNCHANGED <<backend, events, term, pending, expected, seqBuffer, gapTimer, shown>>

\* drainTerminalSeqBuffer: of the buffered payloads those that follow each
\* other from number e on are written, the others stay in the buffer.
Run(e, buffered) == {p \in buffered : e..p \subseteq buffered}

drain(e, buffered, screen) ==
  LET n == Cardinality(Run(e, buffered)) IN
  /\ expected' = e + n
  /\ seqBuffer' = buffered \ Run(e, buffered)
  /\ shown' = screen \o [i \in 1..n |-> e + i - 1]

\* Faulty variant: a payload the gap timer has passed over is written late.
writeLate(new) ==
  LET late == {p \in new : p < expected} IN
  /\ drain(expected, seqBuffer \cup (new \ late), shown \o SetToSortSeq(late, <))
  /\ gapTimer' = (gapTimer \/ \E p \in new : p > expected')

\* Faulty variant: a gap starts no timer.
writeWithoutTimer(new) ==
  /\ drain(expected, seqBuffer \cup {p \in new : p >= expected}, shown)
  /\ UNCHANGED gapTimer

\* writeSSHPayload on a mounted terminal, for one payload or for several that
\* are written in the order of their numbers
writeSSHPayload(new) ==
  /\ drain(expected, seqBuffer \cup {p \in new : p >= expected}, shown)
  /\ gapTimer' = (gapTimer \/ \E p \in new : p > expected')

\* A payload for a terminal that is not there, or no longer there, is kept.
PayloadArrives(p) ==
  /\ p \in events
  /\ events' = events \ {p}
  /\ IF term = "mounted"
     THEN writeSSHPayload({p}) /\ UNCHANGED pending
     ELSE /\ pending' = LET all == Append(pending, p) IN
                        IF Len(all) > PendingCap THEN Tail(all) ELSE all
          /\ UNCHANGED <<expected, seqBuffer, gapTimer, shown>>
  /\ UNCHANGED <<backend, statuses, tab, term>>

\* attachTerm, once the session is rendered
Mount ==
  /\ tab \in {"connected", "closed"} /\ term = "none"
  /\ term' = "mounted"
  /\ writeSSHPayload(ToSet(pending))
  /\ pending' = <<>>
  /\ UNCHANGED <<backend, events, statuses, tab>>

\* Faulty variant: the terminal goes on without being cleared.
GapTimerSkips ==
  /\ gapTimer
  /\ gapTimer' = FALSE
  /\ IF seqBuffer = {} THEN UNCHANGED <<expected, seqBuffer, shown>>
     ELSE drain(Min(seqBuffer), seqBuffer, shown)
  /\ UNCHANGED <<backend, events, statuses, tab, term, pending>>

\* handleTerminalSeqGap, 1200 ms later: if a payload is still missing, the
\* terminal is cleared and goes on with the first one that is there.
GapTimer ==
  /\ gapTimer
  /\ gapTimer' = FALSE
  /\ IF seqBuffer = {} THEN UNCHANGED <<expected, seqBuffer, shown>>
     ELSE drain(Min(seqBuffer), seqBuffer, Append(shown, Reset))
  /\ UNCHANGED <<backend, events, statuses, tab, term, pending>>

\* closeTerminal, after its CloseSSH
Dispose ==
  /\ tab \in {"connected", "closed"} /\ rec = "gone"
  /\ tab' = "removed" /\ term' = "disposed"
  /\ pending' = <<>> /\ gapTimer' = FALSE
  /\ UNCHANGED <<backend, events, statuses, expected, seqBuffer, shown>>

-----------------------------------------------------------------------------
Backend ==
  \/ Register
  \/ \E ok \in BOOLEAN : Shell(ok)
  \/ Return
  \/ Wait
  \/ EmitClosed
  \/ \E s \in Streams : Lookup(s) \/ Send(s) \/ GiveUp(s)
  \/ PumpReceive
  \/ PumpTick
  \/ PumpDone

Ui ==
  \/ AddSession
  \/ \E st \in statuses : StatusArrives(st)
  \/ \E p \in events : PayloadArrives(p)
  \/ Mount
  \/ GapTimer

SshNext ==
  \/ Backend
  \/ Ui
  \/ \E s \in Streams : Read(s)
  \/ Exit
  \/ Close
  \/ Dispose

SshSpec == SshInit /\ [][SshNext]_sshVars

\* A goroutine that can go on does, timers fire, events arrive and the user
\* interface handles them; the remote shell and the user need not do anything.
FairSpec ==
  /\ SshSpec
  /\ \A s \in Streams : WF_sshVars(Lookup(s) \/ Send(s) \/ GiveUp(s))
  /\ WF_sshVars(PumpReceive \/ PumpTick \/ PumpDone)
  /\ WF_sshVars(Ui)

-----------------------------------------------------------------------------
(* Properties *)

\* The parts of the session have their shapes; the channel never holds more
\* than its capacity, the pump's buffer less than a payload.
SshTypeOK ==
  /\ call \in {"dial", "shell", "banner", "returned", "failed"}
  /\ rec \in {"none", "open", "gone"} /\ pump \in {"none", "running", "ended"}
  /\ exited \in BOOLEAN /\ closing \in BOOLEAN /\ done \in BOOLEAN /\ gapTimer \in BOOLEAN
  /\ made \in [Streams -> 0..MaxChunks]
  /\ reader \in [Streams -> {"read", "lookup", "send"}]
  /\ out \in Seq(Chunk) /\ Len(out) <= OutCap
  /\ buf \in Seq(Chunk) /\ Len(buf) < FlushAt
  /\ payloads \in Seq(Seq(Chunk)) /\ expected \in Nat \ {0}
  /\ events \cup seqBuffer \subseteq DOMAIN payloads /\ pending \in Seq(DOMAIN payloads)
  /\ statuses \subseteq {"connected", "closed"}
  /\ tab \in {"none", "connected", "closed", "removed"}
  /\ term \in {"none", "mounted", "disposed"}
  /\ shown \in Seq(DOMAIN payloads \cup {Reset})

\* What is on the screen, chunk by chunk, with a mark where it was cleared.
Cleared == [stream |-> Reset, n |-> 0]

Screen == FlattenSeq([i \in DOMAIN shown |->
                        IF shown[i] = Reset THEN <<Cleared>> ELSE payloads[shown[i]]])

\* "Geordnete Verarbeitung von Terminal-Ausgabechunks" (changelog.md:83): the
\* chunks of a stream are shown in their order, none twice, however the events
\* overtake each other, the terminal is mounted late, or the gap timer fires.
ShownInOrder ==
  LET screen == Screen IN
  \A j \in DOMAIN screen : \A i \in 1..(j - 1) :
    (screen[i] # Cleared /\ screen[i].stream = screen[j].stream) => screen[i].n < screen[j].n

\* Until the terminal is cleared for the first time it shows every stream from
\* its first chunk, without a hole: a session that ends loses the end of its
\* output at most, and a lost payload is never passed over in silence.
HolesAreVisible ==
  LET screen == Screen IN
  \A j \in DOMAIN screen :
    (\A i \in 1..j : screen[i] # Cleared)
      => \A n \in 1..(screen[j].n - 1) :
           \E i \in 1..(j - 1) : screen[i] = [stream |-> screen[j].stream, n |-> n]

\* Once the session is closed no goroutine waits for the channel for ever.
ReadersEnd == done ~> \A s \in Streams : reader[s] # "send"

\* A payload the bounded list of an unmounted terminal has dropped.
Lost == DOMAIN payloads \ (events \cup ToSet(pending) \cup seqBuffer \cup ToSet(shown))

\* One lost payload never stops the terminal: what follows it is shown, at the
\* latest when the gap timer fires.  (Two can: the timer is armed by a payload
\* that arrives, and after the first gap none may arrive any more.)
NothingWaitsForEver ==
  term = "mounted" ~> (seqBuffer = {} \/ term = "disposed" \/ Cardinality(Lost) > 1)
=============================================================================
