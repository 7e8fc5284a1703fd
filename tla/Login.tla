-------------------------------- MODULE Login --------------------------------
(***************************************************************************)
(* Logging in (apps/focaldmd, apps/focaldm-greeter): the supervision loop  *)
(* of the display manager, the greeter it shows on its virtual terminal,   *)
(* the socket between them, the threads that run PAM transactions and the  *)
(* processes that hold the logind session of a greeter or of a user.       *)
(*                                                                         *)
(* A step is one branch of the daemon's select!, one step of a PAM thread  *)
(* between two channel operations, one event of the greeter's loop, or     *)
(* something the kernel does to a process.                                 *)
(***************************************************************************)
EXTENDS Naturals, Sequences

CONSTANTS
  Tx,         \* PAM transactions that may exist at once: a bound on threads
  NoTx,       \* no transaction
  Holders,    \* session holders that may exist at once: a bound on processes
  WireBound   \* messages under way above which the user types nothing: a bound

ASSUME LoginAssumption ==
  NoTx \notin Tx /\ "greeter" \notin Tx /\ Holders # {} /\ WireBound \in Nat

VARIABLES
  phase,          \* where the supervision loop is
  sigterm,        \* whether SIGTERM was received
  holder,         \* the state of each holder and of the program it runs
  owner,          \* for whom a holder opened its session
  cur,            \* the holder the supervisor watches (SessionProcess)
  rx,             \* the transaction whose receivers the supervisor has
  pending_reply,  \* the transaction whose prompt waits for an answer
  pending,        \* the transaction whose PendingSession was received
  pam,            \* where each PAM thread is
  passed,         \* history: transactions PAM let pass
  unwanted,       \* history: transactions cancelled, or whose greeter died, in flight
  conn,           \* the connection of the greeter
  to_daemon,      \* requests under way
  to_greeter,     \* responses under way
  ui              \* the greeter's LoginState

channel   == <<conn, to_daemon, to_greeter>>
sessions  == <<holder, owner, cur>>
receivers == <<rx, pending_reply, pending>>
threads   == <<pam, passed, unwanted>>
loginVars == <<phase, sigterm, holder, owner, cur, rx, pending_reply, pending,
               pam, passed, unwanted, conn, to_daemon, to_greeter, ui>>

Phase == {"idle", "accepting", "driving", "closing", "handoff", "opening", "session",
          "stopping", "stopped", "failed"}
HolderState == {"running", "dead", "exited", "closed"}
PamStep == {"none", "working", "asked", "waiting", "failed", "parked", "told"}
Greeter == "greeter"

LoginInit ==
  /\ phase = "idle" /\ sigterm = FALSE
  /\ holder = [h \in Holders |-> "closed"]
  /\ owner = [h \in Holders |-> Greeter]
  /\ cur = CHOOSE h \in Holders : TRUE
  /\ rx = NoTx /\ pending_reply = NoTx /\ pending = NoTx
  /\ pam = [t \in Tx |-> "none"] /\ passed = {} /\ unwanted = {}
  /\ conn = "none" /\ to_daemon = <<>> /\ to_greeter = <<>>
  /\ ui = "off"

-----------------------------------------------------------------------------
(* Sessions and processes: fork_session_holder *)

\* The holder opens the logind session and runs the program in it.
OpenSession(who) ==
  \E h \in Holders :
    /\ holder[h] = "closed"
    /\ holder' = [holder EXCEPT ![h] = "running"]
    /\ owner' = [owner EXCEPT ![h] = who]
    /\ cur' = h

\* The transaction in flight, if there is one: whoever asked for it gave it up.
GiveUp == unwanted' = unwanted \cup ({rx} \ {NoTx})

\* Death of the greeter closes its end of the socket, and what it did not read
\* is gone; what it wrote can still be read.
Die(h) ==
  /\ holder[h] = "running"
  /\ holder' = [holder EXCEPT ![h] = "dead"]
  /\ IF owner[h] = Greeter
       THEN /\ conn' = IF conn = "open" THEN "closed" ELSE conn
            /\ to_greeter' = <<>> /\ ui' = "off"
            /\ GiveUp
       ELSE UNCHANGED <<conn, to_greeter, ui, unwanted>>
  /\ UNCHANGED <<phase, sigterm, owner, cur, receivers, pam, passed, to_daemon>>

\* Mutant: SIGKILL only on the way out.
KillOnExit == phase = "stopping" /\ Die(cur)

\* terminate_and_reap: SIGKILL after three seconds of ignored SIGTERM.
Kill == phase \in {"handoff", "stopping"} /\ Die(cur)

\* The holder reports the status it waited for, then closes the session.
HolderStep(h) ==
  /\ \/ holder[h] = "dead" /\ holder' = [holder EXCEPT ![h] = "exited"]
     \/ holder[h] = "exited" /\ holder' = [holder EXCEPT ![h] = "closed"]
  /\ UNCHANGED <<phase, sigterm, owner, cur, receivers, threads, channel, ui>>

HasExited(h) == holder[h] \in {"exited", "closed"}

-----------------------------------------------------------------------------
(* PAM threads: run_transaction *)

PamMove(t, from, to) == pam[t] = from /\ pam' = [pam EXCEPT ![t] = to]

\* GreeterConversation::ask, and what the stack decides in the end.
PamWork(t) ==
  /\ rx = t
  /\ \/ \E to \in {"asked", "failed"} : PamMove(t, "working", to) /\ UNCHANGED passed
     \/ PamMove(t, "working", "parked") /\ passed' = passed \cup {t}
  /\ UNCHANGED <<phase, sigterm, sessions, receivers, unwanted, channel, ui>>

\* A thread whose receivers are gone: its next send or receive fails, the
\* conversation errors out and nothing was opened.
Unwind(t) ==
  /\ rx # t /\ pending # t /\ pending_reply # t
  /\ pam[t] \in {"working", "asked", "waiting", "failed", "parked"}
  /\ pam' = [pam EXCEPT ![t] = "none"]
  /\ UNCHANGED <<phase, sigterm, sessions, receivers, passed, unwanted, channel, ui>>

\* The supervisor let the parked thread proceed: it opens the user's session...
OpenUser(t) ==
  /\ phase = "opening" /\ pending = t
  /\ PamMove(t, "told", "none")
  /\ OpenSession(t)
  /\ phase' = "session" /\ pending' = NoTx
  /\ UNCHANGED <<sigterm, rx, pending_reply, passed, unwanted, channel, ui>>

\* ... or fails to.
OpenUserFails(t) ==
  /\ phase = "opening" /\ pending = t
  /\ PamMove(t, "told", "none")
  /\ phase' = "idle" /\ pending' = NoTx
  /\ UNCHANGED <<sigterm, sessions, rx, pending_reply, passed, unwanted, channel, ui>>

-----------------------------------------------------------------------------
(* The supervision loop: run *)

\* The backoff is over and the terminal was switched.
StartGreeter ==
  /\ phase = "idle"
  /\ OpenSession(Greeter)
  /\ phase' = "accepting"
  /\ UNCHANGED <<sigterm, receivers, threads, channel, ui>>

\* The process ends, and its threads and its end of the socket with it.
Exit(how) ==
  /\ phase' = how
  /\ rx' = NoTx /\ pending_reply' = NoTx /\ pending' = NoTx
  /\ pam' = [t \in Tx |-> "none"]
  /\ conn' = "none" /\ to_daemon' = <<>> /\ to_greeter' = <<>>
  /\ UNCHANGED <<sigterm, sessions, passed, unwanted, ui>>

StartGreeterFails == phase = "idle" /\ Exit("failed")

Accept ==
  /\ phase = "accepting" /\ conn # "none"
  /\ phase' = "driving"
  /\ UNCHANGED <<sigterm, sessions, receivers, threads, channel, ui>>

\* Returning from drive_greeter drops the connection and the receivers.
LeaveGreeter(next) ==
  /\ phase' = next
  /\ rx' = NoTx /\ pending_reply' = NoTx
  /\ conn' = "none" /\ to_daemon' = <<>> /\ to_greeter' = <<>>
  /\ UNCHANGED <<sigterm, sessions, ui>>

\* The greeter ended before it connected, or while it was driven.
GreeterCrashed ==
  /\ HasExited(cur)
  /\ \/ /\ phase = "accepting" /\ phase' = "closing"
        /\ UNCHANGED <<sigterm, sessions, receivers, channel, ui>>
     \/ phase = "driving" /\ LeaveGreeter("closing") /\ UNCHANGED pending
  /\ UNCHANGED threads

\* The session of the crashed greeter, or of the user, is closed at last.
Closed ==
  /\ phase = "closing" /\ holder[cur] = "closed"
  /\ phase' = "idle"
  /\ UNCHANGED <<sigterm, sessions, receivers, threads, channel, ui>>

\* Mutant: the supervisor does not wait for the end of the greeter.
HandoffAtOnce ==
  /\ phase = "handoff"
  /\ phase' = "opening"
  /\ PamMove(pending, "parked", "told")
  /\ UNCHANGED <<sigterm, sessions, receivers, passed, unwanted, channel, ui>>

\* terminate_and_reap returned: the thread may open the user's session.
HandoffDone ==
  /\ phase = "handoff" /\ holder[cur] = "closed"
  /\ phase' = "opening"
  /\ PamMove(pending, "parked", "told")
  /\ UNCHANGED <<sigterm, sessions, receivers, passed, unwanted, channel, ui>>

SessionEnded ==
  /\ phase = "session" /\ HasExited(cur)
  /\ phase' = "closing"
  /\ UNCHANGED <<sigterm, sessions, receivers, threads, channel, ui>>

\* The branches on SIGTERM. Without a session there is nothing to reap.
Shutdown ==
  /\ sigterm
  /\ \/ phase = "idle" /\ Exit("stopped")
     \/ /\ phase \in {"accepting", "driving"}
        /\ LeaveGreeter("stopping") /\ UNCHANGED <<pending, threads>>
     \/ /\ phase = "session" /\ phase' = "stopping"
        /\ UNCHANGED <<sigterm, sessions, receivers, threads, channel, ui>>

Stopped == phase = "stopping" /\ holder[cur] = "closed" /\ Exit("stopped")

-----------------------------------------------------------------------------
(* The select! of drive_greeter *)

Send(msg) == conn = "open" /\ to_greeter' = Append(to_greeter, msg)

\* conn.recv
Receive(req) ==
  /\ phase = "driving"
  /\ to_daemon # <<>> /\ Head(to_daemon) = req
  /\ to_daemon' = Tail(to_daemon)

RecvCreate ==
  /\ Receive("create")
  /\ IF rx # NoTx
       THEN Send("error") /\ UNCHANGED <<rx, threads>>
       ELSE \E t \in Tx :
              /\ PamMove(t, "none", "working")
              /\ rx' = t /\ passed' = passed \ {t}
              /\ unwanted' = IF conn = "open" THEN unwanted \ {t} ELSE unwanted \cup {t}
              /\ UNCHANGED to_greeter
  /\ UNCHANGED <<phase, sigterm, sessions, pending_reply, pending, conn, ui>>

\* An answer nobody waits for is dropped.
RecvAnswer ==
  /\ Receive("answer")
  /\ pending_reply' = NoTx
  /\ IF pending_reply = NoTx THEN UNCHANGED pam
                             ELSE PamMove(pending_reply, "waiting", "working")
  /\ UNCHANGED <<phase, sigterm, sessions, rx, pending, passed, unwanted, conn,
                 to_greeter, ui>>

\* Mutant: the reply channel of the prompt on screen is kept.
CancelKeepsReply ==
  /\ Receive("cancel")
  /\ rx' = NoTx /\ GiveUp
  /\ UNCHANGED <<phase, sigterm, sessions, pending_reply, pending, pam, passed, conn,
                 to_greeter, ui>>

\* Mutant: the receiver of the outcome is kept.
CancelKeepsOutcome ==
  /\ Receive("cancel")
  /\ pending_reply' = NoTx /\ GiveUp
  /\ UNCHANGED <<phase, sigterm, sessions, rx, pending, pam, passed, conn, to_greeter, ui>>

\* Dropping the receivers is all a cancellation does.
RecvCancel ==
  /\ Receive("cancel")
  /\ rx' = NoTx /\ pending_reply' = NoTx /\ GiveUp
  /\ UNCHANGED <<phase, sigterm, sessions, pending, pam, passed, conn, to_greeter, ui>>

RecvPrompt ==
  /\ phase = "driving" /\ rx # NoTx
  /\ PamMove(rx, "asked", "waiting")
  /\ pending_reply' = rx
  /\ Send("prompt")
  /\ UNCHANGED <<phase, sigterm, sessions, rx, pending, passed, unwanted, conn,
                 to_daemon, ui>>

\* Mutant: the handoff begins on any outcome.
AnyOutcome ==
  /\ phase = "driving" /\ rx # NoTx /\ pam[rx] \in {"parked", "failed"}
  /\ Send("started")
  /\ pending' = rx /\ rx' = NoTx /\ pending_reply' = NoTx
  /\ phase' = "handoff"
  /\ conn' = "none" /\ to_daemon' = <<>>
  /\ UNCHANGED <<sigterm, sessions, threads, ui>>

\* Outcome::Success: the greeter is told, and the handoff begins. Its end of the
\* socket stays readable.
RecvSuccess ==
  /\ phase = "driving" /\ rx # NoTx /\ pam[rx] = "parked"
  /\ Send("started")
  /\ pending' = rx /\ rx' = NoTx /\ pending_reply' = NoTx
  /\ phase' = "handoff"
  /\ conn' = "none" /\ to_daemon' = <<>>
  /\ UNCHANGED <<sigterm, sessions, threads, ui>>

RecvFailure ==
  /\ phase = "driving" /\ rx # NoTx
  /\ PamMove(rx, "failed", "none")
  /\ Send("error")
  /\ rx' = NoTx /\ pending_reply' = NoTx
  /\ UNCHANGED <<phase, sigterm, sessions, pending, passed, unwanted, conn, to_daemon,
                 ui>>

\* The `?` on a read at the end of the stream, or on a write nobody reads,
\* leaves run: the daemon exits with an error.
ConnectionLost ==
  /\ phase = "driving" /\ conn = "closed"
  /\ \/ to_daemon = <<>>
     \/ rx # NoTx /\ \/ pam[rx] \in {"asked", "failed", "parked"}
                     \/ to_daemon # <<>> /\ Head(to_daemon) = "create"
  /\ Exit("failed")

-----------------------------------------------------------------------------
(* The greeter: LoginState *)

GreeterRuns == \E h \in Holders : holder[h] = "running" /\ owner[h] = Greeter

Connect ==
  /\ GreeterRuns /\ ui = "off"
  /\ conn = "none" /\ phase \in {"accepting", "driving"}
  /\ conn' = "open" /\ ui' = "username"
  /\ UNCHANGED <<phase, sigterm, sessions, receivers, threads, to_daemon, to_greeter>>

\* on_ui_event
UiEvent(states, next, req) ==
  /\ conn = "open" /\ ui \in states
  /\ Len(to_daemon) + Len(to_greeter) < WireBound
  /\ ui' = next
  /\ to_daemon' = Append(to_daemon, req)
  /\ UNCHANGED <<phase, sigterm, sessions, receivers, threads, conn, to_greeter>>

SubmitUsername == UiEvent({"username"}, "waiting", "create")
SubmitPrompt   == UiEvent({"prompt"}, "waiting", "answer")
CancelLogin    == UiEvent({"prompt", "waiting"}, "username", "cancel")

\* Mutant: a late message is shown.
ShowLate(msg) ==
  CASE msg = "started"                                    -> "done"
    [] msg = "error"  /\ ui \in {"waiting", "prompt"}     -> "username"
    [] OTHER                                              -> msg

\* on_response: late messages are ignored where the state tells them.
NextUi(msg) ==
  CASE msg = "started"                                    -> "done"
    [] msg = "prompt" /\ ui \in {"waiting", "prompt"}     -> "prompt"
    [] msg = "error"  /\ ui \in {"waiting", "prompt"}     -> "username"
    [] OTHER                                              -> ui

GreeterReads ==
  /\ ui # "off" /\ to_greeter # <<>>
  /\ ui' = NextUi(Head(to_greeter))
  /\ to_greeter' = Tail(to_greeter)
  /\ UNCHANGED <<phase, sigterm, sessions, receivers, threads, conn, to_daemon>>

Terminate == ~sigterm /\ sigterm' = TRUE
             /\ UNCHANGED <<phase, sessions, receivers, threads, channel, ui>>

-----------------------------------------------------------------------------
Supervise ==
  \/ StartGreeter \/ Accept \/ GreeterCrashed \/ Closed \/ HandoffDone \/ SessionEnded
  \/ Shutdown \/ Stopped \/ Kill
  \/ RecvCreate \/ RecvAnswer \/ RecvCancel \/ RecvPrompt \/ RecvSuccess \/ RecvFailure
  \/ ConnectionLost

PamThread(t) == PamWork(t) \/ Unwind(t) \/ OpenUser(t) \/ OpenUserFails(t)

UseGreeter == Connect \/ SubmitUsername \/ SubmitPrompt \/ CancelLogin \/ GreeterReads

LoginNext ==
  \/ Supervise \/ StartGreeterFails
  \/ \E t \in Tx : PamThread(t)
  \/ \E h \in Holders : HolderStep(h) \/ Die(h)
  \/ UseGreeter \/ Terminate

\* The daemon's runtime and threads run, holders reap and close, and a module with
\* nobody left to ask returns some day. Neither the user, nor the greeter, nor the
\* modules of a login that is still wanted are trusted to do anything.
LoginFairness ==
  /\ WF_loginVars(Supervise)
  /\ \A h \in Holders : WF_loginVars(HolderStep(h))
  /\ \A t \in Tx : WF_loginVars(Unwind(t)) /\ WF_loginVars(OpenUser(t) \/ OpenUserFails(t))

LoginSpec == LoginInit /\ [][LoginNext]_loginVars /\ LoginFairness

-----------------------------------------------------------------------------
(* Properties *)

\* Every variable stays in its set.
LoginTypeOK ==
  /\ phase \in Phase /\ sigterm \in BOOLEAN
  /\ holder \in [Holders -> HolderState]
  /\ owner \in [Holders -> Tx \cup {Greeter}]
  /\ cur \in Holders
  /\ rx \in Tx \cup {NoTx} /\ pending_reply \in Tx \cup {NoTx} /\ pending \in Tx \cup {NoTx}
  /\ pam \in [Tx -> PamStep] /\ passed \subseteq Tx /\ unwanted \subseteq Tx
  /\ conn \in {"none", "open", "closed"}
  /\ to_daemon \in Seq({"create", "answer", "cancel"})
  /\ to_greeter \in Seq({"prompt", "error", "started"})
  /\ ui \in {"off", "username", "waiting", "prompt", "done"}

\* Two logind sessions never coexist on the terminal: a user's session is not
\* opened before the greeter's is closed, nor a greeter's before the crashed
\* greeter's or the user's is (terminate_and_reap, SessionProcess::closed).
OneOnTheVT == \A g, h \in Holders : holder[g] # "closed" /\ holder[h] # "closed" => g = h

\* A user's session belongs to a transaction PAM let pass and nobody gave up: it
\* was not cancelled, and its greeter did not die, while it was in flight
\* (CancelSession, Outcome::Success, PendingSession).
Wanted(t) == t \in passed \ unwanted
OnlyAuthenticated ==
  /\ \A h \in Holders : holder[h] # "closed" /\ owner[h] \in Tx => Wanted(owner[h])
  /\ pending # NoTx => pam[pending] \in {"parked", "told"} /\ Wanted(pending) /\ rx = NoTx

\* The channel an answer would be sent on belongs to the transaction in flight,
\* whose thread waits for it: a password typed for a later login cannot reach
\* the thread of one that was cancelled or failed (pending_reply).
ReplyBelongs ==
  pending_reply # NoTx => pending_reply = rx /\ pam[pending_reply] = "waiting"

\* Once a user is authenticated the greeter is gone, even one that ignores
\* SIGTERM, and the user's session is opened or the loop starts over.
HandoffEnds == phase = "handoff" ~> phase \in {"session", "idle"}

\* A thread whose login was cancelled, whose greeter crashed or whose daemon
\* stops is not left behind, waiting for an answer nobody can give.
ThreadsEnd ==
  \A t \in Tx : (pam[t] # "none" /\ rx # t /\ pending # t) ~> pam[t] = "none"
=============================================================================
