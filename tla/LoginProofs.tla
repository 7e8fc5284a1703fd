----------------------------- MODULE LoginProofs -----------------------------
(***************************************************************************)
(* Login, proved for any number of transactions and session holders.       *)
(*                                                                         *)
(* What makes the terminal safe is who may still be on it in each phase of *)
(* the supervision loop: only the holder the supervisor watches, nobody    *)
(* while it is about to open a session, and the greeter's as long as       *)
(* requests are read. What makes a handoff safe is that the transaction    *)
(* kept in it is parked, or told, and the only one with a way forward.     *)
(***************************************************************************)
EXTENDS Login, TLAPS

\* A session that is not closed is the one the supervisor watches.
Watched == \A h \in Holders : holder[h] # "closed" => h = cur

\* Nobody is on the terminal when a session is about to be opened.
Vacant == phase \in {"idle", "opening", "stopped"} => \A h \in Holders : holder[h] = "closed"

\* Requests are read only while the greeter's session is watched.
GreeterWatched ==
  /\ phase \in {"accepting", "driving"} => owner[cur] = Greeter
  /\ rx # NoTx => phase = "driving"
  /\ phase = "driving" => conn # "none"

\* The transaction of a handoff let its user pass and waits to be told, or was.
Handoff ==
  /\ pending # NoTx => phase \in {"handoff", "opening"} /\ rx = NoTx /\ pending \in passed
  /\ phase = "handoff" => pending # NoTx /\ pam[pending] = "parked"
  /\ phase = "opening" => pending # NoTx /\ pam[pending] = "told"
  /\ \A t \in Tx : pam[t] = "parked" => t \in passed

\* A transaction in flight that nobody wants any more has lost its greeter, so its
\* outcome cannot be announced; one kept for a handoff was wanted until then.
Abandoned ==
  /\ rx \in unwanted => conn # "open"
  /\ pending # NoTx => pending \notin unwanted

\* Sessions of users belong to transactions that passed and were wanted.
Earned == \A h \in Holders : holder[h] # "closed" /\ owner[h] \in Tx => Wanted(owner[h])

LoginInv == LoginTypeOK /\ Watched /\ Vacant /\ GreeterWatched /\ Handoff /\ Abandoned
            /\ ReplyBelongs /\ Earned

\* The channels of the socket begin empty.
LEMMA EmptyChannel == \A S : <<>> \in Seq(S)
OBVIOUS

\* Receiving and sending keep them sequences of messages.
LEMMA Channels ==
  ASSUME NEW S, NEW s \in Seq(S)
  PROVE  /\ s # <<>> => Tail(s) \in Seq(S)
         /\ \A m \in S : Append(s, m) \in Seq(S)
OBVIOUS

\* The invariant holds when the daemon starts.
LEMMA LoginInitInv == LoginInit => LoginInv
<1>1. (CHOOSE h \in Holders : TRUE) \in Holders
  BY LoginAssumption
<1>2. LoginInit => LoginTypeOK
  BY <1>1, EmptyChannel DEF LoginInit, LoginTypeOK, Phase, HolderState, PamStep, Greeter
<1>3. LoginInit => Watched /\ Vacant /\ GreeterWatched /\ Handoff /\ Abandoned /\ ReplyBelongs /\ Earned
  BY LoginAssumption
  DEF LoginInit, Watched, Vacant, GreeterWatched, Handoff, Abandoned, ReplyBelongs, Earned
<1>4. QED
  BY <1>2, <1>3 DEF LoginInv

-----------------------------------------------------------------------------
\* The daemon, its threads, the greeter and the kernel keep the invariant.
LEMMA LoginStep == LoginInv /\ [LoginNext]_loginVars => LoginInv'
<1> SUFFICES ASSUME LoginInv, [LoginNext]_loginVars PROVE LoginInv'
  OBVIOUS
<1> USE LoginAssumption DEF LoginInv, LoginTypeOK, Watched, Vacant, GreeterWatched, Handoff, Abandoned, ReplyBelongs,
                            Earned, Wanted, Phase, HolderState, PamStep, Greeter, channel, sessions, receivers, threads
<1>1. CASE StartGreeter
  BY <1>1 DEF StartGreeter, OpenSession
<1>2. CASE StartGreeterFails
  BY <1>2 DEF StartGreeterFails, Exit
<1>3. CASE Accept
  BY <1>3 DEF Accept
<1>4. CASE GreeterCrashed
  <2> USE <1>4 DEF GreeterCrashed, HasExited, LeaveGreeter
  <2>1. LoginTypeOK'
    <3>1. to_daemon' \in Seq({"create", "answer", "cancel"})
      BY EmptyChannel
    <3>2. to_greeter' \in Seq({"prompt", "error", "started"})
      BY EmptyChannel
    <3>3. QED
      BY <3>1, <3>2
  <2>2. Watched'
    OBVIOUS
  <2>3. Vacant'
    OBVIOUS
  <2>4. GreeterWatched'
    OBVIOUS
  <2>5. Handoff'
    OBVIOUS
  <2>6. Abandoned'
    OBVIOUS
  <2>7. ReplyBelongs'
    OBVIOUS
  <2>8. Earned'
    OBVIOUS
  <2>9. QED
    BY <2>1, <2>2, <2>3, <2>4, <2>5, <2>6, <2>7, <2>8
<1>5. CASE Closed
  BY <1>5 DEF Closed
<1>6. CASE HandoffDone
  BY <1>6 DEF HandoffDone, PamMove
<1>7. CASE SessionEnded
  BY <1>7 DEF SessionEnded, HasExited
<1>8. CASE Shutdown
  <2> USE <1>8 DEF Shutdown, Exit, LeaveGreeter
  <2>1. LoginTypeOK'
    <3>1. to_daemon' \in Seq({"create", "answer", "cancel"})
      BY EmptyChannel
    <3>2. to_greeter' \in Seq({"prompt", "error", "started"})
      BY EmptyChannel
    <3>3. QED
      BY <3>1, <3>2
  <2>2. Watched'
    OBVIOUS
  <2>3. Vacant'
    OBVIOUS
  <2>4. GreeterWatched'
    OBVIOUS
  <2>5. Handoff'
    OBVIOUS
  <2>6. Abandoned'
    OBVIOUS
  <2>7. ReplyBelongs'
    OBVIOUS
  <2>8. Earned'
    OBVIOUS
  <2>9. QED
    BY <2>1, <2>2, <2>3, <2>4, <2>5, <2>6, <2>7, <2>8
<1>9. CASE Stopped
  BY <1>9 DEF Stopped, Exit
<1>10. CASE Kill
  <2> USE <1>10 DEF Kill, Die, GiveUp
  <2>1. LoginTypeOK'
    <3>1. to_daemon' \in Seq({"create", "answer", "cancel"})
      BY EmptyChannel
    <3>2. to_greeter' \in Seq({"prompt", "error", "started"})
      BY EmptyChannel
    <3>3. QED
      BY <3>1, <3>2
  <2>2. Watched'
    OBVIOUS
  <2>3. Vacant'
    OBVIOUS
  <2>4. GreeterWatched'
    OBVIOUS
  <2>5. Handoff'
    OBVIOUS
  <2>6. Abandoned'
    OBVIOUS
  <2>7. ReplyBelongs'
    OBVIOUS
  <2>8. Earned'
    OBVIOUS
  <2>9. QED
    BY <2>1, <2>2, <2>3, <2>4, <2>5, <2>6, <2>7, <2>8
<1>11. CASE RecvCreate
  <2> USE <1>11 DEF RecvCreate, Receive, Send, PamMove
  <2>1. LoginTypeOK'
    <3>1. to_daemon' = Tail(to_daemon) /\ to_daemon # <<>>
      BY <1>11
    <3>2. to_daemon' \in Seq({"create", "answer", "cancel"})
      BY ONLY <3>1, LoginTypeOK, Channels DEF LoginTypeOK
    <3>3. UNCHANGED to_greeter \/ to_greeter' = Append(to_greeter, "error")
      BY <1>11
    <3>4. to_greeter' \in Seq({"prompt", "error", "started"})
      BY ONLY <3>3, LoginTypeOK, Channels DEF LoginTypeOK
    <3>5. /\ phase' \in Phase /\ sigterm' \in BOOLEAN /\ holder' \in [Holders -> HolderState]
          /\ owner' \in [Holders -> Tx \cup {Greeter}] /\ cur' \in Holders
          /\ conn' \in {"none", "open", "closed"} /\ pending_reply' \in Tx \cup {NoTx}
          /\ pending' \in Tx \cup {NoTx}
          /\ ui' \in {"off", "username", "waiting", "prompt", "done"}
      BY <1>11
    <3>6. /\ rx' \in Tx \cup {NoTx} /\ pam' \in [Tx -> PamStep]
          /\ passed' \subseteq Tx /\ unwanted' \subseteq Tx
      BY <1>11
    <3>7. QED
      BY ONLY <3>2, <3>4, <3>5, <3>6 DEF LoginTypeOK
  <2>2. Watched'
    OBVIOUS
  <2>3. Vacant'
    OBVIOUS
  <2>4. GreeterWatched'
    OBVIOUS
  <2>5. Handoff'
    OBVIOUS
  <2>6. Abandoned'
    OBVIOUS
  <2>7. ReplyBelongs'
    OBVIOUS
  <2>8. Earned'
    OBVIOUS
  <2>9. QED
    BY <2>1, <2>2, <2>3, <2>4, <2>5, <2>6, <2>7, <2>8
<1>12. CASE RecvAnswer
  BY <1>12 DEF RecvAnswer, Receive, PamMove
<1>13. CASE RecvCancel
  BY <1>13 DEF RecvCancel, Receive, GiveUp
<1>14. CASE RecvPrompt
  BY <1>14 DEF RecvPrompt, PamMove, Send
<1>15. CASE RecvSuccess
  BY <1>15 DEF RecvSuccess, Send
<1>16. CASE RecvFailure
  BY <1>16 DEF RecvFailure, PamMove, Send
<1>17. CASE ConnectionLost
  BY <1>17 DEF ConnectionLost, Exit
<1>18. ASSUME NEW t \in Tx, PamWork(t) PROVE LoginInv'
  BY <1>18 DEF PamWork, PamMove
<1>19. ASSUME NEW t \in Tx, Unwind(t) PROVE LoginInv'
  BY <1>19 DEF Unwind
<1>20. ASSUME NEW t \in Tx, OpenUser(t) PROVE LoginInv'
  BY <1>20 DEF OpenUser, PamMove, OpenSession
<1>21. ASSUME NEW t \in Tx, OpenUserFails(t) PROVE LoginInv'
  BY <1>21 DEF OpenUserFails, PamMove
<1>22. ASSUME NEW h \in Holders, HolderStep(h) PROVE LoginInv'
  BY <1>22 DEF HolderStep
<1>23. ASSUME NEW h \in Holders, Die(h) PROVE LoginInv'
  <2> USE <1>23 DEF Die, GiveUp
  <2>1. LoginTypeOK'
    <3>1. to_daemon' \in Seq({"create", "answer", "cancel"})
      BY EmptyChannel
    <3>2. to_greeter' \in Seq({"prompt", "error", "started"})
      BY EmptyChannel
    <3>3. QED
      BY <3>1, <3>2
  <2>2. Watched'
    OBVIOUS
  <2>3. Vacant'
    OBVIOUS
  <2>4. GreeterWatched'
    OBVIOUS
  <2>5. Handoff'
    OBVIOUS
  <2>6. Abandoned'
    OBVIOUS
  <2>7. ReplyBelongs'
    OBVIOUS
  <2>8. Earned'
    OBVIOUS
  <2>9. QED
    BY <2>1, <2>2, <2>3, <2>4, <2>5, <2>6, <2>7, <2>8
<1>24. CASE Connect
  BY <1>24 DEF Connect
<1>25. CASE SubmitUsername
  BY <1>25 DEF SubmitUsername, UiEvent
<1>26. CASE SubmitPrompt
  BY <1>26 DEF SubmitPrompt, UiEvent
<1>27. CASE CancelLogin
  BY <1>27 DEF CancelLogin, UiEvent
<1>28. CASE GreeterReads
  BY <1>28 DEF GreeterReads, NextUi
<1>29. CASE Terminate
  BY <1>29 DEF Terminate
<1>30. CASE UNCHANGED loginVars
  BY <1>30 DEF loginVars
<1>31. QED
  BY <1>1, <1>2, <1>3, <1>4, <1>5, <1>6, <1>7, <1>8, <1>9, <1>10, <1>11, <1>12, <1>13, <1>14, <1>15,
     <1>16, <1>17, <1>18, <1>19, <1>20, <1>21, <1>22, <1>23, <1>24, <1>25, <1>26, <1>27, <1>28,
     <1>29, <1>30 DEF LoginNext, Supervise, PamThread, UseGreeter

-----------------------------------------------------------------------------
(* Theorems *)

\* The inductive invariant holds in every state of the login manager.
THEOREM LoginInvariant == LoginSpec => []LoginInv
BY LoginInitInv, LoginStep, PTL DEF LoginSpec

\* Every variable stays in its set.
THEOREM LoginTypeCorrect == LoginSpec => []LoginTypeOK
<1>1. LoginInv => LoginTypeOK
  BY DEF LoginInv
<1>2. QED
  BY <1>1, LoginInvariant, PTL

\* Two logind sessions never coexist on the terminal (terminate_and_reap,
\* SessionProcess::closed).
THEOREM NeverTwoOnTheVT == LoginSpec => []OneOnTheVT
<1>1. LoginInv => OneOnTheVT
  BY DEF LoginInv, Watched, OneOnTheVT
<1>2. QED
  BY <1>1, LoginInvariant, PTL

\* A session opens only for a transaction that PAM let pass, that was not cancelled
\* and whose greeter did not die while it was in flight (Outcome::Success,
\* PendingSession).
THEOREM UsersAreAuthenticated == LoginSpec => []OnlyAuthenticated
<1>1. LoginInv => OnlyAuthenticated
  BY LoginAssumption DEF LoginInv, LoginTypeOK, Handoff, Abandoned, Earned, Wanted, OnlyAuthenticated
<1>2. QED
  BY <1>1, LoginInvariant, PTL

\* An answer can only reach the thread of the transaction in flight
\* (pending_reply).
THEOREM AnswersBelong == LoginSpec => []ReplyBelongs
<1>1. LoginInv => ReplyBelongs
  BY DEF LoginInv
<1>2. QED
  BY <1>1, LoginInvariant, PTL
=============================================================================
