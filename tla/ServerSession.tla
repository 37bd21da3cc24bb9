----------------------------- MODULE ServerSession -----------------------------
(***************************************************************************)
(* One connection of the server: the web socket session and the local      *)
(* session at the two ends of the channels that WsSession::wsOpened makes. *)
(* The dispatch side of CommonWsSession is the coroutine of LocalSession,  *)
(* and the client of LocalSession is the web socket session.               *)
(***************************************************************************)
EXTENDS CommonWsSession

ASSUME ServerAssumption == Side = "server" /\ MaxPushed >= MaxWire + 2

VARIABLES pc, outgoing, aio, provider, served

Local == INSTANCE LocalSession WITH
    Requests <- Frames, MaxRequests <- MaxWire,
    in <- write_stream, out <- read_stream,
    handled <- delivered, replies <- pushed

ASSUME RepliesAssumption == Local!Replies \subseteq OutFrames

local == <<pc, outgoing, aio, provider, served>>
serverVars == <<vars, local>>

ServerInit ==
    /\ Init
    /\ pc = "push" /\ outgoing = Local!State("s:acord")
    /\ aio = "none" /\ provider = "none" /\ served = 0

\* What a step at the other end of the channels is for the web socket session.
\* The last owner of the endpoint closes it.
AtOtherEnd ==
    /\ user # "none"
    /\ Wake
    /\ user' = IF \/ pc' = "undefined"
                  \/ pc' = "done" /\ provider' \in {"none", "gone"}
               THEN "gone" ELSE user
    /\ UNCHANGED <<ws, rx, session, network, accepted, sent>>

\* Once LocalSession_connect has started it, the coroutine runs, and what it
\* talks to.
CoroutineStep == Local!CoroutineNext /\ AtOtherEnd
AssetsStep == (Local!AssetsMove \/ Local!AssetsFail) /\ AtOtherEnd
ProviderStep ==
    /\ Local!ProviderState \/ Local!ProviderRead \/ Local!ProviderEnd
    /\ AtOtherEnd

ServerNext ==
    \/ SessionNext /\ UNCHANGED local
    \/ CoroutineStep \/ AssetsStep \/ ProviderStep
    \/ PeerLost /\ UNCHANGED local
    \/ \E m \in InMessages : PeerSend(m) /\ UNCHANGED local

\* The steps of one session are fair, those of the coroutine too, and so is
\* the asset manager; nothing is assumed of the provider's requests.
ServerFairness ==
    /\ WF_serverVars(WsOpened /\ UNCHANGED local)
    /\ WF_serverVars(WsReceived /\ UNCHANGED local)
    /\ WF_serverVars(WsReceivedMalformed /\ UNCHANGED local)
    /\ WF_serverVars(RunTryWrite /\ UNCHANGED local)
    /\ WF_serverVars(RunTryRead /\ UNCHANGED local)
    /\ WF_serverVars(WsCompletedSend /\ UNCHANGED local)
    /\ WF_serverVars(WsClosed /\ UNCHANGED local)
    /\ WF_serverVars(CoroutineStep)
    /\ WF_serverVars(AssetsStep)

ServerSpec == ServerInit /\ [][ServerNext]_serverVars

FairServerSpec == ServerSpec /\ ServerFairness

-----------------------------------------------------------------------------
(* Properties.                                                             *)

\* Together they are a behaviour of CommonWsSession: the local session does
\* nothing to the channels that the theorems about the web socket session do
\* not allow its dispatch side.
SessionSpec == Spec

\* The client receives the state and then an answer to each request it sent,
\* in the order it sent them, across all four queues between the two.
AnswersInOrder ==
    \A i \in 1..served :
        Len(sent) > i => ToAc(sent[i + 1]) \in Local!Answers(accepted[i])

\* The client, which sends MaxWire requests at most, is always answered in
\* full, unless the session ends or a provider takes over: the two pumps and
\* the coroutine, each of them blocked by a full channel at times, never wait
\* for one another in a circle.
ClientIsAnswered ==
    []<>(\/ Len(sent) > Received + Len(wire)
         \/ ws = "closed" \/ provider # "none")

\* When the client is lost, both halves end and release each other, unless a
\* provider is holding the endpoint.
LossReleasesBoth ==
    peer = "lost" ~> (ws = "closed" /\ pc = "done") \/ provider # "none"
=============================================================================
