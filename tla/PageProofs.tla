----------------------------- MODULE PageProofs -----------------------------
(***************************************************************************)
(* Results about Page, for every number of requests, chats and stored      *)
(* turns and all texts, and about the renderer it calls.                   *)
(***************************************************************************)
EXTENDS Page, SequenceLemmas

\* The turns that may be in memory or in storage: a reply comes last in a request.
Fitting == { t \in Turn : /\ t.text \in Renderable
                          /\ t.of \in DOMAIN requests
                          /\ IsReply(t) => ~requests[t.of].live
                          /\ \/ requests[t.of].chat = chat
                             \/ IsReply(t) /\ requests[t.of].late }

Records == /\ requests \in Seq(Request)
           /\ DOMAIN requests \subseteq Callers
           /\ chat \in Nat
           /\ \A r \in DOMAIN requests : /\ requests[r].chat <= chat
                                         /\ requests[r].text \in Renderable

TurnsFit == conversation \in Seq(Fitting) /\ stored \in Seq(Fitting)

LateOrNow == \A r \in DOMAIN requests :
                 requests[r].live => requests[r].chat = chat \/ requests[r].late

\* The suggestions are shown only where no reply or error of this chat is, nor
\* will be: nothing can be started from a button while they are.
HeroAlone ==
    hero => /\ regenerable = {} /\ retriable = {}
            /\ \A r \in DOMAIN requests : requests[r].live =>
                   /\ requests[r].chat # chat
                   /\ requests[r].alone => requests[r].aborted

\* A request that began alone has company only after it was aborted.
Sole == \A r \in DOMAIN requests :
            requests[r].live /\ requests[r].alone /\ ~requests[r].aborted =>
                /\ streaming /\ controller = r
                /\ \A s \in DOMAIN requests : requests[s].live => s = r

StopNamesLive == streaming => controller \in DOMAIN requests /\ requests[controller].live

Buttons == LateOrNow /\ HeroAlone /\ Sole /\ StopNamesLive

IInv == Records /\ TurnsFit /\ Buttons
-----------------------------------------------------------------------------
(***************************************************************************)
(* What the steps do to the records of the requests                        *)
(***************************************************************************)

LEMMA NothingRenders == NoText \in Renderable
  BY DEF Renderable

LEMMA Grown ==
    ASSUME Records, RequestAssistant
    PROVE  /\ requests' \in Seq(Request)
           /\ NextRequest \in Callers /\ NextRequest \notin DOMAIN requests
           /\ DOMAIN requests' = DOMAIN requests \cup {NextRequest}
           /\ \A s \in DOMAIN requests : requests'[s] = requests[s]
           /\ requests'[NextRequest] =
                  [live |-> TRUE, aborted |-> FALSE, text |-> NoText, chat |-> chat,
                   late |-> FALSE, alone |-> \A s \in DOMAIN requests : ~Live(s)]
           /\ controller' = NextRequest /\ streaming'
<1> DEFINE new == [live |-> TRUE, aborted |-> FALSE, text |-> NoText, chat |-> chat,
                   late |-> FALSE, alone |-> \A s \in DOMAIN requests : ~Live(s)]
<1>0. (\A s \in DOMAIN requests : ~Live(s)) \in BOOLEAN
  OBVIOUS
<1>1. new \in Request
  BY <1>0 DEF Request, Records
<1>2. requests \in Seq(Request) /\ requests' = Append(requests, new)
  BY DEF RequestAssistant, Records, NextRequest
<1> HIDE DEF new
<1>3. /\ requests' \in Seq(Request)
      /\ Len(requests') = Len(requests) + 1
      /\ \A i \in 1..Len(requests) : requests'[i] = requests[i]
      /\ requests'[Len(requests) + 1] = new
  BY <1>1, <1>2, AppendProperties
<1>4. Len(requests) \in Nat /\ DOMAIN requests = 1..Len(requests)
      /\ DOMAIN requests' = 1..Len(requests')
  BY <1>2, <1>3
<1>5. NextRequest <= MaxRequests /\ controller' = NextRequest /\ streaming'
  BY DEF RequestAssistant
<1> QED BY <1>3, <1>4, <1>5, PageAssumption DEF NextRequest, new

LEMMA Changed ==
    ASSUME requests \in Seq(Request), NEW r \in DOMAIN requests, NEW q \in Request
    PROVE  /\ [requests EXCEPT ![r] = q] \in Seq(Request)
           /\ DOMAIN [requests EXCEPT ![r] = q] = DOMAIN requests
           /\ \A s \in DOMAIN requests :
                  [requests EXCEPT ![r] = q][s] = IF s = r THEN q ELSE requests[s]
  BY ExceptSeq

LEMMA Finished ==
    ASSUME Records, NEW r \in DOMAIN requests, Finally(r)
    PROVE  /\ requests' \in Seq(Request)
           /\ DOMAIN requests' = DOMAIN requests
           /\ \A s \in DOMAIN requests :
                  requests'[s] = IF s = r THEN [requests[r] EXCEPT !.live = FALSE]
                                 ELSE requests[s]
           /\ ~streaming' /\ UNCHANGED <<hero, chat>>
<1>1. requests[r] \in Request
  BY DEF Records
<1>2. [requests[r] EXCEPT !.live = FALSE] \in Request
  BY <1>1 DEF Request
<1>3. requests' = [requests EXCEPT ![r] = [requests[r] EXCEPT !.live = FALSE]]
      /\ ~streaming' /\ UNCHANGED <<hero, chat>>
  BY DEF Finally
<1> QED BY <1>2, <1>3, Changed DEF Records
-----------------------------------------------------------------------------
(***************************************************************************)
(* What they do to the turns                                               *)
(***************************************************************************)

LEMMA LastTurnsType ==
    ASSUME NEW G, NEW turns \in Seq(G)
    PROVE  LastTurns(turns) \in Seq(G)
<1> DEFINE S == {1, Len(turns) - MaxStoredTurns + 1}
           m == CHOOSE x \in S : \A y \in S : x >= y
<1>1. Len(turns) \in Nat /\ MaxStoredTurns \in Nat
  BY PageAssumption
<1>2. \E x \in S : \A y \in S : x >= y
  BY <1>1
<1>3. m \in S /\ \A y \in S : m >= y
  BY <1>2
<1>4. m \in Int /\ m >= 1
  BY <1>1, <1>3
<1> HIDE DEF m
<1>5. \A i \in m..Len(turns) : turns[i] \in G
  BY <1>1, <1>4
<1>6. SubSeq(turns, m, Len(turns)) \in Seq(G)
  BY <1>1, <1>4, <1>5, SubSeqProperties
<1> QED BY <1>6 DEF LastTurns, Max, m

LEMMA SavedType ==
    ASSUME NEW G, NEW turns \in Seq(G), stored \in Seq(G), SaveConversation(turns)
    PROVE  stored' \in Seq(G)
  BY LastTurnsType DEF SaveConversation

LEMMA PushedType ==
    ASSUME NEW G, conversation \in Seq(G), stored \in Seq(G), NEW t \in G, Push(t)
    PROVE  conversation' \in Seq(G) /\ stored' \in Seq(G)
<1>1. conversation' = Append(conversation, t) /\ SaveConversation(conversation')
  BY DEF Push
<1>2. conversation' \in Seq(G)
  BY <1>1, AppendProperties
<1> QED BY <1>1, <1>2, SavedType

LEMMA RemovedType ==
    ASSUME NEW G, NEW turns \in Seq(G), NEW i \in DOMAIN turns
    PROVE  RemoveAt(turns, i) \in Seq(G)
<1>1. Len(turns) \in Nat /\ DOMAIN turns = 1..Len(turns)
  OBVIOUS
<1>2. SubSeq(turns, 1, i - 1) \in Seq(G) /\ SubSeq(turns, i + 1, Len(turns)) \in Seq(G)
  BY <1>1, SubSeqProperties
<1> QED BY <1>2, ConcatProperties DEF RemoveAt

LEMMA DroppedType ==
    ASSUME NEW G, conversation \in Seq(G), stored \in Seq(G), DropLastReply
    PROVE  conversation' \in Seq(G) /\ stored' \in Seq(G)
<1>1. CASE UNCHANGED <<conversation, stored>>
  BY <1>1
<1>2. CASE \E i \in DOMAIN conversation :
              /\ conversation' = RemoveAt(conversation, i)
              /\ SaveConversation(conversation')
  BY <1>2, RemovedType, SavedType
<1> QED BY <1>1, <1>2 DEF DropLastReply

\* Turns that fit go on to, as long as records keep their chat and their lateness,
\* and no request comes to life again.
LEMMA StillFitting ==
    ASSUME TurnsFit, chat' = chat, DOMAIN requests \subseteq DOMAIN requests',
           \A s \in DOMAIN requests : /\ requests'[s].chat = requests[s].chat
                                      /\ requests'[s].late = requests[s].late
                                      /\ requests'[s].live => requests[s].live
    PROVE  conversation \in Seq(Fitting') /\ stored \in Seq(Fitting')
<1>1. Fitting \subseteq Fitting'
  BY DEF Fitting
<1>2. \A turns \in Seq(Fitting) : turns \in Seq(Fitting')
  BY <1>1
<1> QED BY <1>2 DEF TurnsFit
-----------------------------------------------------------------------------
(***************************************************************************)
(* The steps                                                               *)
(***************************************************************************)

LEMMA InitInv == Init => IInv
<1> SUFFICES ASSUME Init PROVE IInv
  OBVIOUS
<1>1. requests = <<>> /\ conversation = <<>> /\ stored = <<>> /\ chat = 0 /\ ~streaming
      /\ regenerable = {} /\ retriable = {}
  BY DEF Init
<1>2. DOMAIN requests = {} /\ requests \in Seq(Request)
  BY <1>1
<1>3. <<>> \in Seq(Fitting)
  OBVIOUS
<1> QED BY <1>1, <1>2, <1>3 DEF IInv, Records, TurnsFit, Buttons, LateOrNow, HeroAlone,
                                Sole, StopNamesLive

\* A request begins, with nothing to be begun from the suggestions, while none is at
\* work that could still be stopped.
LEMMA BegunInv ==
    ASSUME IInv, RequestAssistant, chat' = chat, ~hero',
           \A r \in DOMAIN requests :
               ~(requests[r].live /\ requests[r].alone /\ ~requests[r].aborted)
    PROVE  Records' /\ Buttons'
<1> DEFINE n == NextRequest
<1>1. Records
  BY DEF IInv
<1>2. /\ requests' \in Seq(Request)
      /\ n \notin DOMAIN requests
      /\ DOMAIN requests' = DOMAIN requests \cup {n}
      /\ \A s \in DOMAIN requests : requests'[s] = requests[s]
      /\ requests'[n].live /\ requests'[n].chat = chat /\ requests'[n].text = NoText
      /\ requests'[n].alone <=> \A s \in DOMAIN requests : ~requests[s].live
      /\ controller' = n /\ streaming'
  BY <1>1, Grown DEF Live
<1> HIDE DEF n
<1>3. Records'
  BY <1>1, <1>2, Grown, NothingRenders DEF Records
<1>4. LateOrNow'
  BY <1>2 DEF IInv, Buttons, LateOrNow
<1>5. Sole'
  BY <1>2 DEF Sole
<1>6. StopNamesLive' /\ HeroAlone'
  BY <1>2 DEF StopNamesLive, HeroAlone
<1> QED BY <1>3, <1>4, <1>5, <1>6 DEF Buttons

\* A request is over: its reply or its error may be on the page from now on.
LEMMA OverInv ==
    ASSUME IInv, NEW r, Live(r), Finally(r),
           regenerable' \subseteq regenerable \cup {r},
           retriable' \subseteq retriable \cup {r},
           requests[r].chat # chat => UNCHANGED <<regenerable, retriable>>
    PROVE  Records' /\ Buttons'
<1>1. Records /\ r \in DOMAIN requests /\ requests[r].live
  BY DEF IInv, Live
<1>2. /\ requests' \in Seq(Request) /\ DOMAIN requests' = DOMAIN requests
      /\ \A s \in DOMAIN requests :
             /\ requests'[s].live <=> requests[s].live /\ s # r
             /\ requests'[s].chat = requests[s].chat /\ requests'[s].late = requests[s].late
             /\ requests'[s].alone = requests[s].alone
             /\ requests'[s].aborted = requests[s].aborted
             /\ requests'[s].text = requests[s].text
      /\ ~streaming' /\ hero' = hero /\ chat' = chat
  <2>1. requests[r] \in Request
    BY <1>1 DEF Records
  <2>2. /\ requests' \in Seq(Request) /\ DOMAIN requests' = DOMAIN requests
        /\ \A s \in DOMAIN requests : s # r => requests'[s] = requests[s]
        /\ requests'[r] = [requests[r] EXCEPT !.live = FALSE]
        /\ ~streaming' /\ hero' = hero /\ chat' = chat
    BY <1>1, Finished
  <2>3. /\ ~requests'[r].live
        /\ requests'[r].chat = requests[r].chat /\ requests'[r].late = requests[r].late
        /\ requests'[r].alone = requests[r].alone
        /\ requests'[r].aborted = requests[r].aborted
        /\ requests'[r].text = requests[r].text
    BY <2>1, <2>2 DEF Request
  <2> QED BY <1>1, <2>2, <2>3
<1>3. Records'
  BY <1>1, <1>2 DEF Records
<1>4. LateOrNow'
  BY <1>2 DEF IInv, Buttons, LateOrNow
<1>5. Sole'
  BY <1>1, <1>2 DEF IInv, Buttons, Sole
<1>6. HeroAlone'
  BY <1>1, <1>2 DEF IInv, Buttons, HeroAlone
<1>7. StopNamesLive'
  BY <1>2 DEF StopNamesLive
<1> QED BY <1>3, <1>4, <1>5, <1>6, <1>7 DEF Buttons

\* The reply of a live request fits, before and after its last step.
LEMMA ReplyFits ==
    ASSUME IInv, NEW r, Live(r), Finally(r)
    PROVE  Reply(r) \in Fitting'
<1>1. Records /\ r \in DOMAIN requests /\ requests[r].live
  BY DEF IInv, Live
<1>2. requests[r] \in Request /\ r \in 1..Len(requests)
  BY <1>1 DEF Records
<1>3. /\ DOMAIN requests' = DOMAIN requests /\ chat' = chat
      /\ requests'[r].chat = requests[r].chat /\ requests'[r].late = requests[r].late
      /\ ~requests'[r].live
  BY <1>1, <1>2, Finished DEF Request
<1>4. requests[r].chat = chat \/ requests[r].late
  BY <1>1 DEF IInv, Buttons, LateOrNow
<1>5. Reply(r) \in Turn /\ IsReply(Reply(r)) /\ Reply(r).of = r
      /\ Reply(r).text \in Renderable
  BY <1>1, <1>2 DEF Records, Reply, IsReply, Turn, Request
<1> HIDE DEF Reply, IsReply
<1> QED BY <1>1, <1>3, <1>4, <1>5 DEF Fitting

\* So do the other turns.
LEMMA TurnsFitAfter ==
    ASSUME IInv, NEW r, Live(r), Finally(r)
    PROVE  conversation \in Seq(Fitting') /\ stored \in Seq(Fitting')
<1>1. Records /\ r \in DOMAIN requests /\ requests[r] \in Request
  BY DEF IInv, Live, Records
<1>2. /\ DOMAIN requests' = DOMAIN requests /\ chat' = chat
      /\ \A s \in DOMAIN requests : s # r => requests'[s] = requests[s]
      /\ requests'[r] = [requests[r] EXCEPT !.live = FALSE]
  BY <1>1, Finished
<1>3. requests'[r].chat = requests[r].chat /\ requests'[r].late = requests[r].late
      /\ ~requests'[r].live
  BY <1>1, <1>2 DEF Request
<1> QED BY <1>2, <1>3, StillFitting DEF IInv

LEMMA SendInv ==
    ASSUME IInv, Send,
           \A r \in DOMAIN requests :
               ~(requests[r].live /\ requests[r].alone /\ ~requests[r].aborted)
    PROVE  IInv'
<1>1. Records /\ RequestAssistant /\ Push(UserTurn(NextRequest)) /\ ~hero' /\ chat' = chat
  BY DEF Send, IInv
<1>2. Records' /\ Buttons'
  BY <1>1, BegunInv
<1>3. UserTurn(NextRequest) \in Fitting'
  <2> DEFINE n == NextRequest
  <2>1. n \in Callers /\ n \in DOMAIN requests' /\ requests'[n].chat = chat'
    BY <1>1, Grown
  <2> HIDE DEF n
  <2>2. [role |-> "user", of |-> n, text |-> NoText] \in Fitting'
    BY <2>1, NothingRenders DEF Fitting, Turn, IsReply
  <2> QED BY <2>2 DEF UserTurn, n
<1>4. conversation \in Seq(Fitting') /\ stored \in Seq(Fitting')
  BY <1>1, Grown, StillFitting DEF IInv
<1>5. conversation' \in Seq(Fitting') /\ stored' \in Seq(Fitting')
  BY <1>1, <1>3, <1>4, PushedType
<1> QED BY <1>2, <1>5 DEF IInv, TurnsFit

\* An attribute of a request changes that no other part of the invariant rests on.
LEMMA MarkedInv ==
    ASSUME IInv, NEW r \in DOMAIN requests, NEW q \in Request,
           requests' = [requests EXCEPT ![r] = q], UNCHANGED pageVars,
           q.live = requests[r].live, q.chat = requests[r].chat, q.late = requests[r].late,
           q.alone = requests[r].alone, requests[r].aborted => q.aborted,
           q.text \in Renderable
    PROVE  IInv'
<1>1. requests \in Seq(Request)
  BY DEF IInv, Records
<1>2. /\ requests' \in Seq(Request) /\ DOMAIN requests' = DOMAIN requests
      /\ \A s \in DOMAIN requests : requests'[s] = IF s = r THEN q ELSE requests[s]
  BY <1>1, Changed
<1>3. Records'
  BY <1>2 DEF IInv, Records, pageVars
<1>4. TurnsFit'
  BY <1>2, StillFitting DEF IInv, TurnsFit, pageVars
<1>5. LateOrNow' /\ StopNamesLive'
  BY <1>2 DEF IInv, Buttons, LateOrNow, StopNamesLive, pageVars
<1>6. HeroAlone'
  BY <1>2 DEF IInv, Buttons, HeroAlone, pageVars
<1>7. Sole'
  BY <1>2 DEF IInv, Buttons, Sole, pageVars
<1> QED BY <1>3, <1>4, <1>5, <1>6, <1>7 DEF IInv, Buttons

LEMMA UnmarkedInv ==
    ASSUME IInv, UNCHANGED <<requests, pageVars>>
    PROVE  IInv'
  BY DEF pageVars, IInv, Records, TurnsFit, Fitting, Buttons, LateOrNow, HeroAlone, Sole,
         StopNamesLive

LEMMA NewChatInv == IInv /\ NewChat => IInv'
<1> SUFFICES ASSUME IInv, NewChat PROVE IInv'
  OBVIOUS
<1>1. Records /\ chat' = chat + 1 /\ hero' /\ streaming' = streaming
      /\ controller' = controller /\ regenerable' = {} /\ retriable' = {}
      /\ conversation' = <<>> /\ stored' = <<>>
  BY DEF NewChat, IInv, ClearStoredConversation
<1>2. Len(requests) \in Nat /\ DOMAIN requests = 1..Len(requests)
      /\ \A r \in DOMAIN requests : requests[r] \in Request
  BY <1>1 DEF Records
<1> DEFINE q(r) == [requests[r] EXCEPT !.aborted = @ \/ (streaming /\ r = controller),
                                       !.late = @ \/ Live(r)]
<1>3. requests' = [r \in DOMAIN requests |-> q(r)]
  BY DEF NewChat
<1>4. \A r \in DOMAIN requests :
          /\ q(r) \in Request
          /\ q(r).live = requests[r].live /\ q(r).chat = requests[r].chat
          /\ q(r).alone = requests[r].alone
          /\ q(r).aborted <=> requests[r].aborted \/ (streaming /\ r = controller)
          /\ requests[r].live => q(r).late
          /\ q(r).text = requests[r].text
  BY <1>2 DEF Request, Live
<1> HIDE DEF q
<1>5. DOMAIN requests' = DOMAIN requests /\ \A r \in DOMAIN requests : requests'[r] = q(r)
  BY <1>3
<1>6. requests' \in Seq(Request)
  BY <1>2, <1>3, <1>4
<1>7. Records'
  BY <1>1, <1>2, <1>4, <1>5, <1>6 DEF Records, Request
<1>8. TurnsFit'
  BY <1>1 DEF TurnsFit
<1>9. LateOrNow'
  BY <1>4, <1>5 DEF LateOrNow
<1>10. HeroAlone'
  <2>1. ASSUME NEW r \in DOMAIN requests, requests'[r].live
        PROVE  /\ requests'[r].chat # chat'
               /\ requests'[r].alone => requests'[r].aborted
    <3>1. requests[r].live /\ requests'[r].chat = requests[r].chat
          /\ requests[r].chat \in Nat /\ requests[r].chat <= chat
      BY <1>1, <1>2, <1>4, <1>5, <2>1 DEF Records, Request
    <3>2. requests'[r].chat # chat'
      BY <1>1, <3>1 DEF Records
    <3>3. requests[r].alone => requests[r].aborted \/ (streaming /\ controller = r)
      BY <3>1 DEF IInv, Buttons, Sole
    <3> QED BY <1>4, <1>5, <3>2, <3>3
  <2> QED BY <1>1, <1>5, <2>1 DEF HeroAlone
<1>11. Sole'
  BY <1>1, <1>4, <1>5 DEF IInv, Buttons, Sole
<1>12. StopNamesLive'
  BY <1>1, <1>4, <1>5 DEF IInv, Buttons, StopNamesLive
<1> QED BY <1>7, <1>8, <1>9, <1>10, <1>11, <1>12 DEF IInv, Buttons

LEMMA ReloadInv == IInv /\ Reload => IInv'
<1> SUFFICES ASSUME IInv, Reload PROVE IInv'
  OBVIOUS
<1>1. Records /\ chat' = chat /\ ~streaming' /\ conversation' = stored /\ stored' = stored
      /\ hero' = (stored = <<>>) /\ retriable' = {}
      /\ regenerable' = { t.of : t \in { u \in Range(stored) : IsReply(u) /\ u.text # NoText } }
  BY DEF Reload, IInv
<1>2. Len(requests) \in Nat /\ DOMAIN requests = 1..Len(requests)
      /\ \A r \in DOMAIN requests : requests[r] \in Request
  BY <1>1 DEF Records
<1> DEFINE q(r) == [requests[r] EXCEPT !.live = FALSE]
<1>3. requests' = [r \in DOMAIN requests |-> q(r)]
  BY DEF Reload
<1>4. \A r \in DOMAIN requests :
          /\ q(r) \in Request
          /\ ~q(r).live /\ q(r).chat = requests[r].chat /\ q(r).late = requests[r].late
          /\ q(r).text = requests[r].text
  BY <1>2 DEF Request
<1> HIDE DEF q
<1>5. DOMAIN requests' = DOMAIN requests /\ \A r \in DOMAIN requests : requests'[r] = q(r)
  BY <1>3
<1>6. requests' \in Seq(Request)
  BY <1>2, <1>3, <1>4
<1>7. Records'
  BY <1>1, <1>4, <1>5, <1>6 DEF Records
<1>8. TurnsFit'
  BY <1>1, <1>4, <1>5, StillFitting DEF IInv, TurnsFit
<1>9. LateOrNow' /\ Sole' /\ StopNamesLive'
  BY <1>1, <1>4, <1>5 DEF LateOrNow, Sole, StopNamesLive
<1>10. HeroAlone'
  <2>1. hero' => regenerable' = {}
    <3>1. stored = <<>> => Range(stored) = {}
      BY DEF Range
    <3> QED BY <1>1, <3>1
  <2> QED BY <1>1, <1>4, <1>5, <2>1 DEF HeroAlone
<1> QED BY <1>7, <1>8, <1>9, <1>10 DEF IInv, Buttons

LEMMA StepInv == IInv /\ [Next]_vars => IInv'
<1> SUFFICES ASSUME IInv, [Next]_vars PROVE IInv'
  OBVIOUS
<1>0. Records
  BY DEF IInv
<1>1. ASSUME NEW r \in DOMAIN requests, NEW text \in Texts, ContentChunk(r, text) PROVE IInv'
  <2> DEFINE q == [requests[r] EXCEPT !.text = text]
  <2>1. requests[r] \in Request
    BY <1>0 DEF Records
  <2>2. q \in Request /\ q.live = requests[r].live /\ q.chat = requests[r].chat
        /\ q.late = requests[r].late /\ q.alone = requests[r].alone
        /\ q.aborted = requests[r].aborted /\ q.text = text
    BY <2>1 DEF Request
  <2>3. /\ \/ requests' = [requests EXCEPT ![r] = q] /\ text \in Renderable
           \/ requests' = requests
        /\ UNCHANGED pageVars
    BY <1>1 DEF ContentChunk
  <2> HIDE DEF q
  <2> QED BY <2>2, <2>3, MarkedInv, UnmarkedInv
<1>2. ASSUME NEW r \in DOMAIN requests, CallEnds(r) PROVE IInv'
  <2>1. Live(r) /\ Finally(r) /\ Push(Reply(r))
    BY <1>2 DEF CallEnds
  <2>2. /\ regenerable' \subseteq regenerable \cup {r} /\ retriable' = retriable
        /\ requests[r].chat # chat => UNCHANGED <<regenerable, retriable>>
    BY <1>2 DEF CallEnds, OnPage
  <2>3. Records' /\ Buttons'
    BY <2>1, <2>2, OverInv
  <2>4. TurnsFit'
    <3>1. conversation \in Seq(Fitting') /\ stored \in Seq(Fitting')
      BY <2>1, TurnsFitAfter
    <3> QED BY <2>1, <3>1, ReplyFits, PushedType DEF TurnsFit
  <2> QED BY <2>3, <2>4 DEF IInv
<1>3. ASSUME NEW r \in DOMAIN requests, CallThrows(r) PROVE IInv'
  <2>1. Live(r) /\ Finally(r)
    BY <1>3 DEF CallThrows
  <2>2. /\ retriable' \subseteq retriable \cup {r} /\ regenerable' = regenerable
        /\ requests[r].chat # chat => UNCHANGED <<regenerable, retriable>>
    BY <1>3 DEF CallThrows, OnPage
  <2>3. Records' /\ Buttons'
    BY <2>1, <2>2, OverInv
  <2>4. TurnsFit'
    <3>1. conversation \in Seq(Fitting') /\ stored \in Seq(Fitting')
      BY <2>1, TurnsFitAfter
    <3>2. CASE Push(Reply(r))
      BY <2>1, <3>1, <3>2, ReplyFits, PushedType DEF TurnsFit
    <3>3. CASE UNCHANGED <<conversation, stored>>
      BY <3>1, <3>3 DEF TurnsFit
    <3> QED BY <1>3, <3>2, <3>3 DEF CallThrows
  <2> QED BY <2>3, <2>4 DEF IInv
<1>4. CASE Submit
  <2>1. CASE streaming /\ AbortController /\ UNCHANGED pageVars
    <3> DEFINE c == controller
               q == [requests[c] EXCEPT !.aborted = TRUE]
    <3>1. c \in DOMAIN requests
      BY <2>1 DEF IInv, Buttons, StopNamesLive
    <3>2. requests[c] \in Request
      BY <1>0, <3>1 DEF Records
    <3>3. q \in Request /\ q.live = requests[c].live /\ q.chat = requests[c].chat
          /\ q.late = requests[c].late /\ q.alone = requests[c].alone /\ q.aborted
          /\ q.text = requests[c].text
      BY <3>2 DEF Request
    <3>5. requests[c].text \in Renderable
      BY <1>0, <3>1 DEF Records
    <3>4. requests' = [requests EXCEPT ![c] = q]
      BY <2>1 DEF AbortController
    <3> HIDE DEF c, q
    <3> QED BY <2>1, <3>1, <3>3, <3>4, <3>5, MarkedInv
  <2>2. CASE ~streaming /\ Send
    BY <2>2, SendInv DEF IInv, Buttons, Sole
  <2> QED BY <1>4, <2>1, <2>2 DEF Submit
<1>5. CASE Suggest
  BY <1>5, SendInv DEF Suggest, IInv, Buttons, HeroAlone
<1>6. CASE NewChat
  BY <1>6, NewChatInv
<1>7. ASSUME NEW r \in regenerable, Regenerate(r) PROVE IInv'
  <2>1. RequestAssistant /\ chat' = chat /\ hero' = hero /\ ~streaming /\ DropLastReply
    BY <1>7 DEF Regenerate
  <2>2. Records' /\ Buttons'
    BY <1>7, <2>1, BegunInv DEF IInv, Buttons, HeroAlone, Sole
  <2>3. conversation \in Seq(Fitting') /\ stored \in Seq(Fitting')
    BY <1>0, <2>1, Grown, StillFitting DEF IInv
  <2>4. TurnsFit'
    BY <2>1, <2>3, DroppedType DEF TurnsFit
  <2> QED BY <2>2, <2>4 DEF IInv
<1>8. ASSUME NEW r \in retriable, Retry(r) PROVE IInv'
  <2>1. RequestAssistant /\ chat' = chat /\ hero' = hero /\ ~streaming
        /\ UNCHANGED <<conversation, stored>>
    BY <1>8 DEF Retry
  <2>2. Records' /\ Buttons'
    BY <1>8, <2>1, BegunInv DEF IInv, Buttons, HeroAlone, Sole
  <2>3. TurnsFit'
    BY <1>0, <2>1, Grown, StillFitting DEF IInv, TurnsFit
  <2> QED BY <2>2, <2>3 DEF IInv
<1>9. CASE Reload
  BY <1>9, ReloadInv
<1>10. CASE UNCHANGED vars
  BY <1>10, UnmarkedInv DEF vars
<1> QED BY <1>1, <1>2, <1>3, <1>4, <1>5, <1>6, <1>7, <1>8, <1>9, <1>10
        DEF Next, Act, CallOver

LEMMA Always == Spec => []IInv
  BY InitInv, StepInv, PTL DEF Spec

\* Stop names a request at work, and a request that began alone can be stopped
\* until it was, whatever is clicked, loaded anew or refused by the storage.
THEOREM StopWorks == Spec => []ButtonTellsTruth
<1>1. IInv => ButtonTellsTruth
  BY DEF IInv, Buttons, StopNamesLive, Sole, ButtonTellsTruth, Live
<1> QED BY <1>1, Always, PTL

\* A cleared chat stays cleared, but for the reply of a call that was at work.
THEOREM NothingClearedReturns == Spec => []ClearedStaysCleared
<1>1. IInv => ClearedStaysCleared
  <2> SUFFICES ASSUME IInv, NEW t \in Range(conversation) \cup Range(stored)
               PROVE  requests[t.of].chat = chat \/ (IsReply(t) /\ requests[t.of].late)
    BY DEF ClearedStaysCleared
  <2>1. \A turns \in Seq(Fitting) : Range(turns) \subseteq Fitting
    BY DEF Range
  <2>2. t \in Fitting
    BY <2>1 DEF IInv, TurnsFit
  <2> QED BY <2>2 DEF Fitting
<1> QED BY <1>1, Always, PTL

\* Whichever texts the renderer loops on, none of them is ever stored.
THEOREM ReloadCures == Spec => []ReloadUnfreezes
<1>1. IInv => ReloadUnfreezes
  BY DEF IInv, TurnsFit, Fitting, ReloadUnfreezes, Range
<1> QED BY <1>1, Always, PTL
-----------------------------------------------------------------------------
(***************************************************************************)
(* Memory and storage                                                      *)
(***************************************************************************)

Single(turns) == \A i, j \in DOMAIN turns :
                    turns[i].of = turns[j].of /\ turns[i].role = turns[j].role => i = j

\* s is the end of t, as far as the storage goes.
Follows(s, t) == /\ Len(s) = IF Len(t) <= MaxStoredTurns THEN Len(t) ELSE MaxStoredTurns
                 /\ \A i \in 1..Len(s) : s[i] = t[Len(t) - Len(s) + i]

Stores == /\ Single(conversation) /\ Single(stored)
          /\ Len(stored) <= MaxStoredTurns
          /\ saved => Follows(stored, conversation)

LEMMA LastTurnsFollow ==
    ASSUME NEW G, NEW turns \in Seq(G), Single(turns)
    PROVE  /\ Follows(LastTurns(turns), turns)
           /\ Single(LastTurns(turns))
           /\ Len(LastTurns(turns)) <= MaxStoredTurns
<1> DEFINE n == Len(turns)
           S == {1, n - MaxStoredTurns + 1}
           m == CHOOSE x \in S : \A y \in S : x >= y
           t == SubSeq(turns, m, n)
<1>1. n \in Nat /\ MaxStoredTurns \in Nat /\ MaxStoredTurns > 0
  BY PageAssumption
<1>2. \E x \in S : \A y \in S : x >= y
  BY <1>1
<1>3. m \in S /\ \A y \in S : m >= y
  BY <1>2
<1>4. m = IF n <= MaxStoredTurns THEN 1 ELSE n - MaxStoredTurns + 1
  BY <1>1, <1>3
<1>5. LastTurns(turns) = t
  BY DEF LastTurns, Max
<1> HIDE DEF m
<1>6. m \in 1..(n + 1)
  BY <1>1, <1>4
<1>7. /\ t \in Seq(G) /\ Len(t) = n - m + 1
      /\ \A i \in 1..(n - m + 1) : t[i] = turns[m + i - 1]
  <2>1. \A i \in m..n : turns[i] \in G
    BY <1>1, <1>6
  <2> QED BY <1>1, <1>6, <2>1, SubSeqProperties
<1> HIDE DEF t
<1>8. Len(t) = IF n <= MaxStoredTurns THEN n ELSE MaxStoredTurns
  BY <1>1, <1>4, <1>7
<1>9. \A i \in 1..Len(t) : t[i] = turns[n - Len(t) + i] /\ n - Len(t) + i \in 1..n
  <2> SUFFICES ASSUME NEW i \in 1..Len(t)
               PROVE  t[i] = turns[n - Len(t) + i] /\ n - Len(t) + i \in 1..n
    OBVIOUS
  <2>1. Len(t) = n - m + 1
    BY <1>7
  <2>2. n - Len(t) + i = m + i - 1 /\ n - Len(t) + i \in 1..n /\ i \in 1..(n - m + 1)
    BY <1>1, <1>6, <2>1
  <2>3. t[i] = turns[m + i - 1]
    BY <1>7, <2>2
  <2> QED BY <2>2, <2>3
<1>10. Follows(t, turns)
  BY <1>8, <1>9 DEF Follows
<1>11. Single(t)
  <2> SUFFICES ASSUME NEW i \in DOMAIN t, NEW j \in DOMAIN t,
                      t[i].of = t[j].of, t[i].role = t[j].role
               PROVE  i = j
    BY DEF Single
  <2>1. i \in 1..Len(t) /\ j \in 1..Len(t) /\ Len(t) \in Nat
    BY <1>7
  <2>2. n - Len(t) + i \in DOMAIN turns /\ n - Len(t) + j \in DOMAIN turns
    BY <1>1, <1>9, <2>1
  <2>3. n - Len(t) + i = n - Len(t) + j
    BY <1>9, <2>1, <2>2 DEF Single
  <2> QED BY <1>1, <2>1, <2>3
<1>12. Len(t) <= MaxStoredTurns
  BY <1>1, <1>8
<1> QED BY <1>5, <1>10, <1>11, <1>12

LEMMA SavedStores ==
    ASSUME Stores, NEW G, conversation' \in Seq(G), Single(conversation'),
           SaveConversation(conversation')
    PROVE  Stores'
<1>1. CASE stored' = LastTurns(conversation')
  BY <1>1, LastTurnsFollow DEF Stores
<1>2. CASE stored' = stored /\ saved' = FALSE
  BY <1>2 DEF Stores, Single
<1> QED BY <1>1, <1>2 DEF SaveConversation

\* A turn is pushed that is not there.
LEMMA PushedStores ==
    ASSUME Stores, NEW G, conversation \in Seq(G), NEW t \in G, Push(t),
           \A i \in DOMAIN conversation :
               ~(conversation[i].of = t.of /\ conversation[i].role = t.role)
    PROVE  Stores'
<1> DEFINE c == conversation
<1>1. conversation' = Append(c, t) /\ SaveConversation(conversation')
  BY DEF Push
<1>2. /\ conversation' \in Seq(G) /\ Len(conversation') = Len(c) + 1
      /\ \A i \in 1..Len(c) : conversation'[i] = c[i]
      /\ conversation'[Len(c) + 1] = t
  BY <1>1, AppendProperties
<1>3. Len(c) \in Nat /\ DOMAIN c = 1..Len(c) /\ DOMAIN conversation' = 1..(Len(c) + 1)
  BY <1>2
<1>4. Single(conversation')
  BY <1>2, <1>3 DEF Stores, Single
<1> QED BY <1>1, <1>2, <1>4, SavedStores

LEMMA DroppedStores ==
    ASSUME Stores, NEW G, conversation \in Seq(G), DropLastReply
    PROVE  Stores'
<1>1. CASE UNCHANGED <<conversation, stored, saved>>
  BY <1>1 DEF Stores, Single, Follows
<1>2. ASSUME NEW i \in DOMAIN conversation,
             conversation' = RemoveAt(conversation, i), SaveConversation(conversation')
      PROVE  Stores'
  <2> DEFINE c == conversation
             t == RemoveAt(c, i)
  <2>1. /\ t \in Seq(G) /\ Len(t) = Len(c) - 1
        /\ \A j \in 1..(Len(c) - 1) : t[j] = IF j < i THEN c[j] ELSE c[j + 1]
    BY Removed
  <2> HIDE DEF t
  <2>2. Len(c) \in Nat /\ DOMAIN c = 1..Len(c) /\ DOMAIN t = 1..(Len(c) - 1)
        /\ i \in 1..Len(c)
    BY <2>1
  <2>3. Single(t)
    <3> SUFFICES ASSUME NEW j \in DOMAIN t, NEW l \in DOMAIN t,
                        t[j].of = t[l].of, t[j].role = t[l].role
                 PROVE  j = l
      BY DEF Single
    <3> DEFINE at(x) == IF x < i THEN x ELSE x + 1
    <3>1. /\ at(j) \in DOMAIN c /\ at(l) \in DOMAIN c
          /\ t[j] = c[at(j)] /\ t[l] = c[at(l)]
      BY <2>1, <2>2
    <3>2. at(j) = at(l)
      BY <3>1 DEF Stores, Single
    <3> QED BY <2>2, <3>2
  <2> QED BY <1>2, <2>1, <2>3, SavedStores DEF t
<1> QED BY <1>1, <1>2 DEF DropLastReply

LEMMA ReplyIsNew ==
    ASSUME IInv, NEW r, Live(r)
    PROVE  \A i \in DOMAIN conversation :
               ~(conversation[i].of = Reply(r).of /\ conversation[i].role = Reply(r).role)
<1> SUFFICES ASSUME NEW i \in DOMAIN conversation, conversation[i].of = r,
                    conversation[i].role = "assistant"
             PROVE  FALSE
  BY DEF Reply
<1>1. conversation[i] \in Fitting
  BY DEF IInv, TurnsFit
<1> QED BY <1>1 DEF Fitting, IsReply, Live

LEMMA QuestionIsNew ==
    ASSUME IInv
    PROVE  \A i \in DOMAIN conversation : conversation[i].of # NextRequest
<1> SUFFICES ASSUME NEW i \in DOMAIN conversation, conversation[i].of = Len(requests) + 1
             PROVE  FALSE
  BY DEF NextRequest
<1>1. conversation[i] \in Fitting /\ requests \in Seq(Request)
  BY DEF IInv, TurnsFit, Records
<1>2. Len(requests) + 1 \in DOMAIN requests
  BY <1>1 DEF Fitting
<1> QED BY <1>1, <1>2

LEMMA ReloadStores == IInv /\ Stores /\ Reload => Stores'
<1> SUFFICES ASSUME IInv, Stores, Reload PROVE Stores'
  OBVIOUS
<1>1. conversation' = stored /\ stored' = stored /\ stored \in Seq(Fitting)
  BY DEF Reload, IInv, TurnsFit
<1>2. Len(stored) \in Nat /\ Len(stored) <= MaxStoredTurns
  BY <1>1 DEF Stores
<1>3. Follows(stored, stored)
  BY <1>2 DEF Follows
<1> QED BY <1>1, <1>2, <1>3 DEF Stores, Single, Follows

LEMMA StoresInit == Init => Stores
BY PageAssumption DEF Init, Stores, Single, Follows

LEMMA StoresStep == IInv /\ IInv' /\ Stores /\ [Next]_vars => Stores'
<1> SUFFICES ASSUME IInv, IInv', Stores, [Next]_vars PROVE Stores'
  OBVIOUS
<1>0. /\ UNCHANGED <<conversation, stored, saved>> => Stores'
      /\ conversation \in Seq(Turn)
  <2>1. Fitting \subseteq Turn
    BY DEF Fitting
  <2>2. conversation \in Seq(Turn)
    BY <2>1 DEF IInv, TurnsFit
  <2> QED BY <2>2 DEF Stores, Single, Follows
<1>1. ASSUME NEW r, NEW text, ContentChunk(r, text) PROVE Stores'
  BY <1>0, <1>1 DEF ContentChunk, pageVars
<1>2. ASSUME NEW r, Live(r), Finally(r), Push(Reply(r)) PROVE Stores'
  <2>1. Reply(r) \in Turn
    BY <1>2, ReplyFits DEF Fitting
  <2> QED BY <1>0, <1>2, <2>1, ReplyIsNew, PushedStores
<1>3. ASSUME NEW r \in DOMAIN requests, CallOver(r) PROVE Stores'
  BY <1>0, <1>2, <1>3 DEF CallOver, CallEnds, CallThrows
<1>4. CASE Send
  <2>1. UserTurn(NextRequest) \in Turn /\ UserTurn(NextRequest).of = NextRequest
    <3>1. NextRequest \in Callers
      BY <1>4, Grown DEF Send, IInv
    <3> QED BY <3>1 DEF UserTurn, Turn
  <2> QED BY <1>0, <1>4, <2>1, QuestionIsNew, PushedStores DEF Send
<1>5. CASE Submit \/ Suggest
  BY <1>0, <1>4, <1>5 DEF Submit, Suggest, pageVars
<1>6. CASE NewChat
  <2>1. conversation' = <<>> /\ stored' = <<>>
    BY <1>6 DEF NewChat, ClearStoredConversation
  <2> QED BY <2>1, PageAssumption DEF Stores, Single, Follows
<1>7. ASSUME NEW r, Regenerate(r) PROVE Stores'
  BY <1>0, <1>7, DroppedStores DEF Regenerate
<1>8. ASSUME NEW r, Retry(r) PROVE Stores'
  BY <1>0, <1>8 DEF Retry
<1>9. CASE Reload
  BY <1>9, ReloadStores
<1>10. CASE UNCHANGED vars
  BY <1>0, <1>10 DEF vars, pageVars
<1> QED BY <1>1, <1>3, <1>5, <1>6, <1>7, <1>8, <1>9, <1>10 DEF Next, Act

LEMMA StoresAlways == Spec => [](IInv /\ Stores)
  BY InitInv, StepInv, StoresInit, StoresStep, PTL DEF Spec

\* What a reload will find is the end of what is in memory, unless the browser
\* refused the last write.
THEOREM StorageKeepsUp == Spec => []StoreFollowsConversation
<1>1. IInv /\ Stores => StoreFollowsConversation
  <2> SUFFICES ASSUME IInv, Stores, saved PROVE StoreFollowsConversation
    BY DEF StoreFollowsConversation
  <2> DEFINE n == Len(conversation)
             S == {MaxStoredTurns, n}
             m == CHOOSE x \in S : \A y \in S : x <= y
  <2>1. /\ conversation \in Seq(Fitting) /\ stored \in Seq(Fitting)
        /\ n \in Nat /\ MaxStoredTurns \in Nat /\ Follows(stored, conversation)
    BY PageAssumption DEF IInv, TurnsFit, Stores
  <2>2. Len(stored) <= n
    BY <2>1 DEF Follows
  <2>3. IsSuffix(stored, conversation)
    BY <2>1, <2>2, Suffixed DEF Follows
  <2>4. \E x \in S : \A y \in S : x <= y
    BY <2>1
  <2>5. m \in S /\ \A y \in S : m <= y
    BY <2>4
  <2>6. Min(S) = m
    BY DEF Min
  <2> HIDE DEF m
  <2>7. Len(stored) = Min(S)
    BY <2>1, <2>5, <2>6 DEF Follows
  <2> QED BY <2>3, <2>7 DEF StoreFollowsConversation
<1> QED BY <1>1, StoresAlways, PTL

\* No request leaves two replies or two questions, whichever way it ended.
THEOREM RepliesOnce == Spec => []AnsweredOnce
<1>1. Stores => AnsweredOnce
  BY DEF Stores, Single, AnsweredOnce
<1> QED BY <1>1, StoresAlways, PTL
-----------------------------------------------------------------------------
(***************************************************************************)
(* The gate, and the types                                                 *)
(***************************************************************************)

Distinct(s) == \A i, j \in DOMAIN s : s[i] = s[j] => i = j

\* Who is at work stands in the gate, once.
Gates == /\ owner \in {NoOne} \cup DOMAIN requests
         /\ line \in Seq(DOMAIN requests)
         /\ Distinct(line)
         /\ owner \notin Range(line)
         /\ \A r \in DOMAIN requests :
                requests[r].live <=> r = owner \/ r \in Range(line)

Fields == /\ {streaming, hero, saved, frozen} \subseteq BOOLEAN
          /\ controller \in {NoOne} \cup DOMAIN requests
          /\ regenerable \cup retriable \subseteq DOMAIN requests

\* t is s without its element i.
Lacks(t, s, i) == /\ Len(t) = Len(s) - 1
                  /\ \A j \in 1..(Len(s) - 1) : t[j] = IF j < i THEN s[j] ELSE s[j + 1]

\* A line without one of its members has the others, each of them once.
LEMMA Shorter ==
    ASSUME NEW G, NEW s, s \in Seq(G), Distinct(s), NEW i, i \in DOMAIN s,
           NEW t, t \in Seq(G), Lacks(t, s, i)
    PROVE  Range(t) = Range(s) \ {s[i]} /\ Distinct(t)
<1> USE DEF Distinct, Lacks
<1>1. /\ Len(s) \in Nat /\ DOMAIN s = 1..Len(s) /\ DOMAIN t = 1..(Len(s) - 1)
      /\ i \in 1..Len(s)
  OBVIOUS
<1> DEFINE at(x) == IF x < i THEN x ELSE x + 1
<1>2. \A j \in DOMAIN t : at(j) \in DOMAIN s /\ at(j) # i /\ t[j] = s[at(j)]
  BY <1>1
<1>3. \A l \in DOMAIN s : l # i => \E j \in DOMAIN t : at(j) = l
  <2> SUFFICES ASSUME NEW l \in DOMAIN s, l # i PROVE \E j \in DOMAIN t : at(j) = l
    OBVIOUS
  <2> DEFINE j == IF l < i THEN l ELSE l - 1
  <2>1. j \in DOMAIN t /\ at(j) = l
    BY <1>1
  <2> QED BY <2>1
<1>4. \A j, l \in DOMAIN t : at(j) = at(l) => j = l
  BY <1>1
<1> HIDE DEF at
<1>5. Range(t) = Range(s) \ {s[i]}
  BY <1>1, <1>2, <1>3 DEF Range
<1> QED BY <1>2, <1>4, <1>5

\* A request that is over leaves the gate, wherever it stood.
LEMMA LeftGate ==
    ASSUME Records, Gates, NEW r, Live(r), Finally(r)
    PROVE  Gates'
<1>1. /\ r \in DOMAIN requests /\ requests[r] \in Request
      /\ DOMAIN requests = 1..Len(requests) /\ Len(requests) \in Nat
  BY DEF Live, Records
<1>2. /\ DOMAIN requests' = DOMAIN requests
      /\ \A s \in DOMAIN requests : requests'[s].live <=> requests[s].live /\ s # r
  <2>1. /\ DOMAIN requests' = DOMAIN requests
        /\ \A s \in DOMAIN requests : s # r => requests'[s] = requests[s]
        /\ requests'[r] = [requests[r] EXCEPT !.live = FALSE]
    BY <1>1, Finished
  <2>2. ~requests'[r].live
    BY <1>1, <2>1 DEF Request
  <2> QED BY <1>1, <2>1, <2>2
<1>3. /\ line \in Seq(DOMAIN requests) /\ Len(line) \in Nat /\ DOMAIN line = 1..Len(line)
      /\ \A i \in DOMAIN line : line[i] \in DOMAIN requests
  BY DEF Gates
<1>4. CASE owner = r /\ line = <<>> /\ Free
  <2>1. owner' = NoOne /\ line' = <<>> /\ Range(line) = {} /\ Range(line') = {}
    BY <1>4 DEF Free, Range
  <2>2. NoOne \notin DOMAIN requests
    BY <1>1, PageAssumption
  <2>3. Distinct(line')
    BY <2>1 DEF Distinct
  <2> QED BY <1>2, <1>4, <2>1, <2>2, <2>3 DEF Gates
<1>5. CASE owner = r /\ line # <<>> /\ PassTo(1)
  <2>1. owner' = line[1] /\ line' = SubSeq(line, 2, Len(line)) /\ 1 \in DOMAIN line
    BY <1>3, <1>5 DEF PassTo
  <2>2. /\ line' \in Seq(DOMAIN requests) /\ Len(line') = Len(line) - 1
        /\ \A j \in 1..(Len(line) - 1) : line'[j] = line[j + 1]
    <3>1. \A i \in 2..Len(line) : line[i] \in DOMAIN requests
      BY <1>3
    <3>2. /\ SubSeq(line, 2, Len(line)) \in Seq(DOMAIN requests)
          /\ Len(SubSeq(line, 2, Len(line))) = IF 2 <= Len(line) THEN Len(line) - 2 + 1 ELSE 0
          /\ \A j \in 1..(Len(line) - 2 + 1) : SubSeq(line, 2, Len(line))[j] = line[2 + j - 1]
      BY <1>3, <3>1, SubSeqProperties
    <3> QED BY <1>3, <2>1, <3>2
  <2>3. /\ Range(line') = Range(line) \ {line[1]}
        /\ Distinct(line')
    <3>1. PICK i \in DOMAIN line : i = 1
      BY <2>1
    <3>2. Lacks(line', line, i)
      BY <1>3, <2>2, <3>1 DEF Lacks
    <3>3. Distinct(line)
      BY DEF Gates
    <3>4. Range(line') = Range(line) \ {line[i]} /\ Distinct(line')
      BY <1>3, <2>2, <3>2, <3>3, Shorter
    <3> QED BY <3>1, <3>4
  <2>4. line[1] \in Range(line)
    BY <2>1 DEF Range
  <2> QED BY <1>2, <1>3, <1>5, <2>1, <2>2, <2>3, <2>4 DEF Gates
<1>6. ASSUME NEW i \in DOMAIN line, line[i] = r, Leave(i) PROVE Gates'
  <2>1. owner' = owner /\ line' = RemoveAt(line, i) /\ r # owner
    BY <1>6 DEF Leave, Gates, Range
  <2>2. /\ line' \in Seq(DOMAIN requests) /\ Len(line') = Len(line) - 1
        /\ \A j \in 1..(Len(line) - 1) : line'[j] = IF j < i THEN line[j] ELSE line[j + 1]
    BY <1>3, <2>1, Removed
  <2>3. /\ Range(line') = Range(line) \ {r}
        /\ Distinct(line')
    <3>1. Lacks(line', line, i)
      BY <2>2 DEF Lacks
    <3>2. Distinct(line)
      BY DEF Gates
    <3> QED BY <1>3, <1>6, <2>2, <3>1, <3>2, Shorter
  <2> QED BY <1>2, <1>3, <1>6, <2>1, <2>2, <2>3 DEF Gates
<1> QED BY <1>4, <1>5, <1>6 DEF Finally, LeaveGate

\* One that begins stands in it.
LEMMA EnteredGate ==
    ASSUME Records, Gates, RequestAssistant
    PROVE  Gates' /\ controller' \in DOMAIN requests'
           /\ DOMAIN requests \subseteq DOMAIN requests'
<1> DEFINE n == NextRequest
<1>1. /\ n \notin DOMAIN requests /\ DOMAIN requests' = DOMAIN requests \cup {n}
      /\ \A s \in DOMAIN requests : requests'[s] = requests[s]
      /\ requests'[n].live /\ controller' = n /\ n \in Callers
  BY Grown
<1>2. Enter(n) \/ Join(n)
  BY DEF RequestAssistant
<1> HIDE DEF n
<1>3. /\ line \in Seq(DOMAIN requests) /\ Len(line) \in Nat /\ DOMAIN line = 1..Len(line)
      /\ n # NoOne
  BY <1>1, FifoLockAssumption DEF Gates
<1>4. CASE Enter(n)
  <2>1. owner = NoOne /\ line = <<>> /\ owner' = n /\ line' = <<>>
    BY <1>4 DEF Enter
  <2>2. Range(line) = {} /\ Range(line') = {} /\ NoOne \notin DOMAIN requests
    BY <2>1, PageAssumption DEF Range, Records
  <2> QED BY <1>1, <2>1, <2>2 DEF Gates
<1>5. CASE Join(n)
  <2>1. line' = Append(line, n) /\ owner' = owner /\ owner # n
    BY <1>5 DEF Join
  <2>2. /\ line' \in Seq(DOMAIN requests') /\ Len(line') = Len(line) + 1
        /\ \A i \in 1..Len(line) : line'[i] = line[i]
        /\ line'[Len(line) + 1] = n
    <3>1. line \in Seq(DOMAIN requests') /\ n \in DOMAIN requests'
      BY <1>1, <1>3
    <3> QED BY <2>1, <3>1, AppendProperties
  <2>3. DOMAIN line' = 1..(Len(line) + 1)
    BY <1>3, <2>2
  <2>4. Range(line') = Range(line) \cup {n}
    BY <1>3, <2>2, <2>3 DEF Range
  <2>5. n \notin Range(line)
    BY <1>1, <1>3 DEF Range
  <2>6. Distinct(line')
    BY <1>3, <2>2, <2>3, <2>5 DEF Gates, Range, Distinct
  <2> QED BY <1>1, <2>1, <2>2, <2>4, <2>5, <2>6 DEF Gates
<1> QED BY <1>1, <1>2, <1>4, <1>5

\* The gate is left alone, and so is who is at work.
LEMMA SameGate ==
    ASSUME Gates, UNCHANGED lockVars, DOMAIN requests' = DOMAIN requests,
           \A r \in DOMAIN requests : requests'[r].live = requests[r].live
    PROVE  Gates'
BY DEF Gates, lockVars

Placed == Gates /\ Fields

LEMMA PlacedInit == Init => Placed
<1> SUFFICES ASSUME Init PROVE Placed
  OBVIOUS
<1>1. requests = <<>> /\ DOMAIN requests = {} /\ line = <<>> /\ Range(line) = {}
  BY DEF Init, LockInit, Range
<1>2. line \in Seq(DOMAIN requests) /\ Distinct(line) /\ owner = NoOne
  BY <1>1 DEF Init, LockInit, Distinct
<1>3. Gates
  BY <1>1, <1>2 DEF Gates
<1>4. Fields
  BY <1>1 DEF Init, Fields
<1> QED BY <1>3, <1>4 DEF Placed

LEMMA PlacedStep == IInv /\ IInv' /\ Placed /\ [Next]_vars => Placed'
<1> SUFFICES ASSUME IInv, IInv', Placed, [Next]_vars PROVE Placed'
  OBVIOUS
<1>0. /\ Records /\ Gates /\ Fields /\ requests \in Seq(Request)
      /\ \A r \in DOMAIN requests : requests[r] \in Request
  BY DEF IInv, Records, Placed
<1>1. ASSUME NEW r \in DOMAIN requests, NEW text \in Texts, ContentChunk(r, text)
      PROVE  Placed'
  <2>1. /\ UNCHANGED pageVars /\ UNCHANGED lockVars
        /\ frozen' \in BOOLEAN
        /\ DOMAIN requests' = DOMAIN requests
        /\ \A s \in DOMAIN requests : requests'[s].live = requests[s].live
    BY <1>0, <1>1 DEF ContentChunk, Fields, Request
  <2> QED BY <1>0, <2>1, SameGate DEF Placed, Fields, pageVars
<1>2. ASSUME NEW r \in DOMAIN requests, CallOver(r), frozen' = frozen PROVE Placed'
  <2>1. Live(r) /\ Finally(r)
    BY <1>2 DEF CallOver, CallEnds, CallThrows
  <2>2. Gates' /\ DOMAIN requests' = DOMAIN requests
    BY <1>0, <2>1, LeftGate, Finished
  <2>3. /\ saved' \in BOOLEAN
        /\ regenerable' \cup retriable' \subseteq regenerable \cup retriable \cup {r}
    BY <1>0, <1>2 DEF CallOver, CallEnds, CallThrows, Push, SaveConversation, Fields
  <2>4. ~streaming' /\ streaming' \in BOOLEAN /\ controller' = NoOne /\ hero' = hero
    BY <2>1 DEF Finally
  <2> QED BY <1>0, <1>2, <2>2, <2>3, <2>4 DEF Placed, Fields
<1>3. ASSUME RequestAssistant, frozen' = frozen, hero' \in BOOLEAN, saved' \in BOOLEAN,
             regenerable' \subseteq regenerable, retriable' \subseteq retriable
      PROVE  Placed'
  <2>1. streaming' \in BOOLEAN
    BY <1>3 DEF RequestAssistant
  <2> QED BY <1>0, <1>3, <2>1, EnteredGate DEF Placed, Fields
<1>4. ASSUME Send, frozen' = frozen PROVE Placed'
  BY <1>3, <1>4 DEF Send, Push, SaveConversation
<1>5. ASSUME Submit \/ Suggest, frozen' = frozen PROVE Placed'
  <2>1. CASE streaming /\ AbortController /\ UNCHANGED <<pageVars, lockVars>>
    <3>1. /\ DOMAIN requests' = DOMAIN requests
          /\ \A s \in DOMAIN requests : requests'[s].live = requests[s].live
      BY <1>0, <2>1 DEF AbortController, Request
    <3> QED BY <1>0, <1>5, <2>1, <3>1, SameGate DEF Placed, Fields, pageVars
  <2> QED BY <1>4, <1>5, <2>1 DEF Submit, Suggest
<1>6. ASSUME NewChat, frozen' = frozen PROVE Placed'
  <2>1. /\ DOMAIN requests' = DOMAIN requests
        /\ \A s \in DOMAIN requests : requests'[s].live = requests[s].live
    BY <1>0, <1>6 DEF NewChat, Request
  <2> QED BY <1>0, <1>6, <2>1, SameGate
          DEF NewChat, ClearStoredConversation, Placed, Fields
<1>7. ASSUME NEW r, Regenerate(r), frozen' = frozen PROVE Placed'
  BY <1>0, <1>3, <1>7 DEF Regenerate, DropLastReply, SaveConversation, Fields
<1>8. ASSUME NEW r, Retry(r), frozen' = frozen PROVE Placed'
  BY <1>0, <1>3, <1>8 DEF Retry, Fields
<1>9. CASE Reload
  <2>1. /\ owner' = NoOne /\ line' = <<>> /\ Range(line') = {}
        /\ DOMAIN requests' = DOMAIN requests
        /\ \A s \in DOMAIN requests : ~requests'[s].live
    BY <1>0, <1>9 DEF Reload, Range, Request
  <2>2. NoOne \notin DOMAIN requests
    BY <1>0, PageAssumption DEF Records
  <2>3. Gates'
    BY <2>1, <2>2 DEF Gates, Distinct
  <2>4. regenerable' \subseteq DOMAIN requests
    <3>1. \A t \in Range(stored) : t.of \in DOMAIN requests
      BY DEF IInv, TurnsFit, Fitting, Range
    <3> QED BY <1>9, <3>1 DEF Reload
  <2> QED BY <1>9, <2>1, <2>3, <2>4 DEF Reload, Placed, Fields
<1>10. CASE UNCHANGED vars
  BY <1>0, <1>10, SameGate DEF vars, pageVars, Placed, Fields
<1> QED BY <1>1, <1>2, <1>5, <1>6, <1>7, <1>8, <1>9, <1>10 DEF Next, Act

LEMMA PlacedAlways == Spec => [](IInv /\ Stores /\ Placed)
  BY StoresAlways, PlacedInit, PlacedStep, PTL DEF Spec

\* The fields of the page keep their types, and the gate holds those at work.
THEOREM PageTypes == Spec => []PageTypeOK
<1>1. IInv /\ Stores /\ Placed => PageTypeOK
  <2> SUFFICES ASSUME IInv, Stores, Placed PROVE PageTypeOK
    OBVIOUS
  <2>1. Fitting \subseteq Turn
    BY DEF Fitting
  <2>2. conversation \in Seq(Turn) /\ stored \in Seq(Turn) /\ Len(stored) <= MaxStoredTurns
    BY <2>1 DEF IInv, TurnsFit, Stores
  <2>3. /\ owner # NoOne => Live(owner)
        /\ \A r \in DOMAIN requests : Live(r) <=> r = owner \/ r \in Range(line)
    BY DEF Placed, Gates, Live
  <2> QED BY <2>2, <2>3 DEF IInv, Records, Placed, Fields, PageTypeOK
<1> QED BY <1>1, PlacedAlways, PTL
-----------------------------------------------------------------------------
(***************************************************************************)
(* The page's gate is a lock, across reloads                               *)
(***************************************************************************)

\* Nobody waits for a slot that is free.
Idle == owner = NoOne => line = <<>>

LEMMA LockKeepsIdle ==
    ASSUME Placed, IInv, Idle, [LockNext]_lockVars
    PROVE  Idle'
<1> USE DEF Idle
<1>1. /\ line \in Seq(DOMAIN requests)
      /\ \A i \in DOMAIN line : line[i] # NoOne
  BY FifoLockAssumption DEF Placed, Gates, IInv, Records
<1>2. ASSUME NEW c \in Callers, Enter(c) \/ Join(c) PROVE Idle'
  BY <1>2, FifoLockAssumption DEF Enter, Join
<1>3. ASSUME NEW i \in DOMAIN line, Leave(i) \/ PassTo(i) PROVE Idle'
  <2>1. line # <<>>
    OBVIOUS
  <2> QED BY <1>1, <1>3, <2>1 DEF Leave, PassTo
<1>4. Free \/ UNCHANGED lockVars => Idle'
  BY DEF Free, lockVars
<1> QED BY <1>2, <1>3, <1>4 DEF LockNext

LEMMA LockSteps ==
    ASSUME IInv, Placed, Idle, [Next]_vars
    PROVE  [LockNext]_lockVars
<1>0. Records
  BY DEF IInv
<1>1. ASSUME NEW r, Finally(r) PROVE LockNext
  <2>1. CASE line # <<>> /\ PassTo(1)
    <3>1. 1 \in DOMAIN line
      BY <2>1 DEF Placed, Gates
    <3> QED BY <2>1, <3>1 DEF LockNext
  <2> QED BY <1>1, <2>1 DEF Finally, LeaveGate, LockNext
<1>2. ASSUME RequestAssistant PROVE LockNext
  BY <1>0, <1>2, Grown DEF RequestAssistant, LockNext
<1>3. ASSUME NEW r, CallOver(r) PROVE LockNext
  BY <1>1, <1>3 DEF CallOver, CallEnds, CallThrows
<1>4. ASSUME Submit \/ Suggest \/ NewChat PROVE [LockNext]_lockVars
  BY <1>2, <1>4 DEF Submit, Suggest, NewChat, Send, lockVars
<1>5. ASSUME NEW r, Regenerate(r) \/ Retry(r) PROVE LockNext
  BY <1>2, <1>5 DEF Regenerate, Retry
<1>6. ASSUME NEW r, NEW text, ContentChunk(r, text) PROVE [LockNext]_lockVars
  BY <1>6 DEF ContentChunk, lockVars
<1>7. ASSUME Reload PROVE [LockNext]_lockVars
  BY <1>7 DEF Reload, Idle, Free, LockNext, lockVars
<1>8. ASSUME UNCHANGED vars PROVE UNCHANGED lockVars
  BY <1>8 DEF vars
<1> QED BY <1>3, <1>4, <1>5, <1>6, <1>7, <1>8 DEF Next, Act

\* To the page, too, the gate is a lock: a click, a chunk, the end of a call and even
\* a reload, which is the end of all of them, is one of its steps or leaves it alone.
THEOREM PageUsesLock == Spec => LockSpec
<1>1. Init => LockInit /\ Idle
  BY DEF Init, LockInit, Idle
<1>2. IInv /\ Placed /\ Idle /\ [Next]_vars => [LockNext]_lockVars
  BY LockSteps
<1>3. IInv /\ Placed /\ Idle /\ [Next]_vars => Idle'
  BY LockSteps, LockKeepsIdle
<1> QED BY <1>1, <1>2, <1>3, PlacedAlways, PTL DEF Spec, LockSpec
-----------------------------------------------------------------------------
(***************************************************************************)
(* Which lines renderMarkdownHtml() cannot get past                        *)
(***************************************************************************)

\* What RunEnd returns: a place from i on, the first of no such kind.
LEMMA RunEndIsFirst ==
    ASSUME NEW lines \in Seq(Kinds), NEW ks, NEW i \in 1..(Len(lines) + 1)
    PROVE  /\ RunEnd(lines, i, ks) \in i..(Len(lines) + 1)
           /\ i <= Len(lines) => (RunEnd(lines, i, ks) = i <=> lines[i] \notin ks)
           /\ \A k \in i..(RunEnd(lines, i, ks) - 1) : lines[k] \in ks
           /\ RunEnd(lines, i, ks) <= Len(lines) => lines[RunEnd(lines, i, ks)] \notin ks
<1> DEFINE S == {k \in i..Len(lines) : lines[k] \notin ks} \cup {Len(lines) + 1}
<1>1. Len(lines) \in Nat
  OBVIOUS
<1>2. S \subseteq i..(Len(lines) + 1) /\ S \subseteq Nat /\ S # {}
  BY <1>1
<1>3. Min(S) \in S /\ \A y \in S : Min(S) <= y
  BY <1>2, MinOfNaturals
<1>4. RunEnd(lines, i, ks) = Min(S)
  BY DEF RunEnd
<1> DEFINE m == Min(S)
<1>5. m \in S /\ \A y \in S : m <= y
  BY <1>3
<1> HIDE DEF m
<1>6. m \in i..(Len(lines) + 1)
  BY <1>2, <1>5
<1>7. i <= Len(lines) => (m = i <=> lines[i] \notin ks)
  BY <1>1, <1>5, <1>6
<1>8. \A k \in i..(m - 1) : lines[k] \in ks
  BY <1>1, <1>5, <1>6
<1>9. m <= Len(lines) => lines[m] \notin ks
  BY <1>1, <1>5, <1>6
<1> QED BY <1>4, <1>6, <1>7, <1>8, <1>9 DEF m

\* An iteration of the loop of renderMarkdownHtml() moves on from every line but two kinds:
\* three backquotes before more than a word, and what ends a paragraph as a heading does
\* without being one.  On these it stays, for ever.
THEOREM StaysOnTwoKinds ==
    ASSUME NEW lines \in Seq(Kinds), NEW i \in 1..Len(lines)
    PROVE  /\ Iterate(lines, i) \in i..(Len(lines) + 1)
           /\ Iterate(lines, i) = i <=> lines[i] \in {"ticks", "marks"}
<1>1. Len(lines) \in Nat /\ lines[i] \in Kinds
  OBVIOUS
<1>2. CASE lines[i] = "fence"
  <2> DEFINE closing == RunEnd(lines, i + 1, Kinds \ {"fence", "ticks"})
  <2>1. closing \in (i + 1)..(Len(lines) + 1)
    BY <1>1, RunEndIsFirst
  <2>2. Iterate(lines, i) = IF closing <= Len(lines) THEN closing + 1 ELSE closing
    BY <1>2 DEF Iterate
  <2> HIDE DEF closing
  <2> QED BY <1>1, <1>2, <2>1, <2>2
<1>3. CASE lines[i] \in {"heading", "blank"}
  <2>1. Iterate(lines, i) = i + 1
    BY <1>3 DEF Iterate
  <2> QED BY <1>1, <1>3, <2>1
<1>4. CASE lines[i] \in {"bullet", "number"}
  <2>1. Iterate(lines, i) = RunEnd(lines, i, {lines[i]})
    BY <1>4 DEF Iterate
  <2> QED BY <1>1, <1>4, <2>1, RunEndIsFirst
<1>5. CASE lines[i] \in {"text", "ticks", "marks"}
  <2>1. Iterate(lines, i) = RunEnd(lines, i, {"text"})
    BY <1>5 DEF Iterate
  <2>2. lines[i] \notin {"text"} <=> lines[i] \in {"ticks", "marks"}
    BY <1>5
  <2> QED BY <1>1, <2>1, <2>2, RunEndIsFirst
<1> QED BY <1>1, <1>2, <1>3, <1>4, <1>5 DEF Kinds

\* The starts of the iterations exist: each is the one before it, moved on.
LEMMA StartsType ==
    ASSUME NEW lines \in Seq(Kinds)
    PROVE  /\ Starts(lines)[0] = 1
           /\ \A n \in 0..Len(lines) : Starts(lines)[n] \in 1..(Len(lines) + 1)
           /\ \A n \in 1..Len(lines) :
                  Starts(lines)[n] = IF Starts(lines)[n - 1] > Len(lines)
                                     THEN Starts(lines)[n - 1]
                                     ELSE Iterate(lines, Starts(lines)[n - 1])
<1> DEFINE m == Len(lines)
           F == [i \in 1..(m + 1) |-> IF i > m THEN i ELSE Iterate(lines, i)]
           Body(g) == [n \in 0..m |-> IF n = 0 THEN 1
                                      ELSE IF g[n - 1] > m THEN g[n - 1]
                                           ELSE Iterate(lines, g[n - 1])]
           at == CHOOSE g : g = Body(g)
<1>1. m \in Nat
  OBVIOUS
<1>2. F \in [1..(m + 1) -> 1..(m + 1)] /\ 1 \in 1..(m + 1)
  BY <1>1, StaysOnTwoKinds
<1>3. PICK g \in [0..m -> 1..(m + 1)] : Iterates(g, F, 1, m)
  <2> HIDE DEF F, m
  <2> QED BY <1>1, <1>2, IterationExists
<1>4. g = Body(g)
  BY <1>1, <1>3 DEF Iterates
<1>5. at = Body(at)
  BY <1>4
<1>6. Starts(lines) = at
  BY DEF Starts
<1> HIDE DEF at
<1>7. at[0] = 1
  BY <1>1, <1>5
<1>8. \A n \in 1..m : at[n] = IF at[n - 1] > m THEN at[n - 1] ELSE Iterate(lines, at[n - 1])
  BY <1>1, <1>5
<1> DEFINE K == {n \in Nat : n <= m => at[n] \in 1..(m + 1)}
<1>9. K = Nat
  <2>1. 0 \in K
    BY <1>1, <1>7
  <2>2. ASSUME NEW n \in K PROVE n + 1 \in K
    <3> SUFFICES ASSUME n + 1 <= m PROVE at[n + 1] \in 1..(m + 1)
      OBVIOUS
    <3>1. n + 1 \in 1..m /\ n + 1 - 1 = n /\ at[n] \in 1..(m + 1)
      BY <1>1
    <3>2. at[n] <= m => Iterate(lines, at[n]) \in 1..(m + 1)
      BY <1>1, <3>1, StaysOnTwoKinds
    <3> QED BY <1>1, <1>8, <3>1, <3>2
  <2> QED BY <2>1, <2>2, SetInduction
<1> QED BY <1>1, <1>6, <1>7, <1>8, <1>9

Lines == INSTANCE FoldFacts WITH Op <- Scan

\* v lists the states of the scan.
Scans(v, lines) == /\ v[0] = "open"
                   /\ \A k \in 1..Len(lines) : v[k] = Scan(v[k - 1], lines[k])

LEMMA ScansExist ==
    ASSUME NEW lines \in Seq(Kinds)
    PROVE  \E v : Scans(v, lines) /\ Scanned(lines) = v[Len(lines)]
<1>1. PICK v : Lines!Traces(v, "open", lines) /\ Lines!Fold("open", lines) = v[Len(lines)]
  BY Lines!FoldTraced
<1>2. Lines!Fold("open", lines) = Scanned(lines)
  BY DEF Scanned, Scan, Lines!Fold, FoldLeft, Lines!FoldLeft, MapThenFoldSet, Lines!MapThenFoldSet,
     Max, Lines!Max
<1> QED BY <1>1, <1>2 DEF Scans, Lines!Traces

LEMMA ScanSteps ==
    ASSUME NEW kind
    PROVE  /\ Scan("stuck", kind) = "stuck"
           /\ kind \in Kinds \ {"fence", "ticks"} => Scan("fenced", kind) = "fenced"
           /\ kind \in {"fence", "ticks"} => Scan("fenced", kind) = "open"
           /\ kind = "fence" => Scan("open", kind) = "fenced"
           /\ kind \in {"ticks", "marks"} => Scan("open", kind) = "stuck"
           /\ kind \in {"heading", "bullet", "number", "blank", "text"}
                  => Scan("open", kind) = "open"
BY DEF Scan

\* Where the loop begins an iteration, the scan is outside a fenced block.
AtLine(v, lines, i) == IF i <= Len(lines) THEN v[i - 1] = "open"
                       ELSE v[Len(lines)] # "stuck"

\* A run of lines that leave the scan as it is.
Leaves(lines, c, p, q) == \A k \in (p + 1)..q : Scan(c, lines[k]) = c

LEMMA RunScanned ==
    ASSUME NEW lines \in Seq(Kinds), NEW v, Scans(v, lines), NEW c,
           NEW p, p \in Nat, NEW q, q \in Int, q <= Len(lines), v[p] = c,
           Leaves(lines, c, p, q)
    PROVE  Constant(v, c, p, q)
<1>1. Stays(v, c, p, q)
  BY DEF Scans, Stays, Leaves
<1> QED BY <1>1, StaysConstant

LEMMA IterationScanned ==
    ASSUME NEW lines \in Seq(Kinds), NEW v, Scans(v, lines), NEW i \in 1..Len(lines),
           AtLine(v, lines, i), lines[i] \notin {"ticks", "marks"}
    PROVE  AtLine(v, lines, Iterate(lines, i))
<1> DEFINE m == Len(lines)
<1>1. /\ m \in Nat /\ \A k \in 1..m : lines[k] \in Kinds
      /\ \A k \in 1..m : v[k] = Scan(v[k - 1], lines[k])
      /\ v[i - 1] = "open"
  BY DEF Scans, AtLine
<1>2. CASE lines[i] = "fence"
  <2> DEFINE closing == RunEnd(lines, i + 1, Kinds \ {"fence", "ticks"})
  <2>1. /\ closing \in (i + 1)..(m + 1)
        /\ \A k \in (i + 1)..(closing - 1) : lines[k] \in Kinds \ {"fence", "ticks"}
        /\ closing <= m => lines[closing] \notin Kinds \ {"fence", "ticks"}
    BY <1>1, RunEndIsFirst
  <2>2. Iterate(lines, i) = IF closing <= m THEN closing + 1 ELSE closing
    BY <1>2 DEF Iterate
  <2> HIDE DEF closing
  <2>3. v[i] = "fenced"
    BY <1>1, <1>2, ScanSteps
  <2>4. Constant(v, "fenced", i, closing - 1)
    <3>1. i \in Nat /\ closing - 1 \in Int /\ closing - 1 <= Len(lines)
      BY <1>1, <2>1
    <3>2. Leaves(lines, "fenced", i, closing - 1)
      BY <2>1, ScanSteps DEF Leaves
    <3> QED BY <2>3, <3>1, <3>2, RunScanned
  <2>5. v[closing - 1] = "fenced"
    BY <2>1, <2>4 DEF Constant
  <2>6. CASE closing <= m
    <3>1. closing \in 1..m /\ lines[closing] \in {"fence", "ticks"}
      BY <1>1, <2>1, <2>6
    <3>2. v[closing] = "open"
      BY <1>1, <2>5, <3>1, ScanSteps
    <3> QED BY <1>1, <2>1, <2>2, <2>6, <3>2 DEF AtLine
  <2>7. CASE ~(closing <= m)
    <3>1. closing = m + 1 /\ Iterate(lines, i) = m + 1
      BY <1>1, <2>1, <2>2, <2>7
    <3>2. v[m] = "fenced"
      BY <1>1, <2>5, <3>1
    <3> QED BY <1>1, <3>1, <3>2 DEF AtLine
  <2> QED BY <2>6, <2>7
<1>3. ASSUME NEW e \in (i + 1)..(m + 1), Iterate(lines, i) = e,
             \A k \in i..(e - 1) : lines[k] \in {"heading", "bullet", "number", "blank", "text"}
      PROVE  AtLine(v, lines, Iterate(lines, i))
  <2>1. i - 1 \in Nat /\ e - 1 \in Nat /\ e - 1 <= m /\ i - 1 + 1 = i
    BY <1>1
  <2>2. Leaves(lines, "open", i - 1, e - 1)
    BY <1>3, <2>1, ScanSteps DEF Leaves
  <2>3. Constant(v, "open", i - 1, e - 1)
    BY <1>1, <2>1, <2>2, RunScanned
  <2>4. v[e - 1] = "open"
    BY <1>1, <2>1, <2>3 DEF Constant
  <2>5. CASE e <= m
    BY <1>3, <2>4, <2>5 DEF AtLine
  <2>6. CASE ~(e <= m)
    <3>1. e = m + 1 /\ e - 1 = m
      BY <1>1, <2>6
    <3> QED BY <1>1, <1>3, <2>4, <3>1 DEF AtLine
  <2> QED BY <2>5, <2>6
<1>4. CASE lines[i] \in {"heading", "blank"}
  <2>1. Iterate(lines, i) = i + 1
    BY <1>4 DEF Iterate
  <2>2. i + 1 \in (i + 1)..(m + 1) /\ \A k \in i..(i + 1 - 1) : k = i
    BY <1>1
  <2> QED BY <1>3, <1>4, <2>1, <2>2
<1>5. CASE lines[i] \in {"bullet", "number", "text"}
  <2> DEFINE e == RunEnd(lines, i, {lines[i]})
  <2>1. Iterate(lines, i) = e
    BY <1>5 DEF Iterate
  <2>2. /\ e \in i..(m + 1) /\ e # i
        /\ \A k \in i..(e - 1) : lines[k] \in {lines[i]}
    BY <1>1, RunEndIsFirst
  <2> HIDE DEF e
  <2>3. e \in (i + 1)..(m + 1)
    BY <1>1, <2>2
  <2> QED BY <1>3, <1>5, <2>1, <2>2, <2>3
<1>6. lines[i] \in Kinds \ {"ticks", "marks"}
  BY <1>1
<1> QED BY <1>2, <1>4, <1>5, <1>6 DEF Kinds

\* For every text, renderMarkdownHtml() returns exactly when the scan of its lines never
\* meets, outside a fenced block, a line that only looks like a heading or a fence.
THEOREM RendersWhatScans ==
    ASSUME NEW lines \in Seq(Kinds)
    PROVE  Renders(lines) <=> Scanned(lines) # "stuck"
<1> DEFINE m == Len(lines)
           at == Starts(lines)
<1>1. /\ m \in Nat /\ at[0] = 1
      /\ \A n \in 0..m : at[n] \in 1..(m + 1)
      /\ \A n \in 1..m : at[n] = IF at[n - 1] > m THEN at[n - 1] ELSE Iterate(lines, at[n - 1])
  BY StartsType
<1>2. Renders(lines) <=> at[m] > m
  BY DEF Renders
<1> HIDE DEF at
<1>3. PICK v : Scans(v, lines) /\ Scanned(lines) = v[m]
  BY ScansExist
<1> DEFINE Stuck(n) == at[n] <= m /\ lines[at[n]] \in {"ticks", "marks"}
           K == {n \in Nat : n <= m => /\ AtLine(v, lines, at[n])
                                       /\ at[n] > n \/ Stuck(n)}
<1>4. 0 \in K
  BY <1>1, <1>3 DEF AtLine, Scans
<1>5. ASSUME NEW n \in K PROVE n + 1 \in K
  <2> SUFFICES ASSUME n + 1 <= m
               PROVE  /\ AtLine(v, lines, at[n + 1])
                      /\ at[n + 1] > n + 1 \/ Stuck(n + 1)
    OBVIOUS
  <2>1. /\ n \in 0..m /\ n + 1 \in 1..m /\ n + 1 - 1 = n /\ at[n] \in 1..(m + 1)
        /\ AtLine(v, lines, at[n]) /\ (at[n] > n \/ Stuck(n))
    BY <1>1
  <2>2. CASE at[n] > m
    <3>1. at[n + 1] = at[n]
      BY <1>1, <2>1, <2>2
    <3> QED BY <1>1, <2>1, <2>2, <3>1
  <2>3. CASE at[n] <= m
    <3>1. at[n + 1] = Iterate(lines, at[n]) /\ at[n] \in 1..m
      BY <1>1, <2>1, <2>3
    <3>2. CASE Stuck(n)
      <4>1. at[n + 1] = at[n]
        BY <3>1, <3>2, StaysOnTwoKinds
      <4> QED BY <2>1, <3>2, <4>1
    <3>3. CASE ~Stuck(n)
      <4>1. lines[at[n]] \notin {"ticks", "marks"}
        BY <2>3, <3>3
      <4>2. AtLine(v, lines, at[n + 1])
        BY <1>3, <2>1, <3>1, <4>1, IterationScanned
      <4>3. at[n + 1] > at[n]
        BY <1>1, <3>1, <4>1, StaysOnTwoKinds
      <4>4. at[n + 1] \in Int
        BY <1>1, <2>1
      <4> QED BY <2>1, <3>3, <4>2, <4>3, <4>4
    <3> QED BY <3>2, <3>3
  <2> QED BY <1>1, <2>1, <2>2, <2>3
<1>6. K = Nat
  BY <1>4, <1>5, SetInduction
<1>7. /\ AtLine(v, lines, at[m])
      /\ at[m] > m \/ Stuck(m)
      /\ at[m] \in 1..(m + 1)
  BY <1>1, <1>6
<1>8. CASE at[m] > m
  BY <1>1, <1>2, <1>3, <1>7, <1>8 DEF AtLine
<1>9. CASE at[m] <= m
  <2> DEFINE i == at[m]
  <2>1. i \in 1..m /\ lines[i] \in {"ticks", "marks"} /\ v[i - 1] = "open"
    <3>1. i \in 1..m /\ Stuck(m) /\ AtLine(v, lines, i)
      BY <1>1, <1>7, <1>9
    <3> HIDE DEF i
    <3>2. v[i - 1] = "open"
      BY <3>1 DEF AtLine
    <3> QED BY <3>1, <3>2 DEF i
  <2> HIDE DEF i
  <2>2. v[i] = "stuck"
    BY <1>3, <2>1, ScanSteps DEF Scans
  <2>3. Leaves(lines, "stuck", i, m)
    BY ScanSteps DEF Leaves
  <2>4. v[m] = "stuck"
    <3>1. i \in Nat /\ m \in Int /\ m <= Len(lines) /\ m \in i..m
      BY <1>1, <2>1
    <3>2. Constant(v, "stuck", i, m)
      BY <1>3, <2>2, <2>3, <3>1, RunScanned
    <3> QED BY <3>1, <3>2 DEF Constant
  <2> QED BY <1>1, <1>2, <1>3, <1>9, <2>1, <2>4
<1> QED BY <1>1, <1>7, <1>8, <1>9

\* What renderMarkdownHtml() cannot get past it never will: with more lines after a text
\* it hangs on, it hangs as well.
THEOREM StuckForGood ==
    ASSUME NEW lines \in Seq(Kinds), NEW more \in Seq(Kinds), Renders(lines \o more)
    PROVE  Renders(lines)
<1> DEFINE all == lines \o more
           m == Len(lines)
<1>1. /\ all \in Seq(Kinds) /\ m \in Nat /\ Len(all) \in Nat /\ m <= Len(all)
      /\ \A k \in 1..m : all[k] = lines[k]
  BY ConcatProperties
<1>2. PICK v : Scans(v, all) /\ Scanned(all) = v[Len(all)]
  BY <1>1, ScansExist
<1>3. PICK w : Scans(w, lines) /\ Scanned(lines) = w[m]
  BY ScansExist
<1> HIDE DEF all
<1> SUFFICES ASSUME ~Renders(lines) PROVE FALSE
  OBVIOUS
<1>4. w[m] = "stuck" /\ v[Len(all)] # "stuck"
  BY <1>1, <1>2, <1>3, RendersWhatScans DEF all
<1> DEFINE K == {k \in Nat : k <= m => v[k] = w[k]}
<1>5. K = Nat
  <2>1. 0 \in K
    BY <1>2, <1>3 DEF Scans
  <2>2. ASSUME NEW k \in K PROVE k + 1 \in K
    <3> SUFFICES ASSUME k + 1 <= m PROVE v[k + 1] = w[k + 1]
      OBVIOUS
    <3>1. k + 1 \in 1..m /\ k + 1 \in 1..Len(all) /\ k + 1 - 1 = k /\ v[k] = w[k]
      BY <1>1
    <3> QED BY <1>1, <1>2, <1>3, <3>1 DEF Scans
  <2> QED BY <2>1, <2>2, SetInduction
<1>6. v[m] = "stuck"
  BY <1>1, <1>4, <1>5
<1>7. Leaves(all, "stuck", m, Len(all))
  BY ScanSteps DEF Leaves
<1>8. Constant(v, "stuck", m, Len(all))
  BY <1>1, <1>2, <1>6, <1>7, RunScanned
<1> QED BY <1>1, <1>4, <1>8 DEF Constant
=============================================================================
