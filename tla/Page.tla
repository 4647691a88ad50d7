-------------------------------- MODULE Page --------------------------------
(***************************************************************************)
(* The chat page: app.js with src/ui/storage.js, src/ui/suggestions.js and *)
(* the action buttons of src/ui/messages.js.  What the page remembers,     *)
(* what the browser stores, which buttons there are, and the requests,     *)
(* each of which is one call of streamChat(): it waits for the slot (the   *)
(* gate of src/core/queue.js, as FifoLock), may yield text, and ends or    *)
(* throws.  The user may click while it does so, or reload the page.       *)
(*                                                                         *)
(* A turn is known by its request.  The text of a reply matters as far as  *)
(* the renderer is concerned; that of a question is never rendered.        *)
(***************************************************************************)
EXTENDS FifoLock, Markdown

CONSTANTS Texts,          \* what a reply may look like when a chunk came in
          MaxStoredTurns, \* MAX_STORED_TURNS
          MaxRequests,    \* bound: requests, counted over all reloads
          MaxChats        \* bound: uses of New chat

ASSUME PageAssumption == /\ Texts \subseteq Seq(Kinds) \ {<<>>}
                         /\ MaxStoredTurns \in Nat \ {0}
                         /\ {MaxRequests, MaxChats} \subseteq Nat
                         /\ Callers = 1..MaxRequests
                         /\ NoOne = 0

VARIABLES conversation, \* state.conversation
          streaming,    \* state.streaming, and the label of the button
          controller,   \* the request whose controller state.controller is
          stored,       \* the conversation in localStorage
          hero,         \* the suggestions are shown
          regenerable,  \* the requests whose replies on the page can be regenerated
          retriable,    \* the requests whose errors on the page can be retried
          frozen,       \* the renderer is in a loop without end
          requests,     \* all requests so far, see Request
          chat,         \* history: how often the page was cleared
          saved         \* history: the last write to localStorage went through

pageVars == <<conversation, streaming, controller, stored, hero, regenerable,
              retriable, chat, saved>>
vars == <<pageVars, requests, lockVars, frozen>>

NoText == <<>>

\* The texts for which renderMarkdownHtml() returns.
Renderable == {NoText} \cup {text \in Texts : Renders(text)}

Turn == [role : {"user", "assistant"}, of : Callers, text : Texts \cup {NoText}]

Request == [live : BOOLEAN,    \* requestAssistant() has not returned
            aborted : BOOLEAN, \* controller.signal.aborted
            text : Texts \cup {NoText}, \* streamed
            chat : Nat,        \* history: the chat it belongs to
            alone : BOOLEAN,   \* history: none was live when it began
            late : BOOLEAN]    \* history: it was live when its chat was cleared

Live(r) == r \in DOMAIN requests /\ requests[r].live

PageTypeOK ==
    /\ conversation \in Seq(Turn)
    /\ stored \in Seq(Turn) /\ Len(stored) <= MaxStoredTurns
    /\ requests \in Seq(Request)
    /\ {streaming, hero, saved, frozen} \subseteq BOOLEAN
    /\ controller \in {NoOne} \cup DOMAIN requests
    /\ regenerable \cup retriable \subseteq DOMAIN requests
    /\ owner # NoOne => Live(owner)
    /\ \A r \in DOMAIN requests : Live(r) <=> r = owner \/ r \in Range(line)

Init == /\ LockInit
        /\ conversation = <<>> /\ stored = <<>>
        /\ streaming = FALSE /\ controller = NoOne
        /\ hero = TRUE
        /\ regenerable = {} /\ retriable = {}
        /\ requests = <<>>
        /\ chat = 0
        /\ saved = TRUE
        /\ frozen = FALSE
-----------------------------------------------------------------------------
(***************************************************************************)
(* Memory and storage                                                      *)
(***************************************************************************)

\* Mutant: the first turns are kept.
FirstTurns(turns) == SubSeq(turns, 1, Min({MaxStoredTurns, Len(turns)}))

\* Mutant: one turn too many.
LastTurnsOffByOne(turns) == SubSeq(turns, Max({1, Len(turns) - MaxStoredTurns}), Len(turns))

\* slice(-MAX_STORED_TURNS)
LastTurns(turns) == SubSeq(turns, Max({1, Len(turns) - MaxStoredTurns + 1}), Len(turns))

\* saveConversation(): setItem() may throw, which nobody hears of.
SaveConversation(turns) ==
    \/ stored' = LastTurns(turns) /\ saved' = TRUE
    \/ turns # <<>> /\ stored' = stored /\ saved' = FALSE

\* Mutant: storage is left alone until the next turn is saved.
ForgetOnly == UNCHANGED <<stored, saved>>

ClearStoredConversation == stored' = <<>> /\ saved' = TRUE

Push(turn) == /\ conversation' = Append(conversation, turn)
              /\ SaveConversation(conversation')

UserTurn(r) == [role |-> "user", of |-> r, text |-> NoText]

Reply(r) == [role |-> "assistant", of |-> r, text |-> requests[r].text]

Filled(r) == requests[r].text # NoText

IsReply(turn) == turn.role = "assistant"

\* findLastAssistantIndex(turns) = i
IsLastAssistantIndex(turns, i) == /\ i \in DOMAIN turns
                                  /\ IsReply(turns[i])
                                  /\ \A j \in (i + 1)..Len(turns) : ~IsReply(turns[j])
-----------------------------------------------------------------------------
(***************************************************************************)
(* A request                                                               *)
(***************************************************************************)

NextRequest == Len(requests) + 1

\* requestAssistant() up to the slot gate, whoever else is still at it.
RequestAssistant ==
    LET r == NextRequest IN
    /\ r <= MaxRequests
    /\ requests' = Append(requests,
                          [live |-> TRUE, aborted |-> FALSE, text |-> NoText,
                           chat |-> chat, late |-> FALSE,
                           alone |-> \A s \in DOMAIN requests : ~Live(s)])
    /\ controller' = r
    /\ streaming' = TRUE
    /\ Enter(r) \/ Join(r)

\* send(): the user's turn is on record before its answer is asked for.
Send == /\ Push(UserTurn(NextRequest))
        /\ hero' = FALSE
        /\ RequestAssistant
        /\ UNCHANGED <<regenerable, retriable, chat>>

AbortController == requests' = [requests EXCEPT ![controller].aborted = TRUE]

\* Mutant: the reply so far is saved, then shown.
ContentChunkSaved(r, text) ==
    /\ owner = r /\ Live(r)
    /\ IF text \in Renderable
       THEN /\ ~Filled(r)
            /\ requests' = [requests EXCEPT ![r].text = text]
            /\ UNCHANGED <<pageVars, frozen>>
       ELSE /\ frozen' = TRUE
            /\ stored' = LastTurns(Append(conversation, [Reply(r) EXCEPT !.text = text]))
            /\ UNCHANGED <<requests, conversation, streaming, controller, hero, regenerable,
                           retriable, chat, saved>>
    /\ UNCHANGED lockVars

\* A chunk of text: the reply so far is rendered.  The first is kept; more of them
\* change nothing, unless the renderer does not return.
ContentChunk(r, text) ==
    /\ owner = r /\ Live(r)
    /\ IF text \in Renderable
       THEN /\ ~Filled(r)
            /\ requests' = [requests EXCEPT ![r].text = text]
            /\ UNCHANGED frozen
       ELSE frozen' = TRUE /\ UNCHANGED requests
    /\ UNCHANGED <<pageVars, lockVars>>

\* The slot is passed on, or the request leaves the line.
LeaveGate(r) == \/ owner = r /\ line = <<>> /\ Free
                \/ owner = r /\ line # <<>> /\ PassTo(1)
                \/ \E i \in DOMAIN line : line[i] = r /\ Leave(i)

\* The finally block, whichever request it belongs to.
Finally(r) == /\ streaming' = FALSE
              /\ controller' = NoOne
              /\ requests' = [requests EXCEPT ![r].live = FALSE]
              /\ LeaveGate(r)
              /\ UNCHANGED <<hero, chat>>

\* Is the wrap of r on the page?  A reload leaves no request, a new chat no wrap.
OnPage(r) == requests[r].chat = chat

\* Mutant: saveConversation() lets the exception of setItem() through, into the
\* catch block, where a stopped request records what it has.
CallEndsRethrown(r) ==
    /\ owner = r /\ Live(r)
    /\ IF requests[r].aborted /\ Filled(r)
       THEN /\ conversation' = conversation \o <<Reply(r), Reply(r)>>
            /\ saved' = FALSE
            /\ UNCHANGED <<stored, regenerable>>
       ELSE /\ Push(Reply(r))
            /\ regenerable' = IF Filled(r) /\ OnPage(r)
                              THEN regenerable \cup {r} ELSE regenerable
    /\ Finally(r)
    /\ UNCHANGED retriable

\* The call comes to its end, as an aborted one may.
CallEnds(r) ==
    /\ owner = r /\ Live(r)
    /\ Push(Reply(r))
    /\ regenerable' = IF Filled(r) /\ OnPage(r) THEN regenerable \cup {r}
                      ELSE regenerable
    /\ Finally(r)
    /\ UNCHANGED retriable

\* Mutant: setStreaming(false) is called for errors, not for aborts.
CallThrowsHalfway(r) ==
    /\ Live(r)
    /\ IF requests[r].aborted
       THEN /\ requests' = [requests EXCEPT ![r].live = FALSE]
            /\ LeaveGate(r)
            /\ UNCHANGED pageVars
       ELSE /\ retriable' = IF OnPage(r) THEN retriable \cup {r} ELSE retriable
            /\ Finally(r)
            /\ UNCHANGED <<conversation, stored, saved, regenerable>>

\* The call throws, be it in the line or in the slot.
CallThrows(r) ==
    /\ Live(r)
    /\ \/ /\ requests[r].aborted /\ Filled(r)
          /\ Push(Reply(r))
          /\ UNCHANGED retriable
       \/ /\ requests[r].aborted /\ ~Filled(r)
          /\ UNCHANGED <<conversation, stored, saved, retriable>>
       \/ /\ ~requests[r].aborted
          /\ retriable' = IF OnPage(r) THEN retriable \cup {r} ELSE retriable
          /\ UNCHANGED <<conversation, stored, saved>>
    /\ Finally(r)
    /\ UNCHANGED regenerable
-----------------------------------------------------------------------------
(***************************************************************************)
(* The user                                                                *)
(***************************************************************************)

\* The button, or Enter, with a text in the box: send, or stop.
Submit == \/ /\ streaming
             /\ AbortController
             /\ UNCHANGED <<pageVars, lockVars>>
          \/ ~streaming /\ Send

\* A suggestion is clicked.  This does not ask whether a reply is streaming.
Suggest == hero /\ Send

NewChat ==
    /\ chat < MaxChats
    /\ chat' = chat + 1
    /\ requests' = [r \in DOMAIN requests |->
                       [requests[r] EXCEPT !.aborted = @ \/ (streaming /\ r = controller),
                                           !.late = @ \/ Live(r)]]
    /\ conversation' = <<>>
    /\ ClearStoredConversation
    /\ regenerable' = {} /\ retriable' = {}
    /\ hero' = TRUE
    /\ UNCHANGED <<streaming, controller, lockVars>>

DropLastReply ==
    \/ \E i \in DOMAIN conversation :
          /\ IsLastAssistantIndex(conversation, i)
          /\ conversation' = RemoveAt(conversation, i)
          /\ SaveConversation(conversation')
    \/ /\ ~\E i \in DOMAIN conversation : IsReply(conversation[i])
       /\ UNCHANGED <<conversation, stored, saved>>

\* Mutant: no look at state.streaming.
RegenerateAnytime(r) ==
    /\ r \in regenerable
    /\ DropLastReply
    /\ regenerable' = regenerable \ {r}
    /\ RequestAssistant
    /\ UNCHANGED <<hero, retriable, chat>>

\* The reply r is thrown away with its wrap, or rather the last reply with that wrap.
Regenerate(r) ==
    /\ ~streaming
    /\ r \in regenerable
    /\ DropLastReply
    /\ regenerable' = regenerable \ {r}
    /\ RequestAssistant
    /\ UNCHANGED <<hero, retriable, chat>>

Retry(r) ==
    /\ ~streaming
    /\ r \in retriable
    /\ retriable' = retriable \ {r}
    /\ RequestAssistant
    /\ UNCHANGED <<conversation, stored, saved, hero, regenerable, chat>>

\* The page is closed, or crashes, and is opened again: restoreConversation().
Reload ==
    /\ owner' = NoOne /\ line' = <<>>
    /\ requests' = [r \in DOMAIN requests |-> [requests[r] EXCEPT !.live = FALSE]]
    /\ conversation' = stored
    /\ streaming' = FALSE /\ controller' = NoOne
    /\ hero' = (stored = <<>>)
    /\ regenerable' = { t.of : t \in { u \in Range(stored) : IsReply(u) /\ u.text # NoText } }
    /\ retriable' = {}
    /\ saved' = TRUE
    /\ frozen' = \E t \in Range(stored) : IsReply(t) /\ t.text \notin Renderable
    /\ UNCHANGED <<stored, chat>>

CallOver(r) == CallEnds(r) \/ CallThrows(r)

\* What the page does while its event loop runs.
Act == \/ \E r \in DOMAIN requests : CallOver(r)
       \/ Submit \/ Suggest \/ NewChat
       \/ \E r \in regenerable : Regenerate(r)
       \/ \E r \in retriable : Retry(r)

Next == \/ ~frozen /\ Act /\ UNCHANGED frozen
        \/ ~frozen /\ \E r \in DOMAIN requests, text \in Texts : ContentChunk(r, text)
        \/ Reload

Spec == Init /\ [][Next]_vars

\* The call that has the slot comes to an end, unless the page is frozen.
OwnerEnds == /\ ~frozen /\ UNCHANGED frozen
             /\ \E r \in DOMAIN requests : owner = r /\ CallOver(r)

\* Nothing is asked of the user.
FairSpec == Spec /\ WF_vars(OwnerEnds)
-----------------------------------------------------------------------------
(***************************************************************************)
(* Properties                                                              *)
(***************************************************************************)

\* The button tells the truth: "stop" names a request that is still at work, and
\* a request that began while no other was at work can be stopped as long as it
\* lasts, unless it was.  (After New chat a suggestion can start a second one
\* beside the first; that pair has one button and one controller.)
ButtonTellsTruth ==
    /\ streaming => Live(controller)
    /\ \A r \in DOMAIN requests :
          Live(r) /\ requests[r].alone /\ ~requests[r].aborted
              => streaming /\ controller = r

\* What New chat cleared does not come back, neither in memory, nor in storage,
\* nor after a reload, except the reply of a call that was still at work.
ClearedStaysCleared ==
    \A t \in Range(conversation) \cup Range(stored) :
        requests[t.of].chat = chat \/ (IsReply(t) /\ requests[t.of].late)

\* Unless the browser refused the last write, a reload finds the last turns of
\* what is in memory, whichever way the turns came and went.
StoreFollowsConversation ==
    saved => /\ IsSuffix(stored, conversation)
             /\ Len(stored) = Min({MaxStoredTurns, Len(conversation)})

\* A request leaves at most one reply, and one question, in memory and in storage,
\* whether it ended, threw, was stopped, or could not be saved.
AnsweredOnce ==
    \A turns \in {conversation, stored} : \A i, j \in DOMAIN turns :
        turns[i].of = turns[j].of /\ turns[i].role = turns[j].role => i = j

\* The send button comes back, provided calls come to an end, unless the renderer
\* takes the page with it.
ButtonComesBack == streaming ~> (~streaming \/ frozen)

\* A reload cures a page that froze: a reply that the renderer loops on is shown
\* before it is recorded, so no conversation that is restored has one.
ReloadUnfreezes == \A t \in Range(stored) : IsReply(t) => t.text \in Renderable
=============================================================================
