------------------------------- MODULE Proxy -------------------------------
(***************************************************************************)
(* The local proxy: the request handler and drain() of                     *)
(* src/server/proxy.js, the prompt cache it shares between requests, and   *)
(* the signal handler of `keylessai serve' in bin/keylessai.js.            *)
(*                                                                         *)
(* A handler runs without interruption between two awaits: of the body, of *)
(* the upstream's next chunk, of the model list.  The events of the        *)
(* responses ("finish", "close"), signals and timers come in between.      *)
(* streamChat() is what Router models: chunks, then an end or an error.    *)
(* A client that leaves aborts its call or not, as the event arrives; to   *)
(* the handler that is one more way for the call to end or to throw.       *)
(***************************************************************************)
EXTENDS PromptCache

CONSTANTS Requests,  \* request objects: how many requests there are at a time
          Providers, \* the pool streamChat() draws on
          Asks,      \* what clients send, see Ask
          MaxTime    \* bound: the clock stops here

AutoId == "auto"

\* preflight: OPTIONS; simple: answered at once (pages, health, embeddings, not
\* found, over the rate limit); models: awaits the providers' lists; chat: the
\* two completion endpoints.
Ask == [kind : {"preflight", "simple", "models", "chat"},
        key : Keys, tools : BOOLEAN, provider : Providers \cup {AutoId}]

NoAsk == [kind |-> "simple", key |-> CHOOSE k \in Keys : TRUE, tools |-> FALSE,
          provider |-> AutoId]

Never == -1

\* What a handler gathers from its call, and puts into the cache: the key it was
\* asked for, whether tools were offered, the providers that contributed text,
\* whether tool calls came, and when the call ended (Never: not yet).
Reply == [of : Keys, offered : BOOLEAN, from : SUBSET Providers, tools : BOOLEAN,
          ended : Nat \cup {Never}]

EmptyReply(a) == [of |-> a.key, offered |-> a.tools, from |-> {}, tools |-> FALSE,
                  ended |-> Never]

ASSUME ProxyAssumption == /\ IsFiniteSet(Requests)
                          /\ Keys # {}
                          /\ Asks \subseteq Ask
                          /\ MaxTime \in Nat

VARIABLES ask,        \* what each request asks
          stage,      \* where its handler stands
          response,   \* its response, as its events report it
          pending,    \* bumped and not _dropped yet
          active,     \* the count of requests in flight
          reply,      \* what the handler gathered from the call
          phase       \* of the process

Exits == {"stopped", "drained", "expired", "forced"}

Stages == {"new", "refused", "reading", "calling", "listing", "over"}

Exited == phase \in Exits

cacheVars == <<entries, now>>
requestVars == <<ask, stage, response, pending, reply>>
processVars == <<active, phase>>
vars == <<cacheVars, requestVars, processVars>>

\* The types of the variables; the cache keeps within its size.
ProxyTypeOK ==
    /\ CacheTypeOK(Reply)
    /\ ask \in [Requests -> Ask]
    /\ stage \in [Requests -> Stages]
    /\ response \in [Requests -> {"none", "open", "ended", "finished", "closed"}]
    /\ pending \in [Requests -> BOOLEAN]
    /\ active \in Int
    /\ reply \in [Requests -> Reply]
    /\ phase \in {"up", "idle", "draining"} \cup Exits

Init == /\ CacheInit
        /\ ask = [r \in Requests |-> NoAsk]
        /\ stage = [r \in Requests |-> "new"]
        /\ response = [r \in Requests |-> "none"]
        /\ pending = [r \in Requests |-> FALSE]
        /\ active = 0
        /\ reply = [r \in Requests |-> EmptyReply(NoAsk)]
        /\ phase = "up"
-----------------------------------------------------------------------------
(***************************************************************************)
(* The handler                                                             *)
(***************************************************************************)

\* The handler is over and ended its response, to no effect if that is closed.
Answer(r) == /\ stage' = [stage EXCEPT ![r] = "over"]
             /\ response' = [response EXCEPT ![r] = IF @ = "closed" THEN @ ELSE "ended"]

\* A request that is answered as it arrives.
AnswerAtOnce(r) == /\ stage' = [stage EXCEPT ![r] = "over"]
                   /\ response' = [response EXCEPT ![r] = "ended"]

\* The handler returns; its variables are gone.
Forget(r) == reply' = [reply EXCEPT ![r] = EmptyReply(NoAsk)]

Open(r, next) == /\ stage' = [stage EXCEPT ![r] = next]
                 /\ response' = [response EXCEPT ![r] = "open"]

\* A request object that no request occupies, or no longer.
Unused(r) == stage[r] = "new" \/ (stage[r] = "over" /\ response[r] = "closed")

\* A request comes in.  A preflight is answered before it is counted.
Arrive(r, a) ==
    /\ ~Exited
    /\ Unused(r)
    /\ ask' = [ask EXCEPT ![r] = a]
    /\ \/ /\ a.kind \in {"preflight", "simple"}
          /\ AnswerAtOnce(r)
       \/ /\ a.kind = "chat"
          /\ Open(r, "reading")
       \/ /\ a.kind = "models"
          /\ Open(r, "listing")
    /\ IF a.kind = "preflight" THEN UNCHANGED <<pending, active>>
       ELSE /\ pending' = [pending EXCEPT ![r] = TRUE]
            /\ active' = active + 1
    /\ UNCHANGED <<cacheVars, reply, phase>>

UseCache(r) == ~ask[r].tools

\* The body is cut off, too large or not valid: 413 or 400.
RejectBody(r) ==
    /\ ~Exited
    /\ stage[r] = "reading"
    /\ Answer(r)
    /\ UNCHANGED <<cacheVars, ask, pending, reply, processVars>>

\* The body is valid and the cache knows the answer.
AnswerFromCache(r) ==
    /\ ~Exited
    /\ stage[r] = "reading"
    /\ response[r] = "open"
    /\ UseCache(r)
    /\ \E e \in Range(entries) : Hit(ask[r].key, e.value)
    /\ Answer(r)
    /\ UNCHANGED <<now, ask, pending, reply, processVars>>

\* It is valid and the upstream is called.
StartCall(r) ==
    /\ ~Exited
    /\ stage[r] = "reading"
    /\ response[r] = "open"
    /\ IF UseCache(r) THEN Miss(ask[r].key) ELSE UNCHANGED entries
    /\ stage' = [stage EXCEPT ![r] = "calling"]
    /\ reply' = [reply EXCEPT ![r] = EmptyReply(ask[r])]
    /\ UNCHANGED <<now, ask, response, pending, processVars>>

\* A content or a tool-call chunk arrives; providers may send tool calls unasked.
Chunk(r) ==
    /\ ~Exited
    /\ stage[r] = "calling"
    /\ \/ \E p \in Providers : /\ ask[r].provider \in {p, AutoId}
                              /\ reply' = [reply EXCEPT ![r].from = @ \cup {p}]
       \/ reply' = [reply EXCEPT ![r].tools = TRUE]
    /\ UNCHANGED <<cacheVars, ask, stage, response, pending, processVars>>

Ended(r) == [reply[r] EXCEPT !.ended = now]

\* Mutant: the tests before put() are dropped.
KeepUnchecked(r) == Put(ask[r].key, Ended(r))

\* A reply that is text only goes into the cache.
Keep(r) == IF UseCache(r) /\ ~reply[r].tools /\ reply[r].from # {}
           THEN Put(ask[r].key, Ended(r)) ELSE UNCHANGED entries

\* The call is over: the last chunk and [DONE], or the whole message.
CallEnds(r) ==
    /\ ~Exited
    /\ stage[r] = "calling"
    /\ Keep(r)
    /\ Answer(r)
    /\ Forget(r)
    /\ UNCHANGED <<now, ask, pending, processVars>>

\* Mutant: the catch block leaves a stream open.
CallThrowsSilently(r) ==
    /\ ~Exited
    /\ stage[r] = "calling"
    /\ stage' = [stage EXCEPT ![r] = "over"]
    /\ UNCHANGED <<cacheVars, ask, response, pending, reply, processVars>>

\* The call throws: an error event and [DONE], or a 400 or 502.
CallThrows(r) ==
    /\ ~Exited
    /\ stage[r] = "calling"
    /\ Answer(r)
    /\ Forget(r)
    /\ UNCHANGED <<cacheVars, ask, pending, processVars>>

SendModels(r) ==
    /\ ~Exited
    /\ stage[r] = "listing"
    /\ Answer(r)
    /\ UNCHANGED <<cacheVars, ask, pending, reply, processVars>>
-----------------------------------------------------------------------------
(***************************************************************************)
(* The count of requests in flight, and the end of the process             *)
(***************************************************************************)

\* Mutant: each event counts.
DropEachTime(r) ==
    /\ pending' = [pending EXCEPT ![r] = FALSE]
    /\ active' = active - 1
    /\ phase' = IF phase = "draining" /\ active = 1 THEN "drained" ELSE phase

\* Mutant: any request that ends resolves drain().
DropResolves(r) ==
    \/ /\ pending[r]
       /\ pending' = [pending EXCEPT ![r] = FALSE]
       /\ active' = active - 1
       /\ phase' = IF phase = "draining" THEN "drained" ELSE phase
    \/ /\ ~pending[r]
       /\ UNCHANGED <<pending, active, phase>>

\* dropOnce().  The drop to zero resolves drain(), and its caller exits before
\* any other event is handled.
DropOnce(r) ==
    \/ /\ pending[r]
       /\ pending' = [pending EXCEPT ![r] = FALSE]
       /\ active' = active - 1
       /\ phase' = IF phase = "draining" /\ active = 1 THEN "drained" ELSE phase
    \/ /\ ~pending[r]
       /\ UNCHANGED <<pending, active, phase>>

\* "finish": the response is handed to the operating system.
Flush(r) ==
    /\ ~Exited
    /\ response[r] = "ended"
    /\ response' = [response EXCEPT ![r] = "finished"]
    /\ DropOnce(r)
    /\ UNCHANGED <<cacheVars, ask, stage, reply>>

\* "close": after "finish", or early because the client left.
Close(r) ==
    /\ ~Exited
    /\ response[r] \in {"open", "ended", "finished"}
    /\ response' = [response EXCEPT ![r] = "closed"]
    /\ DropOnce(r)
    /\ UNCHANGED <<cacheVars, ask, stage, reply>>

\* SIGINT or SIGTERM: the server accepts no more connections; some that it has
\* may still bring a request.  Idle it stops soon, otherwise it drains.
Signal ==
    /\ phase = "up"
    /\ phase' = IF active = 0 THEN "idle" ELSE "draining"
    /\ \E refused \in SUBSET { r \in Requests : Unused(r) } :
          stage' = [r \in Requests |-> IF r \in refused THEN "refused" ELSE stage[r]]
    /\ UNCHANGED <<cacheVars, ask, response, pending, reply, active>>

ExitAs(reason) == /\ phase' = reason
                  /\ UNCHANGED <<cacheVars, requestVars, active>>

\* A second signal.
ForceExit == phase \in {"idle", "draining"} /\ ExitAs("forced")

\* Every connection is closed, or half a second is over.
Stop == phase = "idle" /\ ExitAs("stopped")

\* Mutant: the timer of drain() is never set.
GraceNever == FALSE /\ ExitAs("expired")

\* The grace period of drain() is over, at whatever time that is.
GraceOver == phase = "draining" /\ ExitAs("expired")
-----------------------------------------------------------------------------
\* A program that embeds the proxy may empty the cache.
ClearCache == /\ ~Exited
              /\ entries # <<>>
              /\ Clear
              /\ UNCHANGED <<now, requestVars, processVars>>

Tick == /\ ~Exited
        /\ now < MaxTime
        /\ now' = now + 1
        /\ UNCHANGED <<entries, requestVars, processVars>>

ReadBody(r) == RejectBody(r) \/ AnswerFromCache(r) \/ StartCall(r)

CallOver(r) == CallEnds(r) \/ CallThrows(r)

Next == \/ \E r \in Requests : \/ \E a \in Asks : Arrive(r, a)
                               \/ ReadBody(r) \/ Chunk(r) \/ CallOver(r)
                               \/ SendModels(r) \/ Flush(r) \/ Close(r)
        \/ Signal \/ ForceExit \/ Stop \/ GraceOver
        \/ ClearCache \/ Tick

Spec == Init /\ [][Next]_vars

\* A body arrives or fails; calls end, since streams have a deadline, and so do
\* model lists; timers fire.  No client is assumed to read what it is sent.
FairSpec == /\ Spec
            /\ \A r \in Requests : WF_vars(ReadBody(r)) /\ WF_vars(CallOver(r))
                                      /\ WF_vars(SendModels(r))
            /\ WF_vars(Stop) /\ WF_vars(GraceOver)
-----------------------------------------------------------------------------
(***************************************************************************)
(* What the proxy must guarantee                                           *)
(***************************************************************************)

Unsent(r) == response[r] \in {"open", "ended"}

InFlight == { r \in Requests : Unsent(r) /\ ask[r].kind # "preflight" }

\* "active" counts exactly the requests whose response was neither sent nor
\* abandoned, although a response reports both "finish" and "close".
ActiveCountsInFlight == active = Cardinality(InFlight)

\* A process that says it "drained cleanly" cut no answer off: also not that of a
\* request which came in over an open connection during the drain.
CleanDrainCutsNothing == phase = "drained" => InFlight = {}

\* What the cache replays is the text of a call for the same key that came to its
\* end, of a request without tools and a reply without tool calls: never the
\* beginning of a reply that failed, or no reply at all.
CacheHoldsWholeAnswers ==
    \A e \in Range(entries) :
        /\ e.value.of = e.key
        /\ e.value.from # {} /\ ~e.value.tools /\ ~e.value.offered
        /\ e.value.ended # Never

\* An answer from the cache is at most a lifetime old, however often it was used
\* in the meantime: hits move an entry in the map but do not prolong its life.
NoStaleAnswerStep ==
    \A r \in Requests : AnswerFromCache(r) =>
                            now - Last(entries').value.ended <= TtlMs

NoStaleAnswer == [][NoStaleAnswerStep]_vars

\* Every request the proxy takes is answered, whatever becomes of its body, its
\* call or the other requests, unless its client leaves or the process exits.
EveryRequestAnswered ==
    \A r \in Requests : response[r] = "open" ~> response[r] # "open" \/ Exited

\* A shutdown comes to an end, also when a client never reads its answer.
ShutdownEnds == phase # "up" ~> Exited

\* "You can also pin a specific provider" (README.md:142), "we respect the pin"
\* (router.js:187): the answer to a pinned request is the text of that provider.
\* The key of the cache does not name the provider; the run shows what follows.
PinRespectedStep ==
    \A r \in Requests : AnswerFromCache(r) /\ ask[r].provider # AutoId =>
                            Last(entries').value.from = {ask[r].provider}

PinRespected == [][PinRespectedStep]_vars
=============================================================================
