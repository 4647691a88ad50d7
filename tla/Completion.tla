----------------------------- MODULE Completion -----------------------------
(***************************************************************************)
(* One completion, from the bytes of the providers to the message of the   *)
(* client: the provider modules (providers/*.js) with their watchdog,      *)
(* streamChat()'s walk over the candidates, and the handler that gathers   *)
(* text and tool calls (worker/index.js; that of the proxy is the same).   *)
(*                                                                         *)
(* Router models that walk with all calls; this module looks inside one    *)
(* upstream call, which Router leaves open.  A consumer may take its time  *)
(* over a chunk, and may abort.                                            *)
(***************************************************************************)
EXTENDS Adapters, Watchdog

CONSTANTS Providers,
          Format,   \* how each provider answers
          Orders,   \* the candidates of a call, in the order they are tried
          Replies   \* what each provider may answer, see Reply

\* A reply, and the tool calls the model meant by it.
Reply == [lines : Seq(Delta), meant : Seq([id : Seq(STRING), name : Seq(STRING),
                                           args : Seq(Tokens)])]

BareReply(reply) == \A i \in DOMAIN reply.lines : reply.lines[i].calls = <<>>

NoReply == [lines |-> <<>>, meant |-> <<>>]

ASSUME CompletionAssumption == /\ Format \in [Providers -> Formats]
                               /\ Orders \subseteq Seq(Providers) \ {<<>>}
                               /\ \A p \in Providers : Replies[p] \subseteq Reply
                               /\ \A p \in Providers : Format[p] \in Bare =>
                                      \A reply \in Replies[p] : BareReply(reply)

VARIABLES stage,    \* where the call stands
          order,    \* its candidates
          at,       \* which of them is called
          attempt,  \* that provider's generator, see Attempt
          aborted,  \* signal.aborted
          got,      \* what the handler gathered, see Gather
          mark      \* history: got when the attempt began

vars == <<watchVars, stage, order, at, attempt, aborted, got, mark>>

\* fetching: fetch() is awaited; refused: the body of an error response; body:
\* that of a whole answer; looping: at the head of the read loop; reading: a read
\* is awaited; holding: suspended at a yield.
Running == {"fetching", "refused", "body", "looping", "reading", "holding"}

Settled == {"done", "failed"}

Attempt == [reply : Reply,
            sent : Nat,             \* how much of it is on the wire
            buffer : Seq(Delta \cup {NewLine}),
            inside : BOOLEAN,       \* inThinkBlock
            due : Seq([type : {"content", "reasoning", "tool_call_delta"},
                       text : Seq(STRING), call : Seq(Fragment)]),
            emitted : BOOLEAN]

Called(reply) == [reply |-> reply, sent |-> 0, buffer |-> <<>>, inside |-> FALSE,
                  due |-> <<>>, emitted |-> FALSE]

\* assembled, and toolAcc.
Nothing == [text |-> <<>>, calls |-> <<>>]

Provider == order[at]

Wire == Atoms(Format[Provider], attempt.reply.lines)

\* The timers are those of the code: one per awaited fetch or read, none else.
Watched == CASE stage = "reading" -> HeartbeatMs
             [] stage = "fetching" /\ Format[Provider] # "get" -> FetchTimeoutMs
             [] OTHER -> 0

CompletionTypeOK ==
    /\ WatchdogTypeOK(Seq(Delta \cup {NewLine}))
    /\ stage \in {"new"} \cup Running \cup Settled
    /\ order \in Orders
    /\ at \in DOMAIN order
    /\ attempt \in Attempt
    /\ attempt.sent \in 0..Len(Wire)
    /\ aborted \in BOOLEAN
    /\ period = Watched

Init == /\ period = 0 /\ quiet = 0 /\ elapsed = 0 /\ queue = <<>> /\ socket = "open"
        /\ stage = "new"
        /\ order \in Orders
        /\ at = 1
        /\ attempt = Called(NoReply)
        /\ aborted = FALSE
        /\ got = Nothing /\ mark = Nothing
-----------------------------------------------------------------------------
(***************************************************************************)
(* The walk over the candidates                                            *)
(***************************************************************************)

\* The next candidate's module is called.  All but pollinations-get bound the time
\* to its response.
Call(i) == /\ stage' = "fetching"
           /\ at' = i
           /\ \E reply \in Replies[order[i]] : attempt' = Called(reply)
           /\ mark' = got
           /\ IF Format[order[i]] = "get" THEN ClearTimer ELSE SetTimer(FetchTimeoutMs)
           /\ elapsed' = 0 /\ queue' = <<>> /\ socket' = "open"
           /\ UNCHANGED order

Settle(outcome) == /\ stage' = outcome
                   /\ ClearTimer
                   /\ UNCHANGED <<elapsed, queue, socket, order, at, attempt, mark>>

\* The attempt threw, or ended without a chunk.
AttemptFails == IF at < Len(order) THEN Call(at + 1) ELSE Settle("failed")

AttemptEnds == IF attempt.emitted THEN Settle("done") ELSE AttemptFails

Start == /\ stage = "new"
         /\ Call(1)
         /\ UNCHANGED <<aborted, got>>
-----------------------------------------------------------------------------
(***************************************************************************)
(* The response                                                            *)
(***************************************************************************)

\* fetch() rejects: no connection, an aborted signal, or a response these modules
\* throw on at once.
FetchThrows == /\ stage = "fetching"
               /\ AttemptFails
               /\ UNCHANGED <<aborted, got>>

\* Mutant: combineSignalWithTimeout() and fetch() ignore the caller's signal.
FetchAbortedIgnored == FALSE /\ FetchThrows

\* The signal was aborted before or while fetch() was awaited.
FetchAborted == aborted /\ FetchThrows

\* The connection timer.
ConnectTimeout == Due /\ FetchThrows

\* A good response.  dispose() clears the timer and stops listening to the signal;
\* the first read of a stream is awaited at once.
Respond == /\ stage = "fetching"
           /\ ~aborted
           /\ IF Format[Provider] = "get"
              THEN stage' = "body" /\ UNCHANGED watchVars
              ELSE /\ stage' = "reading"
                   /\ SetTimer(HeartbeatMs)
                   /\ elapsed' = 0
                   /\ UNCHANGED <<queue, socket>>
           /\ UNCHANGED <<order, at, attempt, aborted, got, mark>>

\* Mutant: dispose() is called only for good responses.
RefuseUndisposed == /\ stage = "fetching"
                    /\ ~aborted
                    /\ Format[Provider] # "get"
                    /\ stage' = "refused"
                    /\ UNCHANGED <<watchVars, order, at, attempt, aborted, got, mark>>

\* An error status: its text is awaited for the message, by then without any
\* timer or signal.
Refuse == /\ stage = "fetching"
          /\ ~aborted
          /\ Format[Provider] # "get"
          /\ stage' = "refused"
          /\ ClearTimer
          /\ UNCHANGED <<elapsed, queue, socket, order, at, attempt, aborted, got, mark>>

RefusalEnds == /\ stage = "refused"
               /\ AttemptFails
               /\ UNCHANGED <<aborted, got>>

\* The whole answer of pollinations-get is there, or its body fails.
BodyEnds == /\ stage = "body"
            /\ stage' = "holding"
            /\ attempt' = [attempt EXCEPT !.sent = Len(Wire),
                                          !.due = <<Content(Text(attempt.reply.lines))>>]
            /\ socket' = "closed"
            /\ UNCHANGED <<period, quiet, elapsed, queue>>
            /\ UNCHANGED <<order, at, aborted, got, mark>>

BodyThrows == /\ stage = "body"
              /\ AttemptFails
              /\ UNCHANGED <<aborted, got>>

BodyAborted == aborted /\ BodyThrows
-----------------------------------------------------------------------------
(***************************************************************************)
(* The read loop                                                           *)
(***************************************************************************)

\* Mutant: the buffer starts anew with each piece.
TakeUnbuffered(piece, n) ==
    LET d == Decoded(Format[Provider], [buffer |-> <<>>, inside |-> attempt.inside],
                     piece)
    IN  /\ attempt' = [attempt EXCEPT !.buffer = d.buffer, !.inside = d.inside,
                                      !.due = d.due, !.sent = @ + n]
        /\ stage' = IF d.due = <<>> THEN "looping" ELSE "holding"

\* A piece is decoded, n atoms of which are new; the generator yields the first
\* chunk it completes.
Take(piece, n) ==
    LET d == Decoded(Format[Provider], attempt, piece) IN
    /\ attempt' = [attempt EXCEPT !.buffer = d.buffer, !.inside = d.inside,
                                  !.due = d.due, !.sent = @ + n]
    /\ stage' = IF d.due = <<>> THEN "looping" ELSE "holding"

Overdue == Format[Provider] # "get" /\ DeadlineExceeded

\* The head of the loop: the deadline, then what the stream has.
Loop ==
    /\ stage = "looping"
    /\ \/ /\ Overdue \/ (queue = <<>> /\ socket = "failed")
          /\ AttemptFails
       \/ /\ ~Overdue
          /\ \E piece \in Range(queue) : ReadNext(piece) /\ Take(piece, 0)
          /\ UNCHANGED <<order, at, mark>>
       \/ /\ ~Overdue
          /\ AwaitRead
          /\ stage' = "reading"
          /\ UNCHANGED <<order, at, attempt, mark>>
       \/ /\ ~Overdue /\ AtEnd
          /\ AttemptEnds
    /\ UNCHANGED <<aborted, got>>

\* The heartbeat timer fires during a read.
HeartbeatTimeout == /\ stage = "reading"
                    /\ Due
                    /\ AttemptFails
                    /\ UNCHANGED <<aborted, got>>

\* The handler takes a chunk, as the worker's loop does.
Gather(g, chunk) ==
    CASE chunk.type = "content" -> [g EXCEPT !.text = @ \o chunk.text]
      [] chunk.type = "tool_call_delta" ->
             [g EXCEPT !.calls = Accumulate(@, chunk.call[1])]
      [] chunk.type = "reasoning" -> g

\* The chunk that is yielded is passed on, and the next one is asked for.
Pull == /\ stage = "holding"
        /\ got' = Gather(got, Head(attempt.due))
        /\ attempt' = [attempt EXCEPT !.due = Tail(@), !.emitted = TRUE]
        /\ stage' = IF Len(attempt.due) = 1 THEN "looping" ELSE "holding"
        /\ UNCHANGED <<watchVars, order, at, aborted, mark>>

\* The router finds a notice: it leaves the provider's generator, whose finally
\* blocks run; nobody cancels the reader.
Leave == /\ stage = "holding"
         /\ Head(attempt.due).type = "content"
         /\ AttemptFails
         /\ UNCHANGED <<aborted, got>>
-----------------------------------------------------------------------------
(***************************************************************************)
(* The network and the client                                              *)
(***************************************************************************)

\* The next n atoms of the reply arrive in one piece.
Send(n) ==
    /\ socket = "open"
    /\ attempt.sent + n <= Len(Wire)
    /\ LET piece == SubSeq(Wire, attempt.sent + 1, attempt.sent + n) IN
       \/ /\ stage = "reading"
          /\ Take(piece, n)
          /\ ClearTimer
          /\ UNCHANGED queue
       \/ /\ stage = "holding"
          /\ queue' = Append(queue, piece)
          /\ attempt' = [attempt EXCEPT !.sent = @ + n]
          /\ UNCHANGED <<stage, period, quiet>>
    /\ UNCHANGED <<elapsed, socket, order, at, aborted, got, mark>>

\* The connection is closed, be the reply complete or not.
UpstreamCloses ==
    /\ \/ stage = "reading" /\ AttemptEnds
       \/ /\ stage = "holding" /\ socket = "open"
          /\ socket' = "closed"
          /\ UNCHANGED <<period, quiet, elapsed, queue, stage, order, at, attempt, mark>>
    /\ UNCHANGED <<aborted, got>>

\* The connection breaks: what was not read yet is lost.
UpstreamFails ==
    /\ \/ stage = "reading" /\ AttemptFails
       \/ /\ stage = "holding" /\ socket = "open"
          /\ socket' = "failed" /\ queue' = <<>>
          /\ UNCHANGED <<period, quiet, elapsed, stage, order, at, attempt, mark>>
    /\ UNCHANGED <<aborted, got>>

\* The caller aborts.  A read that is awaited resolves with done, by the cancel()
\* of the listener; that listener is there from the first read on.
Abort ==
    /\ stage \in Running \ {"looping"}
    /\ ~aborted
    /\ aborted' = TRUE
    /\ \/ stage = "reading" /\ AttemptEnds
       \/ /\ stage = "holding" /\ Format[Provider] # "get"
          /\ CancelReader
          /\ UNCHANGED <<period, quiet, elapsed, stage, order, at, attempt, mark>>
       \/ /\ \/ stage \in {"fetching", "refused", "body"}
             \/ stage = "holding" /\ Format[Provider] = "get"
          /\ UNCHANGED <<watchVars, stage, order, at, attempt, mark>>
    /\ UNCHANGED got

\* The loop runs without a pause from one wait to the next.
Pass == /\ stage \in Running \ {"looping"}
        /\ Tick
        /\ UNCHANGED <<stage, order, at, attempt, aborted, got, mark>>

Network == \/ FetchThrows \/ Respond \/ Refuse \/ RefusalEnds
           \/ BodyEnds \/ BodyThrows
           \/ \E n \in 1..Len(Wire) : Send(n)
           \/ UpstreamCloses \/ UpstreamFails

Next == \/ Start \/ Network
        \/ FetchAborted \/ ConnectTimeout \/ BodyAborted \/ HeartbeatTimeout
        \/ Loop \/ Pull \/ Leave
        \/ Abort \/ Pass

Spec == Init /\ [][Next]_vars

\* The event loop runs what is due and the consumer takes what is yielded; nothing
\* is asked of the network.
FairSpec == /\ Spec
            /\ WF_vars(Loop) /\ WF_vars(Pull) /\ WF_vars(Pass)
            /\ WF_vars(ConnectTimeout) /\ WF_vars(HeartbeatTimeout)
            /\ WF_vars(FetchAborted) /\ WF_vars(BodyAborted)
-----------------------------------------------------------------------------
(***************************************************************************)
(* Properties                                                              *)
(***************************************************************************)

\* No read is awaited longer than the deadline and one heartbeat after the
\* response, however the upstream dribbles and however slow the consumer is.
WaitBounded == stage = "reading" => elapsed <= DeadlineMs + HeartbeatMs + TimerSlack

\* The tags that two deltas share, which providers/airforce.js does not see.
Tears(s, t) == /\ s # <<>> /\ Last(s) \in {"<think", "</think"}
               /\ t # <<>> /\ Head(t) = ">"

Torn(deltas) ==
    \E i, j \in DOMAIN deltas :
        /\ i < j /\ \A k \in (i + 1)..(j - 1) : deltas[k].text = <<>>
        /\ Tears(deltas[i].text, deltas[j].text)

\* The text of the deltas that is meant to be seen.
Visible(deltas) == IF Format[Provider] = "airforce" THEN StripThinkTags(Text(deltas))
                   ELSE Text(deltas)

\* The deltas that came in whole.
Received == LET atoms == SubSeq(Wire, 1, attempt.sent) IN
            IF Format[Provider] = "yqcloud" THEN atoms ELSE Lines(atoms)

\* However the network cuts the reply into pieces, and whichever of them wait in
\* the stream: what the handler has when the next read waits is the text and the
\* fragments of the deltas that came in whole, thoughts removed, nothing twice.
CutsDontMatter ==
    stage = "reading" =>
        /\ Torn(Received) \/ got.text = mark.text \o Visible(Received)
        /\ got.calls = FoldLeft(Accumulate, mark.calls, Fragments(Received))

\* The tail of a call that came apart begins like arguments of its own.
TailLooksNew == \E i \in DOMAIN got.calls : /\ got.calls[i].name = <<>>
                                            /\ LooksLikeOpenJson(got.calls[i].args)

\* A call that ends well after the whole reply of its last provider: the message
\* has all of the visible text, and the tool calls the model meant.
ReplyRestored ==
    stage = "done" /\ attempt.sent = Len(Wire) /\ ~aborted =>
        /\ \/ Torn(attempt.reply.lines)
           \/ got.text = mark.text \o Visible(attempt.reply.lines)
        /\ \/ mark.calls # <<>>
           \/ TailLooksNew
           \/ BuildToolCalls(got.calls) = attempt.reply.meant

\* After an abort no read is awaited, not even of a later candidate.
AbortStopsReading == aborted => stage # "reading"

\* What no timer watches: the body of an error response, and pollinations-get.
Unguarded == \/ stage \in {"refused", "body"}
             \/ stage = "fetching" /\ Format[Provider] = "get"

\* Whatever upstreams do, or leave undone, the call ends, except where nothing
\* guards a wait.
SilentUpstreamEnds == stage # "new" ~> (stage \in Settled \/ Unguarded)

\* An abort ends the call, except while the body of an error response is awaited.
AbortAnswered == aborted ~> (stage \in Settled \/ stage = "refused")
=============================================================================
