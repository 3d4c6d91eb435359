-------------------------------- MODULE Stream ---------------------------------
(* One turn's answer on its way to the browser: the runtime sends tool starts,   *)
(* text and result cards (agent/supervisor.py, agent/helper/cards.py,            *)
(* stream_filter.py); a thread of the UI server reads them in chunks and hands   *)
(* events to the browser's response through a queue (ui/api/server.py).          *)
EXTENDS Naturals, SequencesExt

CONSTANTS
    Turns,          \* what the agent may do, as sequences of [kind, of]: a tool "starts", its "result",
                    \* then the "other" events of Strands that carry it, "text"
    LineParts       \* in how many parts a line may arrive

VARIABLES
    turn, step,     \* what the agent does, and how far it is
    cards,          \* CardCollector: of results, not sent yet
    wire,           \* lines sent and not read to their end
    over,           \* "no", "ended" or "failed": the runtime's stream
    reader,         \* the thread: "reading" or "ended"
    buffered,       \* parts of wire's first line read so far
    tool,           \* current_tool: the last started
    queue,          \* events on their way to the response
    browser,        \* "open", "left" or "closed"
    got             \* what the browser got

vars == <<turn, step, cards, wire, over, reader, buffered, tool, queue, browser, got>>

Event(kind, of) == [kind |-> kind, of |-> of]
NoTool == ""
Done == Event("done", NoTool)
Error == Event("error", NoTool)
EndOfQueue == Event("end", NoTool)     \* of the queue: not sent to the browser

Init ==
    /\ turn \in Turns /\ step = 0
    /\ cards = <<>> /\ wire = <<>> /\ over = "no"
    /\ reader = "reading" /\ buffered = 0 /\ tool = NoTool
    /\ queue = <<>> /\ browser = "open" /\ got = <<>>

-----------------------------------------------------------------------------
(* The runtime. *)

\* client_event: tool names and text; the rest of an event stays here.
ClientEvent(e) == IF e.kind \in {"starts", "text"} THEN <<e>> ELSE <<>>

\* A tool's result leaves its card to the collector; any event sends the cards left so far after it.
AgentStep ==
    /\ over = "no" /\ step < Len(turn) /\ step' = step + 1
    /\ LET e == turn[step + 1] IN
         IF e.kind = "result"
         THEN /\ cards' = Append(cards, Event("card", e.of))
              /\ UNCHANGED wire
         ELSE /\ wire' = wire \o ClientEvent(e) \o cards
              /\ cards' = <<>>
    /\ UNCHANGED <<turn, over, reader, buffered, tool, queue, browser, got>>

\* The turn's token counts end it; an exception ends it early, with a line that says so.
AgentEnds ==
    /\ over = "no"
    /\ \/ step = Len(turn) /\ over' = "ended" /\ wire' = Append(wire, Event("usage", NoTool))
       \/ over' = "failed" /\ wire' = Append(wire, Event("failure", NoTool))
    /\ UNCHANGED <<turn, step, cards, reader, buffered, tool, queue, browser, got>>

-----------------------------------------------------------------------------
(* The UI server's reader. *)

\* _process_sse_line on each line: a tool started again at once isn't shown twice.
Process(lines) ==
    FoldLeft(LAMBDA so, line :
                 CASE line.kind = "starts" /\ line.of # so.tool ->
                        [tool |-> line.of, events |-> Append(so.events, line)]
                   [] line.kind \in {"text", "card"} -> [so EXCEPT !.events = Append(@, line)]
                   [] OTHER -> so,
             [tool |-> tool, events |-> <<>>], lines)

\* A read gives what has arrived: some lines, and part of one, which waits for the rest.
ReadChunk ==
    /\ reader = "reading" /\ wire # <<>>
    /\ \E parts \in 1..(Len(wire) * LineParts - buffered) :
         LET whole == (buffered + parts) \div LineParts
             shown == Process(SubSeq(wire, 1, whole))
         IN  /\ buffered' = (buffered + parts) % LineParts
             /\ wire' = SubSeq(wire, whole + 1, Len(wire))
             /\ tool' = shown.tool
             /\ queue' = queue \o shown.events
    /\ UNCHANGED <<turn, step, cards, over, reader, browser, got>>

Read(last) ==
    /\ reader = "reading" /\ reader' = "ended" /\ queue' = queue \o last
    /\ UNCHANGED <<turn, step, cards, wire, over, buffered, tool, browser, got>>

ReadEnd == over # "no" /\ wire = <<>> /\ Read(<<Done, EndOfQueue>>)

\* The connection is lost, and the browser isn't told.
ReadFailsSilently == Read(<<Done, EndOfQueue>>)

\* The connection is lost or silent for too long; or the response closed it.
ReadFails == Read(IF browser = "left" THEN <<EndOfQueue>> ELSE <<Error, Done, EndOfQueue>>)

-----------------------------------------------------------------------------
(* The response.  A keepalive sends nothing the browser shows. *)

Deliver ==
    /\ browser = "open" /\ queue # <<>> /\ queue' = Tail(queue)
    /\ IF Head(queue) = EndOfQueue
         THEN browser' = "closed" /\ UNCHANGED got
         ELSE got' = Append(got, Head(queue)) /\ UNCHANGED browser
    /\ UNCHANGED <<turn, step, cards, wire, over, reader, buffered, tool>>

BrowserLeaves ==
    /\ browser = "open" /\ browser' = "left"
    /\ UNCHANGED <<turn, step, cards, wire, over, reader, buffered, tool, queue, got>>

Next == AgentStep \/ AgentEnds \/ ReadChunk \/ ReadEnd \/ ReadFails \/ Deliver \/ BrowserLeaves

Spec == Init /\ [][Next]_vars

-----------------------------------------------------------------------------
TypeOK ==
    /\ turn \in Turns /\ step \in 0..Len(turn) /\ over \in {"no", "ended", "failed"}
    /\ reader \in {"reading", "ended"} /\ buffered \in 0..(LineParts - 1)
    /\ browser \in {"open", "left", "closed"}

\* What the browser is to show of the turn: where the k-th step is a tool's start, not just after
\* another of the same tool.
StartsAgain(k) ==
    \E j \in 1..(k - 1) : /\ turn[j] = turn[k]
                          /\ \A i \in (j + 1)..(k - 1) : turn[i].kind # "starts"

Shown ==
    LET steps == SelectSeq([k \in DOMAIN turn |-> k],
                           LAMBDA k : turn[k].kind # "other" /\ ~(turn[k].kind = "starts" /\ StartsAgain(k)))
    IN  [n \in DOMAIN steps |->
            IF turn[steps[n]].kind = "result" THEN Event("card", turn[steps[n]].of) ELSE turn[steps[n]]]

Content == SelectSeq(got, LAMBDA e : e \notin {Done, Error})

(* The browser gets the turn's tools, text and cards in their order, none twice, *)
(* however they arrive cut; and a response that ends ends with one "done", after *)
(* all of it or after an error that says it was cut off (_runtime_events), but   *)
(* for a turn the agent failed.                                                  *)
AnswerIsWhole ==
    /\ IsPrefix(Content, Shown)
    /\ browser = "closed" =>
          \/ got = Shown \o <<Done>>
          \/ got = Content \o <<Error, Done>>
          \/ over = "failed" /\ got = Content \o <<Done>>

(* A reply that isn't whole is said to be cut off: not so when the agent fails.  *)
CutOffIsTold ==
    browser = "closed" => got = Shown \o <<Done>> \/ got = Content \o <<Error, Done>>

=============================================================================
