--------------------------- MODULE StreamDialects ---------------------------
(***************************************************************************)
(* The stream converters of api/v1/chat_streaming.py and the billing       *)
(* observer behind them.  A stream arrives in the OpenAI or the Anthropic  *)
(* shape and leaves in the shape the client asked for: OpenAI, Anthropic   *)
(* or Responses; an Anthropic upstream behind a Responses client passes    *)
(* two converters.  A converter is a function from its state and one event *)
(* to the events it writes; what it writes goes on to the client and to    *)
(* _DirectChatStreamObservationBuilder.  Texts are reduced to the items    *)
(* they belong to, usage to its two counts.                                *)
(***************************************************************************)
EXTENDS Naturals, Integers, Sequences, FiniteSets, SequencesExt, FiniteSetsExt

CONSTANTS MaxEvents      \* events of the upstream

ToolIds == {0, 1}
NoIndex == -1
Absent == -1             \* a count the event does not carry
Usage(p, c) == [p |-> p, c |-> c]
NoUsage == Usage(Absent, Absent)
Zero == Usage(0, 0)
Update(u, v) == Usage(IF v.p = Absent THEN u.p ELSE v.p, IF v.c = Absent THEN u.c ELSE v.c)

VARIABLE dl

(* An OpenAI chunk, one kind of content at a time.  tool: the index of a   *)
(* call, id: its identity in the first chunk, args: some arguments.        *)
Chunk(k) == [k |-> k, tool |-> NoIndex, id |-> NoIndex, args |-> FALSE, u |-> NoUsage]

-----------------------------------------------------------------------------
(* _anthropic_stream_to_openai.                                            *)

AtoO == [role |-> FALSE, tools |-> << >>, u |-> Zero]    \* tools: the blocks, in the order of their calls

RoleOnce(s) == IF s.role THEN << >> ELSE << Chunk("role") >>

AnthropicEventToOpenAI(s, e) ==
  LET told == [s EXCEPT !.role = TRUE]
      slot == CHOOSE j \in 1..Len(s.tools) : s.tools[j] = e.i IN
  CASE e.e = "message_start" -> [st |-> [told EXCEPT !.u.p = Update(Zero, e.u).p], out |-> RoleOnce(s)]
    [] e.e = "block_start" /\ e.kind = "tool" ->
         [st |-> [told EXCEPT !.tools = Append(@, e.i)],
          out |-> RoleOnce(s) \o << [Chunk("tool") EXCEPT !.tool = Len(s.tools), !.id = e.i] >>]
    [] e.e = "block_delta" /\ e.kind = "text" -> [st |-> told, out |-> RoleOnce(s) \o << Chunk("text") >>]
    [] e.e = "block_delta" /\ e.kind = "thinking" -> [st |-> told, out |-> RoleOnce(s) \o << Chunk("reason") >>]
    [] e.e = "block_delta" /\ e.kind = "tool" /\ e.i \in Range(s.tools) ->
         [st |-> s, out |-> << [Chunk("tool") EXCEPT !.tool = slot - 1, !.args = TRUE] >>]
    [] e.e = "message_delta" -> [st |-> [s EXCEPT !.u = Update(@, e.u)], out |-> << >>]
    [] e.e = "error" -> [st |-> s, out |-> << Chunk("error") >>]
    [] OTHER -> [st |-> s, out |-> << >>]
\* The end of the source, whatever it had said so far.
AnthropicEndToOpenAI(s) == RoleOnce(s) \o << [Chunk("finish") EXCEPT !.u = s.u], Chunk("done") >>

-----------------------------------------------------------------------------
(* _openai_stream_to_anthropic.                                            *)

OtoA == [started |-> FALSE, thinking |-> NoIndex, text |-> NoIndex, tools |-> << >>, next |-> 0, u |-> Zero, failed |-> FALSE]
AEvent(e, i, kind, u) == [e |-> e, i |-> i, kind |-> kind, id |-> NoIndex, u |-> u]

\* A block of its own for the thinking and for the text, and one for each call.
OpenBlock(s, kind, tool, id) ==
  [st |-> CASE kind = "thinking" -> [s EXCEPT !.thinking = s.next, !.next = @ + 1]
            [] kind = "text" -> [s EXCEPT !.text = s.next, !.next = @ + 1]
            [] kind = "tool" -> [s EXCEPT !.tools = Append(@, [tool |-> tool, i |-> s.next]), !.next = @ + 1],
   out |-> << [AEvent("block_start", s.next, kind, NoUsage) EXCEPT !.id = id] >>]
\* mutant: every chunk of a call goes to the block opened last
BlockOfLast(s, kind, tool) ==
  CASE kind = "thinking" -> s.thinking
    [] kind = "text" -> s.text
    [] kind = "tool" -> IF s.tools # << >> THEN s.tools[Len(s.tools)].i ELSE NoIndex

BlockOf(s, kind, tool) ==
  CASE kind = "thinking" -> s.thinking
    [] kind = "text" -> s.text
    [] kind = "tool" -> IF \E j \in 1..Len(s.tools) : s.tools[j].tool = tool
                        THEN s.tools[CHOOSE j \in 1..Len(s.tools) : s.tools[j].tool = tool].i ELSE NoIndex

Deltas(s, c) ==
  LET kind == CASE c.k = "reason" -> "thinking" [] c.k = "text" -> "text" [] c.k = "tool" -> "tool"
      opened == IF BlockOf(s, kind, c.tool) # NoIndex THEN [st |-> s, out |-> << >>] ELSE OpenBlock(s, kind, c.tool, c.id)
      at == BlockOf(opened.st, kind, c.tool) IN
  [st |-> opened.st,
   out |-> opened.out \o (IF c.k # "tool" \/ c.args THEN << AEvent("block_delta", at, kind, NoUsage) >> ELSE << >>)]

OpenAIChunkToAnthropic(s, c) ==
  IF c.k = "error" THEN [st |-> [s EXCEPT !.failed = TRUE], out |-> << AEvent("error", NoIndex, "none", NoUsage) >>]
  ELSE IF c.k = "done" THEN [st |-> s, out |-> << >>]
  ELSE LET known == [s EXCEPT !.started = TRUE, !.u = Update(@, c.u)]
           start == IF s.started THEN << >> ELSE << AEvent("message_start", NoIndex, "none", Usage(known.u.p, 0)) >>
           rest == IF c.k \in {"reason", "text", "tool"} THEN Deltas(known, c) ELSE [st |-> known, out |-> << >>] IN
       [st |-> rest.st, out |-> start \o rest.out]

OpenAIEndToAnthropic(s) ==
  LET empty == s.thinking = NoIndex /\ s.text = NoIndex /\ s.tools = << >>
      start == IF s.started THEN << >> ELSE << AEvent("message_start", NoIndex, "none", s.u) >>
      opened == IF empty THEN OpenBlock(s, "text", NoIndex, NoIndex) ELSE [st |-> s, out |-> << >>]
      Stop(i) == IF i = NoIndex THEN << >> ELSE << AEvent("block_stop", i, "none", NoUsage) >> IN
  start \o opened.out \o Stop(opened.st.thinking) \o Stop(opened.st.text)
    \o FlattenSeq([j \in 1..Len(s.tools) |-> Stop(s.tools[j].i)])
    \o << AEvent("message_delta", NoIndex, "none", s.u), AEvent("message_stop", NoIndex, "none", NoUsage) >>

-----------------------------------------------------------------------------
(* _openai_stream_to_responses.  An item of the answer is the reasoning,   *)
(* the text or a call; parts is what was written of it.                    *)

OtoR == [items |-> << >>, u |-> Zero, failed |-> FALSE]
REvent(e, i, kind, parts, u) == [e |-> e, i |-> i, kind |-> kind, id |-> NoIndex, parts |-> parts, u |-> u]

ItemOf(s, kind, tool) == {j \in 1..Len(s.items) : s.items[j].kind = kind /\ s.items[j].tool = tool}

OpenAIChunkToResponses(s, c) ==
  LET kind == CASE c.k = "reason" -> "thinking" [] c.k = "text" -> "text" [] OTHER -> "tool"
      isnew == ItemOf(s, kind, c.tool) = {}
      at == IF isnew THEN Len(s.items) + 1 ELSE CHOOSE j \in ItemOf(s, kind, c.tool) : TRUE
      writes == c.k # "tool" \/ c.args
      items == IF isnew THEN Append(s.items, [kind |-> kind, tool |-> c.tool, parts |-> 0]) ELSE s.items
      told == [s EXCEPT !.u = IF c.u # NoUsage THEN Update(Zero, c.u) ELSE @] IN
  CASE c.k = "error" -> [st |-> [s EXCEPT !.failed = TRUE], out |-> << REvent("failed", NoIndex, "none", 0, s.u), REvent("done", NoIndex, "none", 0, NoUsage) >>]
    [] c.k \in {"reason", "text", "tool"} ->
         [st |-> [told EXCEPT !.items = IF writes THEN [items EXCEPT ![at].parts = @ + 1] ELSE items],
          out |-> (IF isnew /\ c.k = "tool" THEN << [REvent("added", at - 1, "tool", 0, NoUsage) EXCEPT !.id = c.id] >> ELSE << >>)
                  \o (IF writes THEN << REvent("delta", at - 1, kind, 1, NoUsage) >> ELSE << >>)]
    [] OTHER -> [st |-> told, out |-> << >>]

OpenAIEndToResponses(s) ==
  [j \in 1..Len(s.items) |-> REvent("item_done", j - 1, s.items[j].kind, s.items[j].parts, NoUsage)]
    \o << REvent("completed", Len(s.items), "none", 0, s.u), REvent("done", NoIndex, "none", 0, NoUsage) >>

-----------------------------------------------------------------------------
(* _DirectChatStreamObservationBuilder: what the client is sent is what    *)
(* it is billed for.  build_token_model_component refuses a usage of zero. *)

NoBill == [kind |-> "none", u |-> NoUsage]
Bill(kind, u) == [kind |-> IF Absent \in {u.p, u.c} \/ u.p + u.c = 0 THEN "refused" ELSE kind, u |-> u]
Estimated == [kind |-> "estimated", u |-> NoUsage]       \* of the request and of the text sent

\* mutant: the last event with a usage counts, not what the events say together
ObserveLast(b, client, e) ==
  IF b.bill # NoBill THEN b ELSE
  CASE client = "anthropic" -> IF e.e = "message_stop" THEN [b EXCEPT !.bill = Bill("real", b.u)]
                               ELSE IF e.u # NoUsage THEN [b EXCEPT !.u = e.u] ELSE b
    [] client = "responses" -> IF e.e = "completed" THEN [b EXCEPT !.bill = Bill("real", e.u)] ELSE b
    [] client = "openai" -> IF e.k = "done" THEN [b EXCEPT !.bill = IF b.u # NoUsage THEN Bill("real", b.u) ELSE Estimated]
                            ELSE IF e.u # NoUsage THEN [b EXCEPT !.u = e.u] ELSE b

Observe(b, client, e) ==
  IF b.bill # NoBill THEN b ELSE
  CASE client = "anthropic" -> IF e.e = "message_stop" THEN [b EXCEPT !.bill = Bill("real", b.u)]
                               ELSE [b EXCEPT !.u = Update(@, e.u)]
    [] client = "responses" -> IF e.e = "completed" THEN [b EXCEPT !.bill = Bill("real", e.u)] ELSE b
    [] client = "openai" -> IF e.k = "done" THEN [b EXCEPT !.bill = IF b.u # NoUsage THEN Bill("real", b.u) ELSE Estimated]
                            ELSE IF e.u # NoUsage THEN [b EXCEPT !.u = e.u] ELSE b

\* The client left: what was sent so far is billed.
BuildPartial(b, client) ==
  IF b.bill # NoBill THEN b.bill ELSE
  CASE client = "anthropic" -> IF b.u = NoUsage THEN NoBill ELSE Bill("estimated", Update(Usage(Absent, 0), b.u))
    [] client = "openai" /\ b.u # NoUsage -> Bill("real", b.u)
    [] OTHER -> Estimated

-----------------------------------------------------------------------------
DLInit ==
  \E client \in {"openai", "anthropic", "responses"}, upstream \in {"openai", "anthropic"} :
    dl = [client |-> client, upstream |-> upstream, phase |-> "open",    \* "open", "ended", "failed" or "left"
          first |-> AtoO, toA |-> OtoA, toR |-> OtoR, out |-> << >>, bill |-> [u |-> NoUsage, bill |-> NoBill],
          n |-> 0, said |-> << >>, usage |-> NoUsage, finished |-> FALSE, blocks |-> << >>]   \* the upstream's side

\* What goes to the client, past the observer.
Send(d, events) ==
  [d EXCEPT !.out = @ \o events,
            !.bill = FoldLeft(LAMBDA b, e : Observe(b, d.client, e), @, events),
            !.phase = IF \E j \in 1..Len(events) : d.client = "openai" /\ events[j].k = "error" THEN "failed" ELSE @]

\* The second converter, if the client wants one.
Pass(d, chunk) ==
  IF d.phase # "open" THEN d
  ELSE CASE d.client = "openai" -> Send(d, << chunk >>)
         [] d.client = "anthropic" -> LET r == OpenAIChunkToAnthropic(d.toA, chunk) IN
              [Send(d, r.out) EXCEPT !.toA = r.st, !.phase = IF r.st.failed THEN "failed" ELSE @]
         [] d.client = "responses" -> LET r == OpenAIChunkToResponses(d.toR, chunk) IN
              [Send(d, r.out) EXCEPT !.toR = r.st, !.phase = IF r.st.failed THEN "failed" ELSE @]
PassAll(d, chunks) == FoldLeft(Pass, d, chunks)

PassEnd(d) ==
  IF d.phase # "open" THEN d
  ELSE CASE d.client = "openai" -> [d EXCEPT !.phase = "ended"]
         [] d.client = "anthropic" -> [Send(d, OpenAIEndToAnthropic(d.toA)) EXCEPT !.phase = "ended"]
         [] d.client = "responses" -> [Send(d, OpenAIEndToResponses(d.toR)) EXCEPT !.phase = "ended"]

\* A native answer to a client of the same kind is not converted.
Feed(d, e) ==
  IF d.upstream = "openai" THEN Pass(d, e)
  ELSE IF d.client = "anthropic" THEN [Send(d, << e >>) EXCEPT !.phase = IF e.e = "error" THEN "failed" ELSE @]
  ELSE LET r == AnthropicEventToOpenAI(d.first, e) IN [PassAll(d, r.out) EXCEPT !.first = r.st]
FeedEnd(d) ==
  IF d.upstream = "openai" THEN PassEnd(d)
  ELSE IF d.client = "anthropic" THEN [d EXCEPT !.phase = "ended"]
  ELSE PassEnd(PassAll(d, AnthropicEndToOpenAI(d.first)))

\* What the upstream says: content items, as <<kind, call>>.
DialectStep(e, said) ==
  /\ dl.phase = "open" /\ dl.n < MaxEvents
  /\ dl' = Feed([dl EXCEPT !.n = @ + 1, !.said = @ \o said], e)

OpenAIContent ==
  /\ dl.upstream = "openai" /\ ~dl.finished
  /\ \/ DialectStep(Chunk("role"), << >>)
     \/ DialectStep(Chunk("text"), << <<"text", NoIndex>> >>)
     \/ DialectStep(Chunk("reason"), << <<"thinking", NoIndex>> >>)
     \/ \E t \in ToolIds, args \in BOOLEAN :
          DialectStep([Chunk("tool") EXCEPT !.tool = t, !.id = t, !.args = args], IF args THEN << <<"tool", t>> >> ELSE << >>)
\* The finish reason, a usage (with it or after it) and [DONE].
OpenAIEnd ==
  /\ dl.upstream = "openai" /\ dl.phase = "open" /\ dl.n < MaxEvents
  /\ \E k \in {"finish", "usage", "error"}, u \in {NoUsage, Usage(1, 1), Usage(1, 2)} :
       /\ k = "error" => u = NoUsage
       /\ k = "usage" => u # NoUsage
       /\ dl' = Feed([dl EXCEPT !.n = @ + 1, !.finished = @ \/ k = "finish", !.usage = IF u # NoUsage THEN u ELSE @],
                     [Chunk(k) EXCEPT !.u = u])

AnthropicContent ==
  /\ dl.upstream = "anthropic" /\ ~dl.finished
  /\ \/ /\ dl.n = 0 /\ dl.phase = "open"
        /\ \E p \in {Absent, 1} : dl' = Feed([dl EXCEPT !.n = 1, !.usage = Update(@, Usage(p, Absent))],
                                          AEvent("message_start", NoIndex, "none", Usage(p, Absent)))
     \/ /\ dl.n > 0 /\ dl.n < MaxEvents /\ dl.phase = "open"
        /\ \E kind \in {"text", "thinking", "tool"} :
             dl' = Feed([dl EXCEPT !.n = @ + 1, !.blocks = Append(@, kind)],
                        [AEvent("block_start", Len(dl.blocks), kind, NoUsage) EXCEPT !.id = Len(dl.blocks)])
     \/ \E j \in 1..Len(dl.blocks) :
          DialectStep(AEvent("block_delta", j - 1, dl.blocks[j], NoUsage),
               << <<dl.blocks[j], IF dl.blocks[j] = "tool" THEN j - 1 ELSE NoIndex>> >>)
AnthropicEnd ==
  /\ dl.upstream = "anthropic" /\ dl.phase = "open" /\ dl.n > 0 /\ dl.n < MaxEvents
  /\ \/ /\ ~dl.finished
        /\ \E u \in {Usage(Absent, 1), Usage(2, 2)} :
             dl' = Feed([dl EXCEPT !.n = @ + 1, !.finished = TRUE, !.usage = Update(@, u)], AEvent("message_delta", NoIndex, "none", u))
     \/ dl' = Feed([dl EXCEPT !.n = @ + 1], AEvent("error", NoIndex, "none", NoUsage))

\* The source ends: after the finish the upstream reader has seen to it that the
\* terminal came, before it the stream was cut off.
SourceEnds ==
  /\ dl.phase = "open"
  /\ LET terminal == IF dl.upstream = "openai" THEN Chunk("done") ELSE AEvent("message_stop", NoIndex, "none", NoUsage) IN
     dl' = FeedEnd(IF dl.finished THEN Feed(dl, terminal) ELSE dl)

ClientLeaves ==
  /\ dl.phase = "open"
  /\ dl' = [dl EXCEPT !.phase = "left", !.bill.bill = BuildPartial(dl.bill, dl.client)]

DLNext == OpenAIContent \/ OpenAIEnd \/ AnthropicContent \/ AnthropicEnd \/ SourceEnds \/ ClientLeaves

-----------------------------------------------------------------------------
Positions(P(_)) == {j \in 1..Len(dl.out) : P(dl.out[j])}

\* The content of what was sent, each delta attributed by its index to the item
\* that was announced under that index.
Sent ==
  LET Owner(j) ==
        CASE dl.client = "anthropic" -> dl.out[CHOOSE m \in 1..(j - 1) : dl.out[m].e = "block_start" /\ dl.out[m].i = dl.out[j].i]
          [] dl.client = "responses" -> IF dl.out[j].kind # "tool" THEN dl.out[j]
                                        ELSE dl.out[CHOOSE m \in 1..(j - 1) : dl.out[m].e = "added" /\ dl.out[m].i = dl.out[j].i]
          [] dl.client = "openai" -> IF dl.out[j].k # "tool" THEN dl.out[j]
                                     ELSE dl.out[CHOOSE m \in 1..j : dl.out[m].k = "tool" /\ dl.out[m].tool = dl.out[j].tool]
      IsContent(e) == CASE dl.client = "anthropic" -> e.e = "block_delta"
                        [] dl.client = "responses" -> e.e = "delta"
                        [] dl.client = "openai" -> e.k \in {"text", "reason"} \/ (e.k = "tool" /\ e.args)
      KindOf(e) == IF dl.client = "openai" THEN CASE e.k = "reason" -> "thinking" [] OTHER -> e.k ELSE e.kind
      at == SetToSortSeq(Positions(IsContent), <) IN
  [j \in 1..Len(at) |-> <<KindOf(Owner(at[j])), IF KindOf(Owner(at[j])) = "tool" THEN Owner(at[j]).id ELSE NoIndex>>]

Starts == Positions(LAMBDA e : e.e = "block_start")
Stops == Positions(LAMBDA e : e.e = "block_stop")
AnthropicOrder ==
  /\ \A j \in 1..Len(dl.out) : LET e == dl.out[j] IN
       /\ e.e = "message_start" <=> j = 1 /\ e.e # "error"
       /\ e.e = "block_start" => e.i = Cardinality({m \in Starts : m < j})
       /\ e.e = "block_delta" => \E m \in Starts : m < j /\ dl.out[m].i = e.i /\ dl.out[m].kind = e.kind
       /\ e.e \in {"message_stop", "error"} => j = Len(dl.out)
  /\ dl.phase = "ended" =>
       /\ dl.out # << >> /\ Last(dl.out).e = "message_stop" /\ Starts # {}
       /\ \A m \in Starts : Cardinality({j \in Stops : dl.out[j].i = dl.out[m].i}) = 1
ResponsesOrder ==
  /\ \A j, m \in Positions(LAMBDA e : e.e \in {"delta", "added", "item_done"}) :
       dl.out[j].i = dl.out[m].i => dl.out[j].kind = dl.out[m].kind
  /\ \A j \in Positions(LAMBDA e : e.e = "delta" /\ e.kind = "tool") : \E m \in 1..(j - 1) : dl.out[m].e = "added" /\ dl.out[m].i = dl.out[j].i
  /\ dl.phase \in {"ended", "failed"} <=> dl.out # << >> /\ Last(dl.out).e = "done"
  /\ dl.phase = "ended" =>
       LET items == {dl.out[j].i : j \in Positions(LAMBDA e : e.e \in {"delta", "added"})} IN
       /\ items = 0..(Cardinality(items) - 1)
       /\ \A i \in items : {dl.out[j].parts : j \in Positions(LAMBDA e : e.e = "item_done" /\ e.i = i)}
                            = {Cardinality(Positions(LAMBDA e : e.e = "delta" /\ e.i = i))}
       /\ dl.out[Len(dl.out) - 1].e = "completed" /\ dl.out[Len(dl.out) - 1].i = Cardinality(items)
OpenAIOrder ==
  dl.upstream = "anthropic" =>
    /\ \A j \in 1..Len(dl.out) : dl.out[j].k = "role" <=> j = 1 /\ dl.out[j].k # "error"
    /\ dl.phase = "ended" => Last(dl.out).k = "done" /\ Cardinality(Positions(LAMBDA e : e.k = "finish")) = 1

\* Whatever the two shapes are, the client gets a stream its protocol allows, and
\* in it every piece of content once, in order, under the item it belongs to.
DialectFaithful ==
  /\ dl.client = "anthropic" /\ dl.upstream = "openai" => AnthropicOrder
  /\ dl.client = "responses" => ResponsesOrder
  /\ dl.client = "openai" => OpenAIOrder
  /\ Sent = dl.said

\* The bill of a stream that was completed is the last usage the upstream reported.
UsageBilled ==
  dl.phase = "ended" /\ dl.finished /\ Absent \notin {dl.usage.p, dl.usage.c}
    => dl.bill.bill = [kind |-> "real", u |-> dl.usage]

\* request_handler.py: a genuinely truncated response is never masked as a
\* complete one.
TruncationNeverMasked ==
  dl.phase = "ended" /\ ~dl.finished /\ dl.said # << >> =>
    dl.out = << >> \/ (IF dl.client = "openai" THEN Last(dl.out).k # "done" ELSE Last(dl.out).e \notin {"message_stop", "done"})

\* README.md: when the provider sent no usage the tokens are estimated.  This does
\* not hold for clients of the Messages and Responses dialects.
AnsweredIsBilled ==
  dl.said # << >> /\ (dl.phase = "left" \/ (dl.phase = "ended" /\ dl.finished)) => dl.bill.bill.kind \in {"real", "estimated"}
=============================================================================
