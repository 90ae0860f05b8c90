--------------------------- MODULE StreamFilters ---------------------------
(***************************************************************************)
(* The filters a chat stream runs through before its dialect is converted  *)
(* (api/v1/chat_streaming.py): the guard that holds a possible             *)
(* upstream-error text, the removal of <think> blocks, the removal of a    *)
(* JSON answer's fences, and the rescue of tool calls written as text.     *)
(* Each works on deltas that may cut a tag anywhere, with a small buffer   *)
(* of its own.  A text is a sequence of letters; the tags are short        *)
(* sequences with the prefixes and overlaps of the real ones.              *)
(***************************************************************************)
EXTENDS Naturals, Sequences, SequencesExt, FiniteSets, FiniteSetsExt

CONSTANTS OpenTag, CloseTag,           \* <think> and </think>
          JsonPrefixes,                \* JSON_STREAM_OPENING_PREFIXES, in order
          Fence, Newline,              \* ``` and the line break before it
          SuffixSize,                  \* JSON_STREAM_SUFFIX_BUFFER_SIZE
          Marker, HoldMax,             \* a DIALECT_TAG_MARKER; TOOL_CALL_RESCUE_HOLD_MAX_CHARS
          ErrorPrefix,                 \* UPSTREAM_PROVIDER_ERROR_PREFIX
          FilterSetups,                \* sequences of stages
          FilterLetters,               \* for each of them, the letters of its texts
          MaxLetters, MaxDelta

VARIABLE fl

At(w, tag, j) == j + Len(tag) - 1 <= Len(w) /\ SubSeq(w, j, j + Len(tag) - 1) = tag
FindTag(w, tag, from) == LET at == {j \in from..Len(w) : At(w, tag, j)} IN IF at = {} THEN 0 ELSE Min(at)
Proper(s, t) == s # t /\ IsPrefix(s, t)
\* A piece of output: letters with what carried them.
Letters(w) == [j \in 1..Len(w) |-> [c |-> w[j], as |-> "text"]]

-----------------------------------------------------------------------------
(* _strip_stream_think_blocks and _flush_stream_think_buffer.              *)

ThinkState == [inside |-> FALSE, buf |-> << >>]
MaxPartial == Max({Len(OpenTag), Len(CloseTag)}) - 1

\* The letters of w after the first c, which are dealt with, when keep letters are
\* kept back for a tag that may follow.
Strip(w, start, keep) ==
  LET From[c \in 0..Len(w), inside \in BOOLEAN] ==
        LET tag == IF inside THEN CloseTag ELSE OpenTag
            at == FindTag(w, tag, c + 1)
            safe == Max({c, Len(w) - keep})
            Kept(k) == IF inside THEN << >> ELSE SubSeq(w, c + 1, k) IN
        IF c = Len(w) THEN [out |-> << >>, st |-> [inside |-> inside, buf |-> << >>]]
        ELSE IF at = 0 THEN [out |-> Kept(safe), st |-> [inside |-> inside, buf |-> SubSeq(w, safe + 1, Len(w))]]
        ELSE [From[at - 1 + Len(tag), ~inside] EXCEPT !.out = Kept(at - 1) \o @]
  IN From[0, start]

\* mutant: too few letters are kept back
StripKeepsNothing(content, st) ==
  IF content = << >> THEN [out |-> << >>, st |-> st] ELSE Strip(st.buf \o content, st.inside, Len(OpenTag) - 2)

StripStreamThinkBlocks(content, st) ==
  IF content = << >> THEN [out |-> << >>, st |-> st] ELSE Strip(st.buf \o content, st.inside, MaxPartial)

FlushStreamThinkBuffer(st) == IF st.inside \/ IsPrefix(st.buf, OpenTag) THEN << >> ELSE st.buf

-----------------------------------------------------------------------------
(* The JSON fences.                                                        *)

JsonState == [resolved |-> FALSE, prefix |-> << >>, strip |-> FALSE, suffix |-> << >>, think |-> ThinkState]

SplitSuffix(w, cut, st) == [out |-> SubSeq(w, 1, cut), st |-> [st EXCEPT !.suffix = SubSeq(w, cut + 1, Len(w))]]
BufferSuffix(w, st) == SplitSuffix(w, Max({0, Len(w) - SuffixSize}), st)

ClosingFence(w) == IF w = << >> \/ Last(w) # Fence THEN 0 ELSE IF Len(w) > 1 /\ w[Len(w) - 1] = Newline THEN 2 ELSE 1
FlushSuffix(st) == IF st.strip THEN SubSeq(st.suffix, 1, Len(st.suffix) - ClosingFence(st.suffix)) ELSE st.suffix

\* The prefix p was seen at the start of w.
OpenFence(p, w, st) ==
  IF p[1] = Fence THEN BufferSuffix(SubSeq(w, Len(p) + 1, Len(w)), [st EXCEPT !.resolved = TRUE, !.prefix = << >>, !.strip = TRUE])
  ELSE [out |-> SubSeq(w, Len(p) + 1, Len(w)), st |-> [st EXCEPT !.resolved = TRUE, !.prefix = << >>, !.strip = FALSE]]
ResolvePrefix(w, st) ==
  LET hits == {k \in 1..Len(JsonPrefixes) : IsPrefix(JsonPrefixes[k], w)} IN
  IF hits # {} THEN OpenFence(JsonPrefixes[Min(hits)], w, st)
  ELSE IF \E k \in 1..Len(JsonPrefixes) : IsPrefix(w, JsonPrefixes[k]) THEN [out |-> << >>, st |-> [st EXCEPT !.prefix = w]]
  ELSE [out |-> w, st |-> [st EXCEPT !.resolved = TRUE, !.prefix = << >>]]
SanitizeFragment(content, st) ==
  IF content = << >> THEN [out |-> << >>, st |-> st]
  ELSE IF ~st.resolved THEN ResolvePrefix(st.prefix \o content, st)
  ELSE IF st.strip THEN BufferSuffix(st.suffix \o content, st) ELSE [out |-> content, st |-> st]

AfterThink(t, st) == SanitizeFragment(t.out, [st EXCEPT !.think = t.st])
JsonDelta(content, st) == AfterThink(StripStreamThinkBlocks(content, st.think), st)

AndSuffix(t) == [out |-> t.out \o FlushSuffix(t.st), st |-> [t.st EXCEPT !.suffix = << >>]]
FlushChoice(st) == AndSuffix(AfterThink([out |-> FlushStreamThinkBuffer(st.think), st |-> ThinkState], st))

-----------------------------------------------------------------------------
(* The rescue of tool calls.  The letters of a parsed call are absorbed.   *)

RescueState == [mode |-> "holding", raw |-> << >>, detect |-> << >>, think |-> ThinkState, calls |-> FALSE]

Transparent(st) == [out |-> st.raw, st |-> [st EXCEPT !.mode = "transparent", !.raw = << >>]]
\* rescue_inline_tool_calls: a success needs a whole marker; whether the rest can
\* be parsed is up to the provider's text.
RescueInlineToolCalls(raw, parsed) == parsed /\ FindTag([j \in 1..Len(raw) |-> raw[j].c], Marker, 1) > 0

\* mutant: a marker without a call behind it is announced as a call
FinalizeClaims(st, parsed) == [Transparent(st) EXCEPT !.st.calls = st.mode = "dialect"]

FinalizeChoice(st, parsed) ==
  IF st.mode = "dialect" /\ RescueInlineToolCalls(st.raw, parsed)
  THEN [out |-> [j \in 1..Len(st.raw) |-> [st.raw[j] EXCEPT !.as = "call"]],
        st |-> [st EXCEPT !.mode = "transparent", !.raw = << >>, !.calls = TRUE]]
  ELSE Transparent(st)

JudgeHeld(st) ==
  IF FindTag(st.detect, Marker, 1) > 0 THEN [out |-> << >>, st |-> [st EXCEPT !.mode = "dialect"]]
  ELSE IF Len(st.detect) >= HoldMax \/ ~IsPrefix(st.detect, Marker) THEN Transparent(st)
  ELSE [out |-> << >>, st |-> st]
HoldStripped(t, w, st) == JudgeHeld([st EXCEPT !.raw = @ \o w, !.think = t.st, !.detect = @ \o t.out])
Hold(w, st) == HoldStripped(StripStreamThinkBlocks([j \in 1..Len(w) |-> w[j].c], st.think), w, st)

RescueDelta(w, st) ==
  CASE st.mode = "transparent" -> [out |-> w, st |-> st]
    [] st.mode = "dialect" -> [out |-> << >>, st |-> [st EXCEPT !.raw = @ \o w]]
    [] st.mode = "holding" -> Hold(w, st)

-----------------------------------------------------------------------------
(* The stages of a stream.  k: "text", "other" (a delta without a text),   *)
(* "finish" (which may bring a last text, passed on as it is), "done" or   *)
(* "end".  A stage turns one into the letters it writes.                   *)

StageInit(name) == CASE name \in {"think", "athink"} -> ThinkState [] name = "json" -> JsonState
                     [] name = "rescue" -> RescueState [] name = "guard" -> [held |-> << >>, open |-> FALSE]
Plain(w) == [j \in 1..Len(w) |-> w[j].c]

AsLetters(r) == [out |-> Letters(r.out), st |-> r.st]

ThinkStage(st, k, w) ==
  CASE k = "text" -> AsLetters(StripStreamThinkBlocks(Plain(w), st))
    [] k \in {"finish", "done"} -> [out |-> Letters(FlushStreamThinkBuffer(st)), st |-> ThinkState]
    [] OTHER -> [out |-> << >>, st |-> st]                    \* also at the end: nothing is flushed
\* A native Anthropic stream: flushed at the end of the block, and only there.
AnthropicThinkStage(st, k, w) == IF k = "done" THEN [out |-> << >>, st |-> st] ELSE ThinkStage(st, k, w)
JsonStage(st, k, w) ==
  CASE k = "text" -> AsLetters(JsonDelta(Plain(w), st))
    [] k \in {"finish", "done", "end"} -> AsLetters(FlushChoice(st))
    [] OTHER -> [out |-> << >>, st |-> st]
RescueStage(st, k, w, parsed) ==
  IF k = "text" THEN IF w = << >> THEN [out |-> << >>, st |-> st] ELSE RescueDelta(w, st)
  ELSE FinalizeChoice(st, parsed)
GuardStage(st, k, w) ==
  LET text == Plain(st.held \o w)
      shown == [out |-> st.held \o w, st |-> [held |-> << >>, open |-> TRUE]] IN
  IF st.open THEN [out |-> w, st |-> st]
  ELSE IF k \in {"other", "end"} \/ ~(IsPrefix(text, ErrorPrefix) \/ IsPrefix(ErrorPrefix, text)) THEN shown
  ELSE [out |-> << >>, st |-> [st EXCEPT !.held = @ \o w]]

Stage(name, st, k, w, parsed) ==
  CASE name = "think" -> ThinkStage(st, k, w) [] name = "athink" -> AnthropicThinkStage(st, k, w) [] name = "json" -> JsonStage(st, k, w)
    [] name = "rescue" -> RescueStage(st, k, w, parsed) [] name = "guard" -> GuardStage(st, k, w)

\* An event through all the stages.  Each gets what the one before it wrote, as a
\* text of its own, and then the event, unless that is the text itself.
Wrote(acc, i, r) == [acc EXCEPT !.out = @ \o r.out, !.sts[i] = r.st]
FeedStage(acc, step, parsed) ==
  Wrote(acc, step.i, Stage(acc.stages[step.i], acc.sts[step.i], step.k, IF step.k = "text" THEN acc.in ELSE << >>, parsed))
PassOn(acc, step, parsed) ==
  CASE step.k = "next" -> [acc EXCEPT !.in = acc.out, !.out = << >>]
    [] step.k = "text" /\ step.event # "text" /\ acc.in = << >> -> acc
    [] OTHER -> FeedStage(acc, step, parsed)
StepsOf(k, n) ==
  FlattenSeq([i \in 1..n |-> [j \in 1..(IF k = "text" THEN 2 ELSE 3) |-> [i |-> i, k |-> <<"next", "text", k>>[j], event |-> k]]])
Deliver(f, acc) == [f EXCEPT !.sts = acc.sts, !.out = @ \o acc.out]
Through(f, k, w, parsed) ==
  Deliver(f, FoldLeft(LAMBDA acc, step : PassOn(acc, step, parsed),
                      [stages |-> f.stages, sts |-> f.sts, in |-> << >>, out |-> w], StepsOf(k, Len(f.stages))))

-----------------------------------------------------------------------------
FLInit ==
  \E setup \in FilterSetups :
    fl = [stages |-> setup, sts |-> [i \in 1..Len(setup) |-> StageInit(setup[i])],
          out |-> << >>, text |-> << >>, last |-> << >>, phase |-> "open", reason |-> "none", flushed |-> FALSE, failed |-> FALSE]

FeedText ==
  /\ fl.phase = "open"
  /\ \E m \in 1..MaxDelta : \E w \in [1..m -> FilterLetters[fl.stages]] :
       /\ Len(fl.text) + m <= MaxLetters
       /\ fl' = [Through(fl, "text", Letters(w), FALSE) EXCEPT !.text = @ \o w]
FeedOther ==
  /\ fl.phase = "open" /\ fl.text # << >>
  /\ \E parsed \in BOOLEAN : fl' = Through(fl, "other", << >>, parsed)

RescuedCalls(f) == \E i \in 1..Len(f.stages) : f.stages[i] = "rescue" /\ f.sts[i].calls
\* The finish reason, perhaps with a last letter of text, which no stage touches.
Finished(f, last) ==
  [f EXCEPT !.phase = "finished", !.flushed = TRUE, !.last = last, !.out = @ \o Letters(last),
            !.reason = IF RescuedCalls(f) /\ ~RescuedCalls(fl) THEN "tool_calls" ELSE "stop"]
FeedFinish ==
  /\ fl.phase = "open"
  /\ \E parsed \in BOOLEAN, last \in {<< >>} \cup {<<c>> : c \in FilterLetters[fl.stages]} :
       /\ fl.stages[1] = "guard" => last = << >>           \* to the guard it is a text like any other
       /\ fl' = Finished(Through(fl, "finish", << >>, parsed), last)
FeedDone ==
  /\ fl.phase \in {"open", "finished"}
  /\ \E parsed \in BOOLEAN : fl' = [Through(fl, "done", << >>, parsed) EXCEPT !.phase = "done", !.flushed = @ \/ fl.stages # <<"athink">>]
\* The end.  What the guard still holds is either the error or the answer.
TextEnds ==
  /\ fl.phase # "ended"
  /\ \E parsed, error \in BOOLEAN :
       IF fl.stages[1] = "guard" /\ ~fl.sts[1].open /\ IsPrefix(ErrorPrefix, Plain(fl.sts[1].held)) /\ error
       THEN fl' = [fl EXCEPT !.phase = "ended", !.failed = TRUE]
       ELSE fl' = [Through(fl, "end", << >>, parsed) EXCEPT !.phase = "ended"]

FLNext == FeedText \/ FeedOther \/ FeedFinish \/ FeedDone \/ TextEnds

-----------------------------------------------------------------------------
(* The reference: what is to be shown of a whole text.                     *)

\* Without its think blocks.  A rest that is but the start of a tag is not shown.
Visible(text) ==
  LET n == Len(text)
      From[j \in 1..(n + 1), fresh \in BOOLEAN] ==        \* fresh: nothing was shown since the last tag
        LET close == FindTag(text, CloseTag, j + Len(OpenTag)) IN
        IF j > n \/ (fresh /\ Proper(SubSeq(text, j, n), OpenTag)) THEN << >>
        ELSE IF ~At(text, OpenTag, j) THEN << text[j] >> \o From[j + 1, FALSE]
        ELSE IF close = 0 THEN << >> ELSE From[close + Len(CloseTag), TRUE]
  IN From[1, TRUE]

\* Without its fences: the prefix that is seen first goes, a longer one may be seen too late.
Unfenced(v) ==
  LET hits == {p \in Range(JsonPrefixes) : IsPrefix(p, v)}
      Body(p) == SubSeq(v, Len(p) + 1, Len(v))
      Closed(p) == IF p[1] = Fence THEN SubSeq(Body(p), 1, Len(Body(p)) - ClosingFence(Body(p))) ELSE Body(p) IN
  IF hits # {} THEN {Closed(p) : p \in hits}
  ELSE IF \E p \in Range(JsonPrefixes) : Proper(v, p) THEN {<< >>} ELSE {v}

Strips(f) == {"think", "athink"} \cap Range(f.stages) # {}
Shown(f) == IF "json" \in Range(f.stages) THEN Unfenced(Visible(f.text))
            ELSE {IF Strips(f) THEN Visible(f.text) ELSE f.text}

\* However the text is cut into deltas, the client gets exactly what is to be
\* shown of it, once and in order, as text or absorbed into calls, and after it
\* the text of the finish.  A stream that ended without a finish may have kept
\* the letters that could have been a tag.
FiltersExact ==
  LET cut == Strips(fl) /\ ~fl.flushed IN
  fl.phase = "ended" /\ ~fl.failed =>
    \E w \in Shown(fl) :
      IF ~cut THEN Plain(fl.out) = w \o fl.last
      ELSE IsPrefix(Plain(fl.out), w) /\ Len(w) <= Len(fl.out) + MaxPartial

\* An attempt is given up for an error text only before anything was shown of it;
\* a finish reason is rewritten only to announce calls, and calls come from a
\* text with a whole marker.
RescueSound ==
  LET calls == {j \in 1..Len(fl.out) : fl.out[j].as = "call"} IN
  /\ fl.failed => fl.out = << >> /\ IsPrefix(ErrorPrefix, fl.text)
  /\ fl.reason = "tool_calls" => calls # {}
  /\ calls # {} => \E w \in Shown(fl) : FindTag(w, Marker, 1) > 0
=============================================================================
