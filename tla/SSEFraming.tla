----------------------------- MODULE SSEFraming -----------------------------
(***************************************************************************)
(* SSEFramer (services/stream_observation.py): server-sent events cut out  *)
(* of a byte stream that arrives in arbitrary chunks.  A byte is a line    *)
(* break character or a token: "d" the start or part of a data line, "D"   *)
(* the data line [DONE], "c" a comment.  Positions count from 1.           *)
(***************************************************************************)
EXTENDS Naturals, Sequences, FiniteSets, FiniteSetsExt, SequencesExt

CONSTANTS MaxEventBytes, MaxFed, MaxChunk

CR == "cr"
LF == "lf"
Bytes == {CR, LF, "d", "D", "c"}

VARIABLES sfFed,        \* history: all bytes fed so far
          sfBuffer, sfLineStart, sfSearchStart,
          sfState,      \* "open", "failed", "terminal" or "finished"
          sfEvents      \* events returned so far

sfvars == <<sfFed, sfBuffer, sfLineStart, sfSearchStart, sfState, sfEvents>>

SFInit == /\ sfFed = << >> /\ sfBuffer = << >> /\ sfLineStart = 1 /\ sfSearchStart = 1
          /\ sfState = "open" /\ sfEvents = << >>

Lines(frame) ==
  LET ends == {i \in 1..Len(frame) : frame[i] = LF} \cup {0, Len(frame) + 1}
      NextEnd(i) == Min({j \in ends : j > i}) IN
  {[at |-> i, text |-> SelectSeq(SubSeq(frame, i + 1, NextEnd(i) - 1), LAMBDA b : b # CR)] :
     i \in ends \ {Len(frame) + 1}}

\* _parse_event: the data lines in order; none means no event.
ParseEvent(frame) ==
  LET data == {l \in Lines(frame) : l.text # << >> /\ l.text[1] \in {"d", "D"}} IN
  [i \in 1..Cardinality(data) |->
     (CHOOSE l \in data : Cardinality({m \in data : m.at <= l.at}) = i).text]
Done(event) == event = << <<"D">> >>

FindFrom(s, b, from) == LET at == {i \in from..Len(s) : s[i] = b} IN
                        IF at = {} THEN 0 ELSE Min(at)
BareCR(s, from) == \E i \in from..(Len(s) - 1) : s[i] = CR /\ s[i + 1] # LF

\* mutant: the resumed search does not look back at the last byte
NoLookBack(s, ls, ss) ==
  LET nl == FindFrom(s, LF, ss)
      ce == IF nl > ls /\ s[nl - 1] = CR THEN nl - 1 ELSE nl IN
  IF nl = 0 THEN [kind |-> IF BareCR(s, ss) THEN "bad" ELSE "none",
                  ls |-> ls, ss |-> Len(s) + 1, next |-> 0]
  ELSE IF \E i \in ls..(ce - 1) : s[i] = CR THEN [kind |-> "bad", ls |-> ls, ss |-> ss, next |-> 0]
  ELSE [kind |-> IF ce = ls THEN "found" ELSE "line", ls |-> ls, ss |-> ss, next |-> nl + 1]

\* One turn of _find_event_boundary: the next line break decides.
NextBreak(s, ls, ss) ==
  LET nl == FindFrom(s, LF, ss)
      ce == IF nl > ls /\ s[nl - 1] = CR THEN nl - 1 ELSE nl IN
  IF nl = 0 THEN [kind |-> IF BareCR(s, Max({ss - 1, ls})) THEN "bad" ELSE "none",
                  ls |-> ls, ss |-> Max({Len(s), ls}), next |-> 0]
  ELSE IF \E i \in ls..(ce - 1) : s[i] = CR THEN [kind |-> "bad", ls |-> ls, ss |-> ss, next |-> 0]
  ELSE [kind |-> IF ce = ls THEN "found" ELSE "line", ls |-> ls, ss |-> ss, next |-> nl + 1]

\* _extract_complete_events from position start on.
RECURSIVE Extract(_, _, _, _, _)
Extract(s, start, ls, ss, events) ==
  LET b == NextBreak(s, ls, ss)
      frame == SubSeq(s, start, b.ls - 1)
      event == ParseEvent(frame)
      Result(state) == [events |-> events, state |-> state, start |-> start, ls |-> b.ls, ss |-> b.ss] IN
  CASE b.kind = "bad"  -> Result("failed")
    [] b.kind = "none" -> Result(IF Len(s) - start + 1 > MaxEventBytes THEN "failed" ELSE "open")
    [] b.kind = "line" -> Extract(s, start, b.next, b.next, events)
    [] b.kind = "found" /\ Len(frame) > MaxEventBytes -> Result("failed")
    [] b.kind = "found" /\ Len(frame) <= MaxEventBytes /\ Done(event) ->
         [events |-> Append(events, event), state |-> "terminal", start |-> Len(s) + 1,
          ls |-> b.next, ss |-> b.next]
    [] OTHER -> Extract(s, b.next, b.next, b.next,
                        IF event = << >> THEN events ELSE Append(events, event))

\* feed; a failed framer keeps nothing the caller may use.
FeedChunk(data) ==
  /\ Len(sfFed) + Len(data) <= MaxFed
  /\ \/ /\ sfState = "open"
        /\ LET s == sfBuffer \o data
               r == Extract(s, 1, sfLineStart, sfSearchStart, << >>)
               Kept(p) == Max({p - (r.start - 1), 1}) IN
           /\ sfState' = r.state
           /\ IF r.state = "failed"
              THEN sfBuffer' = << >> /\ sfLineStart' = 1 /\ sfSearchStart' = 1 /\ UNCHANGED sfEvents
              ELSE /\ sfBuffer' = SubSeq(s, r.start, Len(s)) /\ sfEvents' = sfEvents \o r.events
                   /\ sfLineStart' = Kept(r.ls) /\ sfSearchStart' = Kept(r.ss)
        /\ sfFed' = sfFed \o data
     \/ sfState = "terminal" /\ UNCHANGED sfvars

\* finish: the rest is one more event, without its blank line.
Finish ==
  /\ sfState = "open"
  /\ LET bad == \/ BareCR(sfBuffer, 1) \/ (sfBuffer # << >> /\ Last(sfBuffer) = CR)
                \/ Len(sfBuffer) > MaxEventBytes
         event == ParseEvent(sfBuffer) IN
     /\ sfState' = IF bad THEN "failed" ELSE "finished"
     /\ sfEvents' = IF bad \/ event = << >> THEN sfEvents ELSE Append(sfEvents, event)
  /\ sfBuffer' = << >>
  /\ UNCHANGED <<sfFed, sfLineStart, sfSearchStart>>

SFNext == \/ \E n \in 1..MaxChunk : \E data \in [1..n -> Bytes] : FeedChunk(data)
          \/ Finish

-----------------------------------------------------------------------------
(* The reference: one byte at a time, by what the format says.             *)
ReferenceStep(st, b) ==
  IF st.bad \/ st.done THEN st
  ELSE IF b # LF /\ st.cr THEN [st EXCEPT !.bad = TRUE]
  ELSE IF b = CR THEN [st EXCEPT !.cr = TRUE]
  ELSE IF b # LF THEN [st EXCEPT !.line = Append(@, b)]
  ELSE IF st.line # << >>
       THEN [st EXCEPT !.frame = @ \o st.line \o (IF st.cr THEN <<CR>> ELSE << >>) \o <<LF>>,
                       !.line = << >>, !.cr = FALSE]
  ELSE LET e == ParseEvent(st.frame) IN
       [st EXCEPT !.frame = << >>, !.cr = FALSE, !.bad = Len(st.frame) > MaxEventBytes,
                  !.events = IF e = << >> \/ Len(st.frame) > MaxEventBytes THEN @ ELSE Append(@, e),
                  !.done = Done(e)]
Reference == FoldLeft(ReferenceStep, [events |-> << >>, frame |-> << >>, line |-> << >>,
                                      cr |-> FALSE, bad |-> FALSE, done |-> FALSE], sfFed)

\* However the bytes were cut into chunks, the framer has returned exactly the
\* events the whole stream contains so far and keeps exactly the unfinished
\* rest; it fails only on a malformed stream or on one whose unfinished event,
\* its line breaks included, is larger than the limit or ends in half a break.
ChunkingInvisible ==
  LET r == Reference
      rest == r.frame \o r.line \o (IF r.cr THEN <<CR>> ELSE << >>) IN
  /\ sfState = "open" => ~r.bad /\ ~r.done /\ sfEvents = r.events /\ sfBuffer = rest
  /\ sfState = "terminal" => r.done /\ ~r.bad /\ sfEvents = r.events
  /\ sfState = "finished" => LET e == ParseEvent(rest) IN
                               sfEvents = IF e = << >> THEN r.events ELSE Append(r.events, e)
  /\ sfState = "failed" => r.bad \/ Len(rest) > MaxEventBytes \/ r.cr
=============================================================================
