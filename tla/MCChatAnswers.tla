---------------------------- MODULE MCChatAnswers ----------------------------
(***************************************************************************)
(* How the answer of a chat request comes about: the calls its chain makes  *)
(* (MCChatDispatch) and what happens to the stream that one of them returns *)
(* (MCStreams).  Each behaviour steps the part named by focus.              *)
(***************************************************************************)
EXTENDS MCChatDispatch, MCStreams

AnswersInit == Init /\ MCInit
AnswersNext ==
  /\ \/ focus = "dispatch" /\ Next /\ UNCHANGED <<us, fl, dl>>
     \/ MCNext /\ UNCHANGED dispatchVars
  /\ UNCHANGED focus
AnswersSpec == AnswersInit /\ [][AnswersNext]_<<dispatchVars, us, fl, dl, focus>>

\* However a streamed answer was cut into deltas, its client is shown a reading of
\* its whole text, once and in order; which of two prefixes counts as a fence, and
\* whether a marker is rescued, may depend on the cut. It is rewritten into calls
\* only where the text has them.
ShownExactly == focus = "filters" => FiltersExact /\ RescueSound

\* The client gets a stream its protocol allows with all the upstream said, is
\* told of a complete answer only by an upstream that finished it, and is billed
\* for the usage the upstream reported last; an attempt fails over only while its
\* client has seen nothing.
AnswerFaithful == /\ focus = "dialects" => DialectFaithful /\ UsageBilled
                  /\ focus = "upstream" => TruncationShown
==============================================================================
