-------------------------- MODULE ClientPageProofs --------------------------
(***************************************************************************)
(* Back at the form nothing of the session is left, for any number of      *)
(* edits, events, rows and polls.                                          *)
(***************************************************************************)
EXTENDS ClientPage, TLAPS

\* The page starts at the form with nothing under way.
LEMMA FormInit == Init => FormQuiet
BY DEF Init, FormQuiet

\* The user and the device: Connect leaves the form with a start(), leaving stops it.
LEMMA FormUser == FormQuiet /\ User => FormQuiet'
BY DEF FormQuiet, User, Submit, Leave, Rotate, Restore, Rebuild, Start

\* start() goes on only away from the form, and what fails either starts again where
\* it was or restores the form with nothing under way.
LEMMA FormSetup == FormQuiet /\ Setup => FormQuiet'
<1> SUFFICES ASSUME FormQuiet, Setup PROVE FormQuiet'
  OBVIOUS
<1> USE DEF FormQuiet, Restore, Again, Start, FallBackToVideo, RetryWithLegacy, HostFailed
<1>1. CASE Post
  BY <1>1 DEF Post, polling
<1>2. CASE NoTransform
  BY <1>2 DEF NoTransform
<1>3. CASE PostFails
  BY <1>3 DEF PostFails
<1>4. CASE Refused
  BY <1>4 DEF Refused
<1>5. CASE SetupFails
  BY <1>5 DEF SetupFails
<1>6. CASE Answered
  BY <1>6 DEF Answered, polling
<1>7. CASE BodyLost
  BY <1>7 DEF BodyLost
<1>8. CASE Described
  BY <1>8 DEF Described, polling
<1>9. CASE TrickleFails
  BY <1>9 DEF TrickleFails
<1>10. QED
  BY <1>1, <1>2, <1>3, <1>4, <1>5, <1>6, <1>7, <1>8, <1>9 DEF Setup

\* What the connection does concerns a page that is away from the form.
LEMMA FormLink == FormQuiet /\ Link => FormQuiet'
<1> SUFFICES ASSUME FormQuiet, Link PROVE FormQuiet'
  OBVIOUS
<1> USE DEF FormQuiet, Restore, Again, Start, FallBackToVideo, RetryWithLegacy, StreamLive
<1>1. CASE IceConnected
  BY <1>1 DEF IceConnected
<1>2. CASE Painted
  BY <1>2 DEF Painted
<1>3. CASE LinkLost \/ Deadline
  BY <1>3 DEF LinkLost, Deadline
<1>4. CASE DtlsFails
  BY <1>4 DEF DtlsFails
<1>5. CASE NoFrame \/ DecoderFails
  BY <1>5 DEF NoFrame, DecoderFails
<1>6. QED
  BY <1>1, <1>2, <1>3, <1>4, <1>5 DEF Link

\* A poll that returns at the form arms nothing, whether it was answered or lost: the
\* probe is only armed on a live page.
LEMMA FormPolls == FormQuiet /\ Polls => FormQuiet'
<1> SUFFICES ASSUME FormQuiet, Polls PROVE FormQuiet'
  OBVIOUS
<1> USE DEF FormQuiet, Restore, Rebuild, Start, Quietly, ArmProbe
<1>1. CASE ProbeTick
  BY <1>1 DEF ProbeTick
<1>2. ASSUME NEW i \in 1..MaxPolls, HostReplies(i) \/ PollIgnored(i)
      PROVE  FormQuiet'
  BY <1>2 DEF HostReplies, PollIgnored
<1>3. ASSUME NEW i \in 1..MaxPolls, BaselineArrives(i) \/ NothingArrives(i) \/ PollLost(i)
      PROVE  FormQuiet'
  BY <1>3 DEF BaselineArrives, NothingArrives, PollLost
<1>4. ASSUME NEW i \in 1..MaxPolls, KickArrives(i) \/ EditArrives(i)
      PROVE  FormQuiet'
  BY <1>4 DEF KickArrives, EditArrives
<1>5. QED
  BY <1>1, <1>2, <1>3, <1>4 DEF Polls

\* The host reaches the page through a bye alone.
LEMMA FormHost == FormQuiet /\ Host => FormQuiet'
BY DEF FormQuiet, Host, HostTakes, Edit, Kick, Bye, ByeLost, RowGone, Restore, polling

\* Back at the form no start(), no connection and no timer of the session is left,
\* whatever was under way when it ended (index.html:1769-1775).
THEOREM FormIsQuiet == Spec => []FormQuiet
<1>1. FormQuiet /\ [Next]_vars => FormQuiet'
  <2> SUFFICES ASSUME FormQuiet, [Next]_vars PROVE FormQuiet'
    OBVIOUS
  <2>1. CASE UNCHANGED vars
    BY <2>1 DEF FormQuiet, vars, polling
  <2>2. QED
    BY <2>1, FormUser, FormSetup, FormLink, FormPolls, FormHost DEF Next
<1>2. QED
  BY FormInit, <1>1, PTL DEF Spec

=============================================================================
