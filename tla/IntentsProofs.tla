--------------------------- MODULE IntentsProofs ---------------------------
(***************************************************************************)
(* Proofs about Intents, for any number of callers, requests and           *)
(* principals.  The two properties are not inductive alone: what a call    *)
(* may publish depends on what it has done, and what a replay may publish  *)
(* depends on what the marker stands for.  IInv says both.                 *)
(***************************************************************************)
EXTENDS Intents, TLAPS

Control == {"idle", "entry", "authorize", "handle", "evaluate", "mark",
            "announce", "accept", "republish", "wake", "returned"}

(* The types of the variables; a call in progress has its request.         *)
CallTyped ==
  /\ call \in [Caller -> [pc : Control, req : Request \cup {None}, ok : BOOLEAN]]
  /\ \A c \in Caller : call[c].pc # "idle" => call[c].req \in Request

Typed ==
  /\ class \in [Request -> Classes]
  /\ CallTyped
  /\ marker \in Request \cup {None}
  /\ applied \subseteq Request
  /\ woken \subseteq Request

Accepted(r) == <<"accepted", r>> \in published

(* A handler has applied r or a request that r replays.                    *)
Served(r) == \E q \in applied : Replays(q, r)

(* The marker's record is of an applied request, and of an evaluation only *)
(* behind its published result.                                            *)
MarkerStands ==
  marker # None => /\ marker \in applied
                   /\ class[marker] = "evaluated" => Accepted(marker)

(* What a call has done when it is past its handler.                       *)
CallStands(c) ==
  /\ call[c].pc \in {"evaluate", "mark", "announce", "accept", "wake"} => call[c].req \in applied
  /\ call[c].pc = "republish" => Served(call[c].req)
  /\ call[c].pc = "mark" /\ class[call[c].req] = "evaluated" => Accepted(call[c].req)
  /\ call[c].pc = "announce" => class[call[c].req] = "plain"
  /\ call[c].pc = "wake" => Accepted(call[c].req)

(* SuccessIsPublished, of one call.                                        *)
SuccessStands(c) ==
  At(c, "returned") /\ call[c].ok /\ Path[c] = "mcp" =>
    /\ class[Req(c)] \in {"strict", "virtual", "admitted"} => Accepted(Req(c))
    /\ class[Req(c)] = "evaluated" =>
         \/ \E r \in Request : class[r] = "evaluated" /\ Accepted(r)
         \/ marker # None /\ class[marker] # "evaluated"

IInv ==
  /\ Typed
  /\ MarkerStands
  /\ \A c \in Caller : CallStands(c)
  /\ AcceptedIsApplied
  /\ SuccessIsPublished

-----------------------------------------------------------------------------
(* A fresh process satisfies the invariant.                                *)
LEMMA InitIInv == Init => IInv
BY NoneAssumption
DEF Init, IInv, Typed, CallTyped, Control, Idle, MarkerStands, CallStands, Served, Replays, AcceptedIsApplied, SuccessIsPublished, At

(* Moving a call on, or ending it, keeps its type.                         *)
LEMMA GotoTyped ==
  ASSUME NEW c \in Caller, CallTyped, call[c].pc # "idle",
         NEW pc \in Control, Goto(c, pc)
  PROVE  CallTyped'
BY DEF CallTyped, Goto, Req

LEMMA ReturnTyped ==
  ASSUME NEW c \in Caller, CallTyped, call[c].pc # "idle",
         NEW ok \in BOOLEAN, Return(c, ok)
  PROVE  CallTyped'
BY DEF CallTyped, Control, Return, Req

(* A step of one call keeps the types.                                     *)
LEMMA StepTyped ==
  ASSUME NEW c \in Caller, Typed, Step(c)
  PROVE  Typed'
PROOF
<1>0. CallTyped
  BY DEF Typed
<1>1. ASSUME NEW r \in Request, Submit(c, r) PROVE Typed'
  <2>1. CallTyped'
    BY <1>0, <1>1 DEF Submit, CallTyped, Control
  <2> QED
    BY <1>1, <2>1 DEF Submit, Typed
<1>2. CASE Drop(c)
  <2>1. call[c].pc # "idle" /\ call[c].req \in Request
    BY <1>0, <1>2 DEF Drop, At, CallTyped
  <2>2. \E ok \in BOOLEAN : Return(c, ok)
    BY <1>2 DEF Drop, Refuse
  <2>3. CallTyped'
    BY <1>0, <2>1, <2>2, ReturnTyped
  <2> QED
    BY <1>2, <2>1, <2>3 DEF Drop, Typed, Req
<1>3. CASE RejectMalformed(c)
  <2>1. call[c].pc # "idle" /\ call[c].req \in Request
    BY <1>0, <1>3 DEF RejectMalformed, At, CallTyped
  <2>2. \E ok \in BOOLEAN : Return(c, ok)
    BY <1>3 DEF RejectMalformed
  <2>3. CallTyped'
    BY <1>0, <2>1, <2>2, ReturnTyped
  <2> QED
    BY <1>3, <2>1, <2>3 DEF RejectMalformed, Typed, Req
<1>4. CASE Fresh(c)
  <2>1. call[c].pc # "idle" /\ call[c].req \in Request
    BY <1>0, <1>4 DEF Fresh, At, CallTyped
  <2>2. Goto(c, "authorize")
    BY <1>4 DEF Fresh, Goto
  <2>3. CallTyped'
    BY <1>0, <2>1, <2>2, GotoTyped DEF Control
  <2> QED
    BY <1>4, <2>1, <2>3 DEF Fresh, Typed, Req
<1>5. CASE ReplayConflicts(c)
  <2>1. call[c].pc # "idle" /\ call[c].req \in Request
    BY <1>0, <1>5 DEF ReplayConflicts, Replayed, At, CallTyped
  <2>2. \E ok \in BOOLEAN : Return(c, ok)
    BY <1>5 DEF ReplayConflicts, Replayed
  <2>3. CallTyped'
    BY <1>0, <2>1, <2>2, ReturnTyped
  <2> QED
    BY <1>5, <2>1, <2>3 DEF ReplayConflicts, Replayed, Typed, Req
<1>6. CASE ReplayAccepted(c)
  <2>1. call[c].pc # "idle" /\ call[c].req \in Request
    BY <1>0, <1>6 DEF ReplayAccepted, Replayed, At, CallTyped
  <2>2. Goto(c, "republish")
    BY <1>6 DEF ReplayAccepted, Replayed, Goto
  <2>3. CallTyped'
    BY <1>0, <2>1, <2>2, GotoTyped DEF Control
  <2> QED
    BY <1>6, <2>1, <2>3 DEF ReplayAccepted, Replayed, Typed, Req
<1>7. CASE ReplaySkipped(c)
  <2>1. call[c].pc # "idle" /\ call[c].req \in Request
    BY <1>0, <1>7 DEF ReplaySkipped, Replayed, At, CallTyped
  <2>2. \E ok \in BOOLEAN : Return(c, ok)
    BY <1>7 DEF ReplaySkipped, Replayed
  <2>3. CallTyped'
    BY <1>0, <2>1, <2>2, ReturnTyped
  <2> QED
    BY <1>7, <2>1, <2>3 DEF ReplaySkipped, Replayed, Typed, Req
<1>8. CASE Authorize(c)
  <2>1. call[c].pc # "idle" /\ call[c].req \in Request
    BY <1>0, <1>8 DEF Authorize, At, CallTyped
  <2>2. Goto(c, "handle")
    BY <1>8 DEF Authorize, Goto
  <2>3. CallTyped'
    BY <1>0, <2>1, <2>2, GotoTyped DEF Control
  <2> QED
    BY <1>8, <2>1, <2>3 DEF Authorize, Typed, Req
<1>9. CASE Unauthorized(c)
  <2>1. call[c].pc # "idle" /\ call[c].req \in Request
    BY <1>0, <1>9 DEF Unauthorized, At, CallTyped
  <2>2. \E ok \in BOOLEAN : Return(c, ok)
    BY <1>9 DEF Unauthorized
  <2>3. CallTyped'
    BY <1>0, <2>1, <2>2, ReturnTyped
  <2> QED
    BY <1>9, <2>1, <2>3 DEF Unauthorized, Typed, Req
<1>10. CASE Untrusted(c)
  <2>1. call[c].pc # "idle" /\ call[c].req \in Request
    BY <1>0, <1>10 DEF Untrusted, At, CallTyped
  <2>2. \E ok \in BOOLEAN : Return(c, ok)
    BY <1>10 DEF Untrusted, Refuse
  <2>3. CallTyped'
    BY <1>0, <2>1, <2>2, ReturnTyped
  <2> QED
    BY <1>10, <2>1, <2>3 DEF Untrusted, Typed, Req
<1>11. CASE Handle(c)
  <2>1. call[c].pc # "idle" /\ call[c].req \in Request
    BY <1>0, <1>11 DEF Handle, At, CallTyped
  <2>2. Goto(c, "mark") \/ Goto(c, "evaluate")
    BY <1>11 DEF Handle, Goto
  <2>3. CallTyped'
    BY <1>0, <2>1, <2>2, GotoTyped DEF Control
  <2> QED
    BY <1>11, <2>1, <2>3 DEF Handle, Typed, Req
<1>12. CASE Pending(c)
  <2>1. call[c].pc # "idle" /\ call[c].req \in Request
    BY <1>0, <1>12 DEF Pending, At, CallTyped
  <2>2. \E ok \in BOOLEAN : Return(c, ok)
    BY <1>12 DEF Pending, Refuse
  <2>3. CallTyped'
    BY <1>0, <2>1, <2>2, ReturnTyped
  <2> QED
    BY <1>12, <2>1, <2>3 DEF Pending, Typed, Req
<1>13. CASE HandleFails(c)
  <2>1. call[c].pc # "idle" /\ call[c].req \in Request
    BY <1>0, <1>13 DEF HandleFails, At, CallTyped
  <2>2. \E ok \in BOOLEAN : Return(c, ok)
    BY <1>13 DEF HandleFails
  <2>3. CallTyped'
    BY <1>0, <2>1, <2>2, ReturnTyped
  <2> QED
    BY <1>13, <2>1, <2>3 DEF HandleFails, Typed, Req
<1>14. CASE Evaluate(c)
  <2>1. call[c].pc # "idle" /\ call[c].req \in Request
    BY <1>0, <1>14 DEF Evaluate, At, CallTyped
  <2>2. Goto(c, "mark")
    BY <1>14 DEF Evaluate, Goto
  <2>3. CallTyped'
    BY <1>0, <2>1, <2>2, GotoTyped DEF Control
  <2> QED
    BY <1>14, <2>1, <2>3 DEF Evaluate, Typed, Req
<1>15. CASE Mark(c)
  <2>1. call[c].pc # "idle" /\ call[c].req \in Request
    BY <1>0, <1>15 DEF Mark, At, CallTyped
  <2>2. Goto(c, "announce") \/ Goto(c, "accept") \/ Return(c, TRUE)
    BY <1>15 DEF Mark, Goto, Return
  <2>3. CallTyped'
    BY <1>0, <2>1, <2>2, GotoTyped, ReturnTyped DEF Control
  <2> QED
    BY <1>15, <2>1, <2>3 DEF Mark, Typed, Req
<1>16. CASE Announce(c)
  <2>1. call[c].pc # "idle" /\ call[c].req \in Request
    BY <1>0, <1>16 DEF Announce, At, CallTyped
  <2>2. \E ok \in BOOLEAN : Return(c, ok)
    BY <1>16 DEF Announce
  <2>3. CallTyped'
    BY <1>0, <2>1, <2>2, ReturnTyped
  <2> QED
    BY <1>16, <2>1, <2>3 DEF Announce, Typed, Req
<1>17. CASE Accept(c)
  <2>1. call[c].pc # "idle" /\ call[c].req \in Request
    BY <1>0, <1>17 DEF Accept, At, CallTyped
  <2>2. Goto(c, "wake") \/ Return(c, TRUE)
    BY <1>17 DEF Accept, Goto, Return
  <2>3. CallTyped'
    BY <1>0, <2>1, <2>2, GotoTyped, ReturnTyped DEF Control
  <2> QED
    BY <1>17, <2>1, <2>3 DEF Accept, Typed, Req
<1>18. CASE PublishFails(c)
  <2>1. call[c].pc # "idle" /\ call[c].req \in Request
    BY <1>0, <1>18 DEF PublishFails, At, CallTyped
  <2>2. \E ok \in BOOLEAN : Return(c, ok)
    BY <1>18 DEF PublishFails
  <2>3. CallTyped'
    BY <1>0, <2>1, <2>2, ReturnTyped
  <2> QED
    BY <1>18, <2>1, <2>3 DEF PublishFails, Typed, Req
<1>19. CASE Wake(c)
  <2>1. call[c].pc # "idle" /\ call[c].req \in Request
    BY <1>0, <1>19 DEF Wake, At, CallTyped
  <2>2. \E ok \in BOOLEAN : Return(c, ok)
    BY <1>19 DEF Wake
  <2>3. CallTyped'
    BY <1>0, <2>1, <2>2, ReturnTyped
  <2> QED
    BY <1>19, <2>1, <2>3 DEF Wake, Typed, Req
<1>20. CASE Answered(c)
  <2>1. CallTyped'
    BY <1>0, <1>20 DEF Answered, CallTyped, Control, Idle
  <2> QED
    BY <1>20, <2>1 DEF Answered, Typed
<1> QED
  BY <1>1, <1>2, <1>3, <1>4, <1>5, <1>6, <1>7, <1>8, <1>9, <1>10, <1>11, <1>12, <1>13, <1>14, <1>15, <1>16, <1>17, <1>18, <1>19, <1>20 DEF Step

(* What the other calls rely on only grows: a step of call c that keeps    *)
(* the marker's and its own part of the invariant keeps everyone's.        *)
LEMMA Frame ==
  ASSUME NEW c \in Caller, IInv, Typed',
         class' = class, body' = body,
         applied \subseteq applied', published \subseteq published',
         marker # None => marker' # None,
         \A d \in Caller \ {c} : call'[d] = call[d],
         MarkerStands', CallStands(c)', SuccessStands(c)', AcceptedIsApplied'
  PROVE  IInv'
PROOF
<1>1. ASSUME NEW d \in Caller PROVE CallStands(d)'
  <2>1. CASE d = c
    BY <2>1
  <2>2. CASE d # c
    <3>1. CallStands(d) /\ call'[d] = call[d]
      BY <2>2 DEF IInv
    <3> QED
      BY <3>1 DEF CallStands, Served, Replays, Accepted
  <2> QED BY <2>1, <2>2
<1>2. ASSUME NEW d \in Caller PROVE SuccessStands(d)'
  <2>1. CASE d = c
    BY <2>1
  <2>2. CASE d # c
    <3>1. SuccessStands(d) /\ call'[d] = call[d]
      BY <2>2 DEF IInv, SuccessIsPublished, SuccessStands, Accepted
    <3>2. SUFFICES ASSUME call[d].pc = "returned", call[d].ok, Path[d] = "mcp"
                   PROVE  /\ class[call[d].req] \in {"strict", "virtual", "admitted"} => Accepted(call[d].req)'
                          /\ class[call[d].req] = "evaluated" =>
                               \/ \E r \in Request : class[r] = "evaluated" /\ Accepted(r)'
                               \/ marker' # None /\ class[marker'] # "evaluated"
      BY <3>1 DEF SuccessStands, At, Req, Accepted
    <3>3. /\ class[call[d].req] \in {"strict", "virtual", "admitted"} => Accepted(call[d].req)
          /\ class[call[d].req] = "evaluated" =>
               \/ \E r \in Request : class[r] = "evaluated" /\ Accepted(r)
               \/ marker # None /\ class[marker] # "evaluated"
      BY <3>1, <3>2 DEF SuccessStands, At, Req
    <3>4. class[call[d].req] \in {"strict", "virtual", "admitted"} => Accepted(call[d].req)'
      BY <3>1, <3>3 DEF Accepted
    <3>5. ASSUME NEW r \in Request, class[r] = "evaluated", Accepted(r)
          PROVE  \E q \in Request : class[q] = "evaluated" /\ Accepted(q)'
      BY <3>5 DEF Accepted
    <3>6. CASE marker # None
      <4>1. marker' \in Request
        BY <3>6 DEF Typed, CallTyped
      <4>2. class[marker'] = "evaluated" => Accepted(marker)'
        BY <4>1, <3>6 DEF MarkerStands, Accepted
      <4> QED
        BY <3>4, <4>1, <4>2, <3>6, marker' # None DEF Accepted
    <3> QED
      BY <3>3, <3>4, <3>5, <3>6
  <2> QED BY <2>1, <2>2
<1> QED
  BY <1>1, <1>2 DEF IInv, SuccessIsPublished, SuccessStands, Accepted

(* A step of one call keeps the invariant.                                 *)
LEMMA StepIInv ==
  ASSUME NEW c \in Caller, IInv, Step(c)
  PROVE  IInv'
PROOF
<1>0. /\ Typed /\ Typed'
      /\ MarkerStands /\ CallStands(c) /\ AcceptedIsApplied
  BY StepTyped DEF IInv
<1>. DEFINE Quiet == /\ applied' = applied /\ marker' = marker /\ woken' = woken
                    /\ class' = class /\ body' = body /\ published \subseteq published'
                    /\ \A r \in Request : Accepted(r)' = Accepted(r)
            Own == CallStands(c)' /\ SuccessStands(c)'
            Others == \A d \in Caller \ {c} : call'[d] = call[d]
<1>1. ASSUME Quiet, Own, Others PROVE IInv'
  <2>1. MarkerStands'
    BY <1>0, <1>1 DEF MarkerStands, Typed, CallTyped
  <2>2. AcceptedIsApplied'
    BY <1>0, <1>1 DEF AcceptedIsApplied, Replays, Typed, CallTyped, Accepted
  <2> QED
    BY <1>0, <1>1, <2>1, <2>2, Frame
<1> HIDE DEF Quiet, Own, Others
<1>2. ASSUME NEW r \in Request, Submit(c, r) PROVE IInv'
  <2>1. Quiet
    BY <1>2 DEF Submit, Quiet, Accepted
  <2>2. CallStands(c)'
    BY <1>2, <1>0 DEF Submit, Typed, CallTyped, CallStands, Served, Replays, Accepted, At, Req, Goto, Return, Refuse, Idle
  <2>3. SuccessStands(c)'
    BY <1>2, <1>0 DEF Submit, Typed, CallTyped, SuccessStands, Accepted, At, Req, Goto, Return, Refuse, Idle
  <2>4. Others
    BY <1>2, <1>0 DEF Submit, Typed, CallTyped, Others, At, Req, Goto, Return, Refuse, Idle
  <2> QED
    BY <1>1, <2>1, <2>2, <2>3, <2>4 DEF Own
<1>3. CASE Drop(c)
  <2>1. Quiet
    BY <1>3 DEF Drop, Quiet, Accepted
  <2>2. CallStands(c)'
    BY <1>3, <1>0 DEF Drop, Typed, CallTyped, CallStands, Served, Replays, Accepted, At, Req, Goto, Return, Refuse, Idle
  <2>3. SuccessStands(c)'
    BY <1>3, <1>0, PathAssumption DEF Drop, Typed, CallTyped, SuccessStands, Accepted, At, Req, Goto, Return, Refuse, Idle
  <2>4. Others
    BY <1>3, <1>0 DEF Drop, Typed, CallTyped, Others, At, Req, Goto, Return, Refuse, Idle
  <2> QED
    BY <1>1, <2>1, <2>2, <2>3, <2>4 DEF Own
<1>4. CASE RejectMalformed(c)
  <2>1. Quiet
    BY <1>4 DEF RejectMalformed, Tell, Quiet, Accepted
  <2>2. CallStands(c)'
    BY <1>4, <1>0 DEF RejectMalformed, Typed, CallTyped, CallStands, Served, Replays, Accepted, At, Req, Goto, Return, Refuse, Idle
  <2>3. SuccessStands(c)'
    BY <1>4, <1>0 DEF RejectMalformed, Typed, CallTyped, SuccessStands, Accepted, At, Req, Goto, Return, Refuse, Idle
  <2>4. Others
    BY <1>4, <1>0 DEF RejectMalformed, Typed, CallTyped, Others, At, Req, Goto, Return, Refuse, Idle
  <2> QED
    BY <1>1, <2>1, <2>2, <2>3, <2>4 DEF Own
<1>5. CASE Fresh(c)
  <2>1. Quiet
    BY <1>5 DEF Fresh, Quiet, Accepted
  <2>2. CallStands(c)'
    BY <1>5, <1>0 DEF Fresh, Typed, CallTyped, CallStands, Served, Replays, Accepted, At, Req, Goto, Return, Refuse, Idle
  <2>3. SuccessStands(c)'
    BY <1>5, <1>0 DEF Fresh, Typed, CallTyped, SuccessStands, Accepted, At, Req, Goto, Return, Refuse, Idle
  <2>4. Others
    BY <1>5, <1>0 DEF Fresh, Typed, CallTyped, Others, At, Req, Goto, Return, Refuse, Idle
  <2> QED
    BY <1>1, <2>1, <2>2, <2>3, <2>4 DEF Own
<1>6. CASE ReplayConflicts(c)
  <2>1. Quiet
    BY <1>6 DEF ReplayConflicts, Replayed, Tell, Quiet, Accepted
  <2>2. CallStands(c)'
    BY <1>6, <1>0 DEF ReplayConflicts, Replayed, Typed, CallTyped, CallStands, Served, Replays, Accepted, At, Req, Goto, Return, Refuse, Idle
  <2>3. SuccessStands(c)'
    BY <1>6, <1>0 DEF ReplayConflicts, Replayed, Typed, CallTyped, SuccessStands, Accepted, At, Req, Goto, Return, Refuse, Idle
  <2>4. Others
    BY <1>6, <1>0 DEF ReplayConflicts, Replayed, Typed, CallTyped, Others, At, Req, Goto, Return, Refuse, Idle
  <2> QED
    BY <1>1, <2>1, <2>2, <2>3, <2>4 DEF Own
<1>7. CASE ReplayAccepted(c)
  <2>1. Quiet
    BY <1>7 DEF ReplayAccepted, Replayed, Conflicts, Quiet, Accepted
  <2>2. CallStands(c)'
    BY <1>7, <1>0 DEF ReplayAccepted, Replayed, Conflicts, Typed, CallTyped, CallStands, Served, Replays, MarkerStands, Accepted, At, Req, Goto, Return, Refuse, Idle
  <2>3. SuccessStands(c)'
    BY <1>7, <1>0 DEF ReplayAccepted, Replayed, Conflicts, Typed, CallTyped, SuccessStands, Accepted, At, Req, Goto, Return, Refuse, Idle
  <2>4. Others
    BY <1>7, <1>0 DEF ReplayAccepted, Replayed, Conflicts, Typed, CallTyped, Others, At, Req, Goto, Return, Refuse, Idle
  <2> QED
    BY <1>1, <2>1, <2>2, <2>3, <2>4 DEF Own
<1>8. CASE ReplaySkipped(c)
  <2>1. Quiet
    BY <1>8 DEF ReplaySkipped, Replayed, Quiet, Accepted
  <2>2. CallStands(c)'
    BY <1>8, <1>0 DEF ReplaySkipped, Replayed, Typed, CallTyped, CallStands, Served, Replays, Accepted, At, Req, Goto, Return, Refuse, Idle
  <2>3. SuccessStands(c)'
    <3>1. /\ call[c].req \in Request /\ call'[c].req = call[c].req
          /\ class[call[c].req] \notin {"strict", "virtual", "admitted"}
          /\ marker # None /\ marker \in Request
      BY <1>8, <1>0 DEF ReplaySkipped, Replayed, Typed, CallTyped, At, Req, Return, Strict
    <3>2. class' = class /\ published' = published /\ marker' = marker
      BY <1>8 DEF ReplaySkipped
    <3>3. class[marker] = "evaluated" => Accepted(marker)
      BY <1>0, <3>1 DEF MarkerStands
    <3> QED
      BY <3>1, <3>2, <3>3 DEF SuccessStands, Accepted, At, Req
  <2>4. Others
    BY <1>8, <1>0 DEF ReplaySkipped, Replayed, Typed, CallTyped, Others, At, Req, Goto, Return, Refuse, Idle
  <2> QED
    BY <1>1, <2>1, <2>2, <2>3, <2>4 DEF Own
<1>9. CASE Authorize(c)
  <2>1. Quiet
    BY <1>9 DEF Authorize, Quiet, Accepted
  <2>2. CallStands(c)'
    BY <1>9, <1>0 DEF Authorize, Typed, CallTyped, CallStands, Served, Replays, Accepted, At, Req, Goto, Return, Refuse, Idle
  <2>3. SuccessStands(c)'
    BY <1>9, <1>0 DEF Authorize, Typed, CallTyped, SuccessStands, Accepted, At, Req, Goto, Return, Refuse, Idle
  <2>4. Others
    BY <1>9, <1>0 DEF Authorize, Typed, CallTyped, Others, At, Req, Goto, Return, Refuse, Idle
  <2> QED
    BY <1>1, <2>1, <2>2, <2>3, <2>4 DEF Own
<1>10. CASE Unauthorized(c)
  <2>1. Quiet
    BY <1>10 DEF Unauthorized, Tell, Quiet, Accepted
  <2>2. CallStands(c)'
    BY <1>10, <1>0 DEF Unauthorized, Typed, CallTyped, CallStands, Served, Replays, Accepted, At, Req, Goto, Return, Refuse, Idle
  <2>3. SuccessStands(c)'
    BY <1>10, <1>0 DEF Unauthorized, Typed, CallTyped, SuccessStands, Accepted, At, Req, Goto, Return, Refuse, Idle
  <2>4. Others
    BY <1>10, <1>0 DEF Unauthorized, Typed, CallTyped, Others, At, Req, Goto, Return, Refuse, Idle
  <2> QED
    BY <1>1, <2>1, <2>2, <2>3, <2>4 DEF Own
<1>11. CASE Untrusted(c)
  <2>1. Quiet
    BY <1>11 DEF Untrusted, Quiet, Accepted
  <2>2. CallStands(c)'
    BY <1>11, <1>0 DEF Untrusted, Typed, CallTyped, CallStands, Served, Replays, Accepted, At, Req, Goto, Return, Refuse, Idle
  <2>3. SuccessStands(c)'
    BY <1>11, <1>0, PathAssumption DEF Untrusted, Typed, CallTyped, SuccessStands, Accepted, At, Req, Goto, Return, Refuse, Idle
  <2>4. Others
    BY <1>11, <1>0 DEF Untrusted, Typed, CallTyped, Others, At, Req, Goto, Return, Refuse, Idle
  <2> QED
    BY <1>1, <2>1, <2>2, <2>3, <2>4 DEF Own
<1>12. CASE Pending(c)
  <2>1. Quiet
    BY <1>12 DEF Pending, Quiet, Accepted
  <2>2. CallStands(c)'
    BY <1>12, <1>0 DEF Pending, Typed, CallTyped, CallStands, Served, Replays, Accepted, At, Req, Goto, Return, Refuse, Idle
  <2>3. SuccessStands(c)'
    BY <1>12, <1>0, PathAssumption DEF Pending, Typed, CallTyped, SuccessStands, Accepted, At, Req, Goto, Return, Refuse, Idle
  <2>4. Others
    BY <1>12, <1>0 DEF Pending, Typed, CallTyped, Others, At, Req, Goto, Return, Refuse, Idle
  <2> QED
    BY <1>1, <2>1, <2>2, <2>3, <2>4 DEF Own
<1>13. CASE HandleFails(c)
  <2>1. Quiet
    BY <1>13 DEF HandleFails, Tell, Quiet, Accepted
  <2>2. CallStands(c)'
    BY <1>13, <1>0 DEF HandleFails, Typed, CallTyped, CallStands, Served, Replays, Accepted, At, Req, Goto, Return, Refuse, Idle
  <2>3. SuccessStands(c)'
    BY <1>13, <1>0 DEF HandleFails, Typed, CallTyped, SuccessStands, Accepted, At, Req, Goto, Return, Refuse, Idle
  <2>4. Others
    BY <1>13, <1>0 DEF HandleFails, Typed, CallTyped, Others, At, Req, Goto, Return, Refuse, Idle
  <2> QED
    BY <1>1, <2>1, <2>2, <2>3, <2>4 DEF Own
<1>14. CASE PublishFails(c)
  <2>1. Quiet
    BY <1>14 DEF PublishFails, Quiet, Accepted
  <2>2. CallStands(c)'
    BY <1>14, <1>0 DEF PublishFails, Typed, CallTyped, CallStands, Served, Replays, Accepted, At, Req, Goto, Return, Refuse, Idle
  <2>3. SuccessStands(c)'
    BY <1>14, <1>0 DEF PublishFails, Typed, CallTyped, SuccessStands, Accepted, At, Req, Goto, Return, Refuse, Idle
  <2>4. Others
    BY <1>14, <1>0 DEF PublishFails, Typed, CallTyped, Others, At, Req, Goto, Return, Refuse, Idle
  <2> QED
    BY <1>1, <2>1, <2>2, <2>3, <2>4 DEF Own
<1>15. CASE Answered(c)
  <2>1. Quiet
    BY <1>15 DEF Answered, Quiet, Accepted
  <2>2. CallStands(c)'
    BY <1>15, <1>0 DEF Answered, Typed, CallTyped, CallStands, Served, Replays, Accepted, At, Req, Goto, Return, Refuse, Idle
  <2>3. SuccessStands(c)'
    BY <1>15, <1>0 DEF Answered, Typed, CallTyped, SuccessStands, Accepted, At, Req, Goto, Return, Refuse, Idle
  <2>4. Others
    BY <1>15, <1>0 DEF Answered, Typed, CallTyped, Others, At, Req, Goto, Return, Refuse, Idle
  <2> QED
    BY <1>1, <2>1, <2>2, <2>3, <2>4 DEF Own
<1>16. CASE Handle(c)
  <2>1. /\ class' = class /\ body' = body /\ applied \subseteq applied' /\ published \subseteq published'
        /\ marker # None => marker' # None
    BY <1>16, <1>0, NoneAssumption DEF Handle, Typed, CallTyped, At, Req
  <2>2. Others
    BY <1>16, <1>0 DEF Handle, Typed, CallTyped, Others, At, Req, Goto, Return, Refuse, Idle
  <2>3. CallStands(c)'
    BY <1>16, <1>0 DEF Handle, Typed, CallTyped, CallStands, Served, Replays, Accepted, At, Req, Goto, Return, Refuse, Idle
  <2>4. SuccessStands(c)'
    BY <1>16, <1>0 DEF Handle, Typed, CallTyped, CallStands, Served, Replays, SuccessStands, Accepted, At, Req, Goto, Return, Refuse, Idle
  <2>5. MarkerStands'
    BY <1>16, <1>0 DEF Handle, Typed, CallTyped, CallStands, Served, Replays, MarkerStands, Accepted, At, Req
  <2>6. AcceptedIsApplied'
    BY <1>16, <1>0 DEF Handle, Typed, CallTyped, CallStands, Served, Replays, AcceptedIsApplied, Accepted, At, Req
  <2> QED
    BY <1>0, <2>1, <2>2, <2>3, <2>4, <2>5, <2>6, Frame DEF Others
<1>17. CASE Evaluate(c)
  <2>1. /\ class' = class /\ body' = body /\ applied \subseteq applied' /\ published \subseteq published'
        /\ marker # None => marker' # None
    BY <1>17, <1>0, NoneAssumption DEF Evaluate, Typed, CallTyped, At, Req
  <2>2. Others
    BY <1>17, <1>0 DEF Evaluate, Typed, CallTyped, Others, At, Req, Goto, Return, Refuse, Idle
  <2>3. CallStands(c)'
    BY <1>17, <1>0 DEF Evaluate, Typed, CallTyped, CallStands, Served, Replays, Accepted, At, Req, Goto, Return, Refuse, Idle
  <2>4. SuccessStands(c)'
    BY <1>17, <1>0 DEF Evaluate, Typed, CallTyped, CallStands, Served, Replays, SuccessStands, Accepted, At, Req, Goto, Return, Refuse, Idle
  <2>5. MarkerStands'
    BY <1>17, <1>0 DEF Evaluate, Typed, CallTyped, CallStands, Served, Replays, MarkerStands, Accepted, At, Req
  <2>6. AcceptedIsApplied'
    BY <1>17, <1>0 DEF Evaluate, Typed, CallTyped, CallStands, Served, Replays, AcceptedIsApplied, Accepted, At, Req
  <2> QED
    BY <1>0, <2>1, <2>2, <2>3, <2>4, <2>5, <2>6, Frame DEF Others
<1>18. CASE Mark(c)
  <2>1. /\ class' = class /\ body' = body /\ applied \subseteq applied' /\ published \subseteq published'
        /\ marker # None => marker' # None
    BY <1>18, <1>0, NoneAssumption DEF Mark, Typed, CallTyped, At, Req
  <2>2. Others
    BY <1>18, <1>0 DEF Mark, Typed, CallTyped, Others, At, Req, Goto, Return, Refuse, Idle
  <2>3. CallStands(c)'
    BY <1>18, <1>0 DEF Mark, Typed, CallTyped, CallStands, Served, Replays, Accepted, At, Req, Goto, Return, Refuse, Idle
  <2>4. SuccessStands(c)'
    <3>1. /\ call[c].req \in Request /\ call'[c].req = call[c].req
          /\ call'[c].pc = "returned" => class[call[c].req] \in {"evaluated", "backup"}
      BY <1>18, <1>0 DEF Mark, Typed, CallTyped, At, Req, Goto, Return
    <3>2. class' = class /\ published' = published
      BY <1>18 DEF Mark
    <3>3. class[call[c].req] = "evaluated" => Accepted(call[c].req)
      BY <1>18, <1>0 DEF Mark, CallStands, Served, Replays, At
    <3> QED
      BY <3>1, <3>2, <3>3 DEF SuccessStands, Accepted, At, Req
  <2>5. MarkerStands'
    BY <1>18, <1>0 DEF Mark, Typed, CallTyped, CallStands, Served, Replays, MarkerStands, Accepted, At, Req
  <2>6. AcceptedIsApplied'
    BY <1>18, <1>0 DEF Mark, Typed, CallTyped, CallStands, Served, Replays, AcceptedIsApplied, Accepted, At, Req
  <2> QED
    BY <1>0, <2>1, <2>2, <2>3, <2>4, <2>5, <2>6, Frame DEF Others
<1>19. CASE Announce(c)
  <2>1. /\ class' = class /\ body' = body /\ applied \subseteq applied' /\ published \subseteq published'
        /\ marker # None => marker' # None
    BY <1>19, <1>0, NoneAssumption DEF Announce, Tell, Typed, CallTyped, At, Req
  <2>2. Others
    BY <1>19, <1>0 DEF Announce, Typed, CallTyped, Others, At, Req, Goto, Return, Refuse, Idle
  <2>3. CallStands(c)'
    BY <1>19, <1>0 DEF Announce, Tell, Typed, CallTyped, CallStands, Served, Replays, Accepted, At, Req, Goto, Return, Refuse, Idle
  <2>4. SuccessStands(c)'
    BY <1>19, <1>0 DEF Announce, Tell, Typed, CallTyped, CallStands, Served, Replays, SuccessStands, Accepted, At, Req, Goto, Return, Refuse, Idle
  <2>5. MarkerStands'
    BY <1>19, <1>0 DEF Announce, Tell, Typed, CallTyped, CallStands, Served, Replays, MarkerStands, Accepted, At, Req
  <2>6. AcceptedIsApplied'
    BY <1>19, <1>0 DEF Announce, Tell, Typed, CallTyped, CallStands, Served, Replays, AcceptedIsApplied, Accepted, At, Req
  <2> QED
    BY <1>0, <2>1, <2>2, <2>3, <2>4, <2>5, <2>6, Frame DEF Others
<1>20. CASE Accept(c)
  <2>1. /\ class' = class /\ body' = body /\ applied \subseteq applied' /\ published \subseteq published'
        /\ marker # None => marker' # None
    BY <1>20, <1>0, NoneAssumption DEF Accept, Typed, CallTyped, At, Req
  <2>2. Others
    BY <1>20, <1>0 DEF Accept, Typed, CallTyped, Others, At, Req, Goto, Return, Refuse, Idle
  <2>3. CallStands(c)'
    BY <1>20, <1>0 DEF Accept, Typed, CallTyped, CallStands, Served, Replays, Accepted, At, Req, Goto, Return, Refuse, Idle
  <2>4. SuccessStands(c)'
    BY <1>20, <1>0 DEF Accept, Typed, CallTyped, CallStands, Served, Replays, SuccessStands, Accepted, At, Req, Goto, Return, Refuse, Idle
  <2>5. MarkerStands'
    BY <1>20, <1>0 DEF Accept, Typed, CallTyped, CallStands, Served, Replays, MarkerStands, Accepted, At, Req
  <2>6. AcceptedIsApplied'
    BY <1>20, <1>0 DEF Accept, Typed, CallTyped, CallStands, Served, Replays, AcceptedIsApplied, Accepted, At, Req
  <2> QED
    BY <1>0, <2>1, <2>2, <2>3, <2>4, <2>5, <2>6, Frame DEF Others
<1>21. CASE Wake(c)
  <2>1. /\ class' = class /\ body' = body /\ applied \subseteq applied' /\ published \subseteq published'
        /\ marker # None => marker' # None
    BY <1>21, <1>0, NoneAssumption DEF Wake, Typed, CallTyped, At, Req
  <2>2. Others
    BY <1>21, <1>0 DEF Wake, Typed, CallTyped, Others, At, Req, Goto, Return, Refuse, Idle
  <2>3. CallStands(c)'
    BY <1>21, <1>0 DEF Wake, Typed, CallTyped, CallStands, Served, Replays, Accepted, At, Req, Goto, Return, Refuse, Idle
  <2>4. SuccessStands(c)'
    BY <1>21, <1>0 DEF Wake, Typed, CallTyped, CallStands, Served, Replays, SuccessStands, Accepted, At, Req, Goto, Return, Refuse, Idle
  <2>5. MarkerStands'
    BY <1>21, <1>0 DEF Wake, Typed, CallTyped, CallStands, Served, Replays, MarkerStands, Accepted, At, Req
  <2>6. AcceptedIsApplied'
    BY <1>21, <1>0 DEF Wake, Typed, CallTyped, CallStands, Served, Replays, AcceptedIsApplied, Accepted, At, Req
  <2> QED
    BY <1>0, <2>1, <2>2, <2>3, <2>4, <2>5, <2>6, Frame DEF Others
<1> QED
  BY <1>2, <1>3, <1>4, <1>5, <1>6, <1>7, <1>8, <1>9, <1>10, <1>11, <1>12, <1>13, <1>14, <1>15, <1>16, <1>17, <1>18, <1>19, <1>20, <1>21 DEF Step

(* A change of the trust set and a restart keep it too.                    *)
LEMMA NextIInv == IInv /\ [Next]_vars => IInv'
PROOF
<1> SUFFICES ASSUME IInv, [Next]_vars PROVE IInv'
  OBVIOUS
<1>1. ASSUME NEW c \in Caller, Step(c) PROVE IInv'
  BY <1>1, StepIInv
<1>2. ASSUME NEW a \in Actor, NEW s \in Standings, ChangeTrust(a, s) PROVE IInv'
  BY <1>2 DEF ChangeTrust, IInv, Typed, CallTyped, MarkerStands, CallStands, Served, Replays, Accepted, AcceptedIsApplied, SuccessIsPublished, At, Req
<1>3. CASE Crash
  <2>1. Typed'
    BY <1>3 DEF Crash, Idle, IInv, Typed, CallTyped, Control
  <2>2. \A c \in Caller : call'[c].pc = "idle"
    BY <1>3 DEF Crash, Idle
  <2>3. MarkerStands' /\ AcceptedIsApplied'
    BY <1>3 DEF Crash, IInv, MarkerStands, AcceptedIsApplied, Replays, Accepted
  <2> QED
    BY <2>1, <2>2, <2>3 DEF IInv, CallStands, Served, Replays, SuccessIsPublished, At
<1>4. CASE UNCHANGED vars
  BY <1>4 DEF vars, IInv, Typed, CallTyped, MarkerStands, CallStands, Served, Replays, Accepted, AcceptedIsApplied, SuccessIsPublished, At, Req
<1> QED
  BY <1>1, <1>2, <1>3, <1>4 DEF Next

-----------------------------------------------------------------------------
(* Every accepted status names a request that a handler has applied or     *)
(* that replays an applied one of the same body, and an                    *)
(* effect is unlocked only behind one, for any number of racing calls,     *)
(* requests that reuse the intent_id, lost markers and restarts.           *)
THEOREM AcceptedIsAppliedAlways == Spec => []AcceptedIsApplied
PROOF
<1>1. IInv => AcceptedIsApplied
  BY DEF IInv
<1> QED
  BY <1>1, InitIInv, NextIInv, PTL DEF Spec

(* A strict request or an evaluation that succeeds in process has its      *)
(* outcome on the relays, whatever happened to earlier attempts.           *)
THEOREM SuccessIsPublishedAlways == Spec => []SuccessIsPublished
PROOF
<1>1. IInv => SuccessIsPublished
  BY DEF IInv
<1> QED
  BY <1>1, InitIInv, NextIInv, PTL DEF Spec

=============================================================================
