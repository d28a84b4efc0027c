------------------------------ MODULE MCInput ------------------------------
(* A small instance of the two places where input enters the daemon.  They *)
(* share no state, so one of them at a time goes through its behaviours.  A *)
(* call is normalized without regard to the calls before it, so that one   *)
(* call in each behaviour is enough.                                       *)
EXTENDS Framing, Normalize, SequencesExt

CONSTANTS g, b       \* bytes: a frame is acceptable when it has no b
CONSTANT Widths      \* the widths of the characters in this instance

MCByte == {g, b, Newline}
MCAccepted == BoundedSeq({g}, MaxFrame + MaxRead) \ {<<>>}

Texts == BoundedSeq(Widths, 3)
MCFallback == <<1, 1, 1>>
FewTexts == {<<>>, <<1>>, <<1, 4>>, <<3, 3, 1>>}
TwoTexts == {<<1>>, <<3, 3, 1>>}

NoCall == [app |-> <<>>, summary |-> <<>>, entry |-> Missing, body |-> <<>>,
           urgency |-> Missing, actions |-> <<>>]

MCNotifyCalls ==
    {[NoCall EXCEPT !.app = x, !.summary = y, !.entry = z] :
         x \in FewTexts, y \in Texts, z \in Texts \cup {Missing}}
      \cup {[NoCall EXCEPT !.body = x, !.urgency = u] :
               x \in Texts, u \in (0..3) \cup {Missing, 255}}
      \cup {[NoCall EXCEPT !.actions = a] : a \in BoundedSeq(FewTexts, 5)
                                                   \cup BoundedSeq(TwoTexts, 7)}

Init == FramingInit /\ NormalizeInit
Next == \/ call = Missing /\ FramingNext /\ UNCHANGED normalizeVars
        \/ /\ call = Missing /\ arrived = <<>> /\ stage = "read"
           /\ NotifyInput
           /\ UNCHANGED framingVars

Spec == Init /\ [][Next]_<<framingVars, normalizeVars>>

=============================================================================
