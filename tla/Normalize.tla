----------------------------- MODULE Normalize -----------------------------
(***************************************************************************)
(* What a Notify call becomes before it is published:                      *)
(* NotificationInput::new in src/src/notification.rs, and validate_publish *)
(* in src/src/attention.rs, which the result has to pass.  NotificationStore*)
(* relies on it: there, Notify fails only for want of an identifier.       *)
(*                                                                         *)
(* A text is the sequence of the widths of its UTF-8 characters in bytes:  *)
(* where it may be cut and how long it is are all that matters.            *)
(***************************************************************************)
EXTENDS Naturals, Sequences

CONSTANTS
    NotifyCalls,          \* the calls to consider
    FallbackSource,       \* "notifications"
    FallbackTitle,        \* "Notification"
    MaxSource, MaxTitle, MaxBody,   \* MAX_SOURCE_BYTES, ...
    MaxKey, MaxLabel,     \* MAX_ACTION_KEY_BYTES, MAX_ACTION_LABEL_BYTES
    MaxActions,           \* MAX_ACTIONS
    Missing               \* a hint that is absent or of another type

Text == Seq(1..4)

NotifyCall ==
    [app : Text, summary : Text, entry : Text \cup {Missing}, body : Text,
     urgency : Nat \cup {Missing}, actions : Seq(Text)]

\* A limit on a required text has room for any one character.
ASSUME NormalizeAssumption ==
    /\ NotifyCalls \subseteq NotifyCall
    /\ Missing \notin NotifyCalls \cup Text \cup Nat
    /\ {FallbackSource, FallbackTitle} \subseteq Text \ {<<>>}
    /\ {MaxSource, MaxTitle, MaxBody, MaxKey, MaxLabel, MaxActions} \subseteq Nat
    /\ MaxSource >= 4 /\ MaxTitle >= 4

\* Where the characters end: the bytes that the first n of them take.
Offsets(text) ==
    LET offset[n \in 0..Len(text)] == IF n = 0 THEN 0 ELSE offset[n - 1] + text[n]
    IN  offset

Bytes(text) == Offsets(text)[Len(text)]

Prefix(text, n) == SubSeq(text, 1, n)

VARIABLES
    call,                 \* the parameters of Notify, Missing before the first
    input                 \* NotificationInput

normalizeVars == <<call, input>>

-----------------------------------------------------------------------------
\* str::is_char_boundary.
Boundaries(text) == {Offsets(text)[n] : n \in 0..Len(text)}

\* Mutant: the limit counts characters.
TruncateChars(text, limit) ==
    IF Len(text) <= limit THEN text ELSE Prefix(text, limit)

\* The last of them up to the limit, which truncate_utf8 goes back to.
LastBoundary(text, limit) ==
    LET back[end \in 0..limit] ==
            IF end \in Boundaries(text) THEN end ELSE back[end - 1]
    IN  back[limit]

\* truncate_utf8.
Truncate(text, limit) ==
    IF Bytes(text) <= limit THEN text
    ELSE Prefix(text, CHOOSE n \in 0..Len(text) :
                          Offsets(text)[n] = LastBoundary(text, limit))

\* as_chunks::<2>: a key without a label is left out.
Pairs(actions) ==
    [i \in 1..(Len(actions) \div 2) |-> <<actions[2 * i - 1], actions[2 * i]>>]

\* Mutant: every pair is taken.
ParseActionsAll(actions) ==
    [i \in DOMAIN Pairs(actions) |-> [key |-> Truncate(Pairs(actions)[i][1], MaxKey),
                                      label |-> Truncate(Pairs(actions)[i][2], MaxLabel)]]

\* parse_actions.
ParseActions(actions) ==
    LET pairs == Pairs(actions)
        n == IF Len(pairs) < MaxActions THEN Len(pairs) ELSE MaxActions
    IN  [i \in 1..n |-> [key |-> Truncate(pairs[i][1], MaxKey),
                         label |-> Truncate(pairs[i][2], MaxLabel)]]

\* Mutant: an empty desktop-entry hint is taken.
SourceUnfiltered(c) ==
    IF c.entry # Missing THEN c.entry
    ELSE IF c.app # <<>> THEN c.app
    ELSE FallbackSource

\* The first that is not empty: the desktop-entry hint, the application's
\* name, a fixed text.
Source(c) ==
    IF c.entry \notin {Missing, <<>>} THEN c.entry
    ELSE IF c.app # <<>> THEN c.app
    ELSE FallbackSource

Title(c) ==
    IF c.summary # <<>> THEN c.summary
    ELSE IF c.app # <<>> THEN c.app
    ELSE FallbackTitle

\* The urgency hint when it is one of 0, 1, 2, else 1.
Urgency(c) == IF c.urgency \in 0..2 THEN c.urgency ELSE 1

\* NotificationInput::new.
Normalized(c) ==
    [source |-> Truncate(Source(c), MaxSource),
     title |-> Truncate(Title(c), MaxTitle),
     body |-> Truncate(c.body, MaxBody),
     urgency |-> Urgency(c),
     actions |-> ParseActions(c.actions)]

\* validate_publish; the kind of a notification is a fixed, short text.
Required(text, limit) == text # <<>> /\ Bytes(text) <= limit
Optional(text, limit) == Bytes(text) <= limit

PublishAccepts(n) ==
    /\ Required(n.source, MaxSource)
    /\ Required(n.title, MaxTitle)
    /\ Optional(n.body, MaxBody)
    /\ n.urgency <= 2

-----------------------------------------------------------------------------
NormalizeInit == call = Missing /\ input = Missing

\* One call of Notify.
NotifyInput ==
    /\ \E c \in NotifyCalls : call' = c
    /\ input' = Normalized(call')

NormalizeSpec == NormalizeInit /\ [][NotifyInput]_normalizeVars

-----------------------------------------------------------------------------
(* Every call that reaches the daemon becomes an event that the event store*)
(* accepts: publish_with, whose errors Notify reports as exhausted         *)
(* identifiers, never fails for the fields.  A truncated text is never     *)
(* empty, which needs limits of at least one character.                    *)
NormalizedIsPublishable == call # Missing => PublishAccepts(input)

\* Reference: the longest run of whole characters within the limit.
IsLongestPrefix(short, text, limit) ==
    \E n \in 0..Len(text) :
        /\ short = Prefix(text, n)
        /\ Bytes(short) <= limit
        /\ n < Len(text) => Bytes(Prefix(text, n + 1)) > limit

(* Nothing is lost but what the limits demand: each field is the longest   *)
(* run of whole characters of the text it was taken from, a text within its*)
(* limit is kept as it is, and the actions are exactly the first MaxActions*)
(* pairs of a key and its label, in order: no more than those, and no fewer*)
(* as long as the call has them.                                           *)
TruncatesOnlyWhatMust ==
    call # Missing =>
        /\ \E t \in {call.entry, call.app, FallbackSource} \ {Missing} :
              IsLongestPrefix(input.source, t, MaxSource)
        /\ \E t \in {call.summary, call.app, FallbackTitle} :
              IsLongestPrefix(input.title, t, MaxTitle)
        /\ IsLongestPrefix(input.body, call.body, MaxBody)
        /\ DOMAIN input.actions = {i \in 1..MaxActions : 2 * i <= Len(call.actions)}
        /\ \A i \in DOMAIN input.actions :
              /\ IsLongestPrefix(input.actions[i].key, call.actions[2 * i - 1], MaxKey)
              /\ IsLongestPrefix(input.actions[i].label, call.actions[2 * i], MaxLabel)

=============================================================================
